------------------------------ MODULE MCSqlTab ------------------------------
(* Small instances of SqlTab for TLC. *)
EXTENDS SqlTab
=============================================================================
