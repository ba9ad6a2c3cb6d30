------------------------------ MODULE KeptLog -------------------------------
(***************************************************************************)
(* What a store promises its commands, whatever the threads, the file      *)
(* system and the process do: one log, changed by one whole change at a    *)
(* time, each made to what the log holds then.  Only where a file could    *)
(* not be read is the log given up, and what it held is set aside if the   *)
(* file system can still do that.                                          *)
(***************************************************************************)
CONSTANTS
    Kind,           \* the stores looked at
    ChangeTo(_),    \* the changes the commands make to a store
    Apply(_, _, _)  \* what a change makes of a log

VARIABLES
    kind,       \* which store this is
    log,        \* what it holds
    aside,      \* what was set aside
    harmed      \* whether the file could ever not be read

Start == kind \in Kind /\ log = <<>> /\ aside = {} /\ harmed = FALSE

\* A change to what the log holds; once it could not be read, to nothing, or to what was
\* set aside under the hand of the command.
Bases == {log} \cup (IF harmed THEN {<<>>} ELSE {}) \cup (IF log = <<>> THEN aside ELSE {})

Commit ==
    /\ log' # log
    /\ \E base \in Bases, change \in ChangeTo(kind) : log' = Apply(kind, change, base)
    /\ UNCHANGED <<kind, aside, harmed>>

\* The disk lost it, or one read failed.
Harm ==
    /\ harmed' = TRUE
    /\ log' \in {log, <<>>}
    /\ UNCHANGED <<kind, aside>>

GiveUp ==
    /\ harmed
    /\ log' = <<>>
    /\ aside' = aside \cup {log}
    /\ UNCHANGED <<kind, harmed>>

Spec == Start /\ [][Commit \/ Harm \/ GiveUp]_<<kind, log, aside, harmed>>
=============================================================================
