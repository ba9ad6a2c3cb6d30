---------------------------- MODULE MCTransfers ----------------------------
EXTENDS Transfers, TLC
\* Files without documents, with whole and smaller batches, a document that is
\* there already, and an element that does not parse.
Files == {<<>>, <<2>>, <<2, 1, 1, 1, 1, 1, 2, Bad>>}
OneServer == [c \in Conn |-> "s"]
\* Numbers, or numbers and then strings.
OneKind   == [d \in Id |-> 1]
TwoKinds  == [d \in Id |-> d]
=============================================================================
