----------------------------- MODULE MCMongoWork -----------------------------
(* Instances for TLC of the transfers of MongoDB connections and of the pane that lists   *)
(* them.  They share no state, so each behaviour is of one.                               *)
EXTENDS Transfers, TLC

CONSTANTS Op, MaxOperations, MaxClears

VARIABLES part, doing, started, live, store, pane, asks, shown, seen, clears

paneVars == <<doing, started, live, store, pane, asks, shown, seen, clears>>

\* Files without documents, with whole and smaller batches, a document that is
\* there already, and an element that does not parse.
Files == {<<>>, <<2>>, <<2, 1, 1, 1, 1, 1, 2, Bad>>}
OneServer == [c \in Conn |-> "s"]
\* All _ids are numbers.
OneKind   == [d \in Id |-> 1]

O == INSTANCE Operations

Transferring(A) == part = "transfers" /\ A /\ UNCHANGED <<part, paneVars>>
Listing(A)      == part = "pane" /\ A /\ UNCHANGED <<part, vars>>

InitPart ==
    /\ Init /\ O!Init /\ part \in {"transfers", "pane"}
    /\ part = "pane" => data = [v \in Stored |-> IF v = CHOOSE w \in Stored : TRUE THEN {1} ELSE Missing]

NextPart ==
    \/ \E j \in Job : Transferring(Start(j)) \/ Transferring(Goes(j)) \/ Transferring(Fails(j))
    \/ Transferring(Quit) \/ Transferring(Others)
    \/ Listing(O!Open) \/ Listing(O!Close) \/ Listing(O!ClearFinished) \/ Listing(O!Asked)
    \/ \E o \in Op : Listing(O!Start(o)) \/ Listing(O!Work(o))

SpecPart ==
    /\ InitPart /\ [][NextPart]_<<part, vars, paneVars>>
    /\ \A j \in Job : WF_vars(Transferring(Goes(j)))
    /\ WF_paneVars(Listing(O!Asked)) /\ \A o \in Op : WF_paneVars(Listing(O!Work(o)))

\* A listening pane comes to show each operation's end (operations.rs:97-117), as
\* Operations states it.
PaneHearsOfEnds == O!PaneHearsOfEnds
=============================================================================
