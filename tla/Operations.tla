------------------------------ MODULE Operations ------------------------------
(***************************************************************************)
(* The Operations pane: the registry every long command reports to         *)
(* (operations.rs, tracked in commands/mod.rs) and the pane that asks for  *)
(* its list again at each event (useOperations.js).  Commands run at once, *)
(* the list is read in two steps, and answers come in any order.           *)
(*                                                                         *)
(* Each operation runs once.  MaxClears bounds the clearing of the log.    *)
(***************************************************************************)
EXTENDS Integers, FiniteSets, Sequences, SequencesExt

CONSTANTS Op, MaxOperations, MaxClears

VARIABLES
    doing,    \* each operation: "new", "running", "ending", "stored" or "over"
    started,  \* the operations in the order of their started_at
    live,     \* OperationsRegistry.live
    store,    \* OperationsRegistry.store: finished operations, newest first
    pane,     \* "closed", "opening" or "listening"
    asks,     \* list_operations on its way: the live ones it has read, and for whom
    shown,    \* operations.value of the pane
    seen,     \* the operations whose end the pane has shown
    clears

vars == <<doing, started, live, store, pane, asks, shown, seen, clears>>

NotRead == {"not read"}

Init ==
    /\ doing = [o \in Op |-> "new"] /\ started = <<>> /\ live = {} /\ store = <<>>
    /\ pane = "closed" /\ asks = <<>> /\ shown = {} /\ seen = {} /\ clears = 0

\* A mistake the checks must catch: an event left alone while an answer is awaited.
EmitUnlessAsking ==
    asks' = IF pane = "listening" /\ asks = <<>> THEN Append(asks, [live |-> NotRead, first |-> FALSE]) ELSE asks

\* The event: a pane that listens asks for the list; one that doesn't never learns of it.
Emit == asks' = IF pane = "listening" THEN Append(asks, [live |-> NotRead, first |-> FALSE]) ELSE asks

-----------------------------------------------------------------------------
(* tracked: start, the command's own work, finish. *)

Start(o) ==
    /\ doing[o] = "new"
    /\ doing' = [doing EXCEPT ![o] = "running"] /\ started' = Append(started, o) /\ live' = live \cup {o}
    /\ Emit
    /\ UNCHANGED <<store, pane, shown, seen, clears>>

\* finish takes it out of live first.
Tracked(o) ==
    /\ doing[o] = "running"
    /\ doing' = [doing EXCEPT ![o] = "ending"] /\ live' = live \ {o}
    /\ UNCHANGED <<started, store, pane, asks, shown, seen, clears>>

WithRecord(o) == SubSeq(<<o>> \o store, 1, IF Len(store) < MaxOperations THEN Len(store) + 1 ELSE MaxOperations)

\* The record is written; a failed write loses it.
StoreRecord(o) ==
    /\ doing[o] = "ending"
    /\ doing' = [doing EXCEPT ![o] = "stored"]
    /\ \E written \in BOOLEAN : store' = IF written THEN WithRecord(o) ELSE store
    /\ UNCHANGED <<started, live, pane, asks, shown, seen, clears>>

Finish(o) ==
    /\ doing[o] = "stored"
    /\ doing' = [doing EXCEPT ![o] = "over"]
    /\ Emit
    /\ UNCHANGED <<started, live, store, pane, shown, seen, clears>>

ClearFinished ==
    /\ clears < MaxClears /\ store # <<>>
    /\ store' = <<>> /\ clears' = clears + 1
    /\ Emit
    /\ UNCHANGED <<doing, started, live, pane, shown, seen>>

-----------------------------------------------------------------------------
(* The pane. *)

\* onMounted asks once, and listens when it has the answer.
Open ==
    /\ pane = "closed"
    /\ pane' = "opening" /\ asks' = <<[live |-> NotRead, first |-> TRUE]>>
    /\ UNCHANGED <<doing, started, live, store, shown, seen, clears>>

Close ==
    /\ pane = "listening"
    /\ pane' = "closed" /\ shown' = {} /\ asks' = <<>>
    /\ UNCHANGED <<doing, started, live, store, seen, clears>>

\* list: what is running, then the log.
ReadLive(i) ==
    /\ asks[i].live = NotRead
    /\ asks' = [asks EXCEPT ![i].live = live]
    /\ UNCHANGED <<doing, started, live, store, pane, shown, seen, clears>>

At(o) == CHOOSE i \in 1..Len(started) : started[i] = o

Newer(r, records) == {s \in records : At(s.op) > At(r.op) \/ (s.op = r.op /\ s.running /\ ~r.running)}

\* The newest of both: one that ended in between is in both.
List(running) ==
    LET records == {[op |-> o, running |-> TRUE] : o \in running} \cup {[op |-> o, running |-> FALSE] : o \in Range(store)}
    IN {r \in records : Cardinality(Newer(r, records)) < MaxOperations}

\* The log is loaded and the answer reaches the pane; a late one replaces a newer.
Answer(i) ==
    /\ asks[i].live # NotRead
    /\ shown' = List(asks[i].live)
    /\ seen' = seen \cup {r.op : r \in {r \in shown' : ~r.running}}
    /\ pane' = IF asks[i].first THEN "listening" ELSE pane
    /\ asks' = RemoveAt(asks, i)
    /\ UNCHANGED <<doing, started, live, store, clears>>

-----------------------------------------------------------------------------
Work(o) == Tracked(o) \/ StoreRecord(o) \/ Finish(o)
Asked   == \E i \in 1..Len(asks) : ReadLive(i) \/ Answer(i)

Next == Open \/ Close \/ ClearFinished \/ Asked \/ \E o \in Op : Start(o) \/ Work(o)

Spec == Init /\ [][Next]_vars

FairSpec == Spec /\ WF_vars(Asked) /\ \A o \in Op : WF_vars(Work(o))

-----------------------------------------------------------------------------
\* A pane that listens when an operation's end is recorded comes to show that end, unless
\* the log is cleared or filled meanwhile: no answer on its way makes up for the event
\* ("re-fetches whenever the backend emits", useOperations.js:5-8).
PaneHearsOfEnds == \A o \in Op :
    (doing[o] = "stored" /\ pane = "listening" /\ Contains(store, o))
        ~> (o \in seen \/ pane # "listening" \/ ~Contains(store, o) \/ [op |-> o, running |-> FALSE] \notin List(live))
=============================================================================
