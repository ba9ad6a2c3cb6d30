-------------------------- MODULE MySqlRunsProofs ---------------------------
(***************************************************************************)
(* Proofs about the runs of a MySQL connection, for any tabs, pool, runs   *)
(* and statements: a KILL stops the run it was sent for, only a Commit     *)
(* makes the writes of a transaction permanent, and it makes all those     *)
(* permanent that were reported.                                           *)
(***************************************************************************)
EXTENDS MySqlRuns, TLAPS

Active(r) == run[r].at \notin {"none", "over"}

-----------------------------------------------------------------------------
(* The inductive invariant. *)

\* A run on its session is known to Cancel once it has a connection id, a KILL is on its
\* way only then, and what a run answers it answers at its end.
Held ==
    \A r \in Run :
        /\ run[r].hold => run[r].at \in {"between", "sent", "executing", "ended"}
        /\ Killing(r) => run[r].hold
        /\ run[r].told # "nothing" => run[r].at = "over"

\* A run in a transaction waits for its tab's session, another for one of the pool's.
Waits ==
    \A r \in Run :
        /\ run[r].at = "acquire" => ~run[r].manual
        /\ run[r].at = "lock" => run[r].manual
        /\ run[r].manual => run[r].at # "none"
        /\ run[r].at \in {"sent", "executing", "ended"} => run[r].left > 0

\* A tab's runs come one after the other, in the order of their numbers.
InTurn ==
    \A r, q \in Run : r < q /\ run[q].at # "none" =>
        run[r].at # "none" /\ (run[r].tab = run[q].tab => run[r].at = "over")

\* Autocommit is off on the session of a transaction from its begin to its end.
Manual ==
    /\ \A t \in Tab : tx[t].at # "none" => tx[t].server = "manual"
    /\ \A r \in Run : run[r].manual => tx[run[r].tab].at # "none"

\* What a transaction holds was written by runs of its tab.  A COMMIT waits for them, and
\* leaves nothing.
OwnPending ==
    /\ \A t \in Tab :
        /\ \A w \in tx[t].pending : run[w[1]].tab = t /\ run[w[1]].at # "none"
        /\ tx[t].at = "committed" => tx[t].pending = {}
    /\ \A r \in Run : run[r].manual /\ Active(r) => tx[run[r].tab].at \notin {"commit", "committed"}

\* The statements of a run that have ended well.
Done(r) ==
    IF run[r].told = "done" THEN 1..run[r].size
    ELSE IF run[r].at = "ended" /\ Succeeded(r) THEN run[r].left..run[r].size
    ELSE (run[r].left + 1)..run[r].size

\* A deadlock that its run has not answered yet.
Dropped(r) == run[r].at = "ended" /\ run[r].outcome = "deadlock"

\* Runs whose answer will be, or was, that all went well.
Claims(r) == run[r].told = "done" \/ (Active(r) /\ ~Dropped(r))

\* What r wrote a later run took back, and its tab is or will be told.
LostBy(r, q) ==
    /\ q > r /\ run[q].tab = run[r].tab /\ run[q].manual
    /\ (run[q].told \in {"rolled back", "stopped"} \/ Dropped(q))

Saved(r) == \A n \in Done(r) : <<r, n>> \in tx[run[r].tab].pending \cup kept

\* A statement done in a transaction that is not rolled back is in it, is kept, or was
\* lost to a deadlock of a later run.
Accounted ==
    \A r \in Run :
        run[r].manual /\ tx[run[r].tab].at \in {"open", "commit", "committed"} /\ Claims(r)
            => Saved(r) \/ \E q \in Run : LostBy(r, q)

RunsInv == TypeOK /\ Held /\ Waits /\ InTurn /\ Manual /\ OwnPending /\ Accounted

LEMMA InvInit == Init => RunsInv
BY SizesAssumption
DEF Init, NewRun, NoKill, RunsInv, TypeOK, RunState, TxState, KillState, Held, Waits, InTurn,
    Manual, OwnPending, Accounted, Claims, Active, Killing

-----------------------------------------------------------------------------
(* Most steps move one run on and take no write back. *)

\* r goes on, and the statements that end well are written.
Turns(r) ==
    /\ Active(r)
    /\ run' \in [Run -> RunState]
    /\ \A q \in Run : q # r => run'[q] = run[q]
    /\ run'[r].at # "none"
    /\ run'[r].tab = run[r].tab /\ run'[r].manual = run[r].manual /\ run'[r].size = run[r].size
    /\ Claims(r)' => /\ Claims(r)
                     /\ \A n \in Done(r)' : n \in Done(r) \/ <<r, n>> \in (tx[run[r].tab].pending \cup kept)'
    /\ Dropped(r) => Dropped(r)' \/ run'[r].told \in {"rolled back", "stopped"}

\* Nothing written is lost, and what a transaction gets is r's.
Writes(r) ==
    /\ tx' \in [Tab -> TxState] /\ kept' \subseteq Run \X (1..MaxStatements)
    /\ \A t \in Tab :
        /\ tx'[t].at = tx[t].at /\ tx'[t].server = tx[t].server
        /\ tx[t].pending \cup kept \subseteq tx'[t].pending \cup kept'
        /\ \A w \in tx'[t].pending : w \in tx[t].pending \/ (w[1] = r /\ run[r].tab = t /\ run[r].manual)

Moves(r) == Turns(r) /\ UNCHANGED <<tx, kept>>

LEMMA SetRun ==
    ASSUME run \in [Run -> RunState], NEW r \in Run, NEW next \in RunState, run' = [run EXCEPT ![r] = next]
    PROVE  run' \in [Run -> RunState] /\ run'[r] = next /\ \A q \in Run : q # r => run'[q] = run[q]
OBVIOUS

LEMMA NoneLeft == 0 \in 0..MaxStatements
BY SizesAssumption

\* What a run that is over looks like.
LEMMA OverIs ==
    ASSUME RunsInv, NEW r \in Run, NEW told \in {"done", "error", "stopped", "rolled back"}, Over(r, told)
    PROVE  /\ run' \in [Run -> RunState]
           /\ \A q \in Run : q # r => run'[q] = run[q]
           /\ run'[r].at = "over" /\ ~run'[r].hold /\ run'[r].told = told
           /\ run'[r].tab = run[r].tab /\ run'[r].manual = run[r].manual /\ run'[r].size = run[r].size
<1>1. run[r] \in RunState
  BY DEF RunsInv, TypeOK
<1>2. OverRun(r, told) \in RunState
  <2>1. run[r].tab \in Tab /\ run[r].manual \in BOOLEAN /\ run[r].size \in 0..MaxStatements
    BY <1>1 DEF RunState
  <2> QED BY <2>1, NoneLeft DEF RunState, OverRun
<1>3. run' = [run EXCEPT ![r] = OverRun(r, told)] /\ run \in [Run -> RunState]
  BY DEF Over, RunsInv, TypeOK
<1>4. run' \in [Run -> RunState] /\ run'[r] = OverRun(r, told) /\ \A q \in Run : q # r => run'[q] = run[q]
  BY <1>2, <1>3
<1>5. /\ OverRun(r, told).at = "over" /\ OverRun(r, told).hold = FALSE /\ OverRun(r, told).told = told
      /\ OverRun(r, told).tab = run[r].tab /\ OverRun(r, told).manual = run[r].manual
      /\ OverRun(r, told).size = run[r].size
  BY DEF OverRun
<1> QED BY <1>4, <1>5

LEMMA PendingIsOfRuns ==
    ASSUME RunsInv, NEW t \in Tab, NEW w \in tx[t].pending
    PROVE  w[1] \in Run
BY DEF RunsInv, TypeOK, TxState

LEMMA OverMoves ==
    ASSUME RunsInv, NEW r \in Run, NEW told \in {"error", "stopped", "rolled back"}, Active(r),
           Over(r, told), Dropped(r) => told # "error", UNCHANGED <<tx, kept>>
    PROVE  Moves(r)
BY OverIs DEF Moves, Turns, Claims, Active, Dropped

LEMMA WritesNothing ==
    ASSUME RunsInv, NEW r \in Run, UNCHANGED <<tx, kept>>
    PROVE  Writes(r)
BY DEF RunsInv, TypeOK, Writes

LEMMA TurnsOn ==
    ASSUME RunsInv, NEW r \in Run, Turns(r), Writes(r)
    PROVE  (InTurn /\ Manual /\ OwnPending /\ Accounted)'
<1> USE DEF RunsInv
<1>1. \A q \in Run : /\ run'[q].tab = run[q].tab /\ run'[q].manual = run[q].manual
                     /\ (run'[q].at = "none") = (run[q].at = "none")
                     /\ run[q].at = "over" => run'[q].at = "over"
                     /\ Active(q)' => Active(q)
  BY DEF Turns, Active
<1>t. \A q \in Run : run[q].tab \in Tab
  BY DEF TypeOK, RunState
<1>2. InTurn'
  BY <1>1 DEF InTurn
<1>3. Manual'
  BY <1>1, <1>t DEF Manual, Writes
<1>4. OwnPending'
  <2>1. ASSUME NEW q \in Run, run'[q].manual, Active(q)'
        PROVE  tx'[run'[q].tab].at \notin {"commit", "committed"}
    BY <2>1, <1>1, <1>t DEF OwnPending, Writes
  <2>2. ASSUME NEW u \in Tab, NEW w \in tx'[u].pending
        PROVE  run'[w[1]].tab = u /\ run'[w[1]].at # "none"
    <3>1. CASE w \in tx[u].pending
      BY <3>1, <1>1, PendingIsOfRuns DEF OwnPending
    <3>2. CASE w[1] = r /\ run[r].tab = u
      BY <3>2, <1>1 DEF Turns, Active
    <3> QED BY <3>1, <3>2 DEF Writes
  <2>3. ASSUME NEW u \in Tab, tx'[u].at = "committed" PROVE tx'[u].pending = {}
    <3>1. tx[u].at = "committed" /\ tx[u].pending = {}
      BY <2>3 DEF Writes, OwnPending
    <3>2. ~(run[r].tab = u /\ run[r].manual)
      BY <3>1 DEF OwnPending, Turns
    <3> QED BY <3>1, <3>2 DEF Writes
  <2> QED BY <2>1, <2>2, <2>3 DEF OwnPending
<1>5. Accounted'
  <2> SUFFICES ASSUME NEW q \in Run, run'[q].manual, tx'[run'[q].tab].at \in {"open", "commit", "committed"},
                      Claims(q)'
               PROVE  Saved(q)' \/ \E p \in Run : LostBy(q, p)'
    BY DEF Accounted
  <2>1. /\ Claims(q)
        /\ \A n \in Done(q)' : n \in Done(q) \/ <<q, n>> \in (tx[run[q].tab].pending \cup kept)'
    BY DEF Turns, Claims, Done, Active, Dropped, Succeeded
  <2>2. Saved(q) \/ \E p \in Run : LostBy(q, p)
    BY <1>1, <1>t, <2>1 DEF Accounted, Writes
  <2>3. Saved(q) => Saved(q)'
    BY <1>1, <1>t, <2>1 DEF Saved, Writes
  <2>4. \A p \in Run : LostBy(q, p) => LostBy(q, p)'
    BY <1>1 DEF LostBy, Turns, Dropped, Held, Active
  <2> QED BY <2>2, <2>3, <2>4
<1> QED BY <1>2, <1>3, <1>4, <1>5

LEMMA MovesOn ==
    ASSUME RunsInv, NEW r \in Run, Moves(r)
    PROVE  (InTurn /\ Manual /\ OwnPending /\ Accounted)'
BY TurnsOn, WritesNothing DEF Moves

\* A run that is over is on no session.
LEMMA OverLeaves ==
    ASSUME RunsInv, NEW r \in Run, NEW told \in {"done", "error", "stopped", "rolled back"}, Active(r),
           Over(r, told), kill' \in [Run -> KillState], kill'[r].at # "kill",
           \A q \in Run : q # r /\ kill'[q].at = "kill" => kill[q].at = "kill"
    PROVE  (Held /\ Waits)' /\ run' \in [Run -> RunState]
<1>1. /\ run' \in [Run -> RunState] /\ \A q \in Run : q # r => run'[q] = run[q]
      /\ run'[r].at = "over" /\ ~run'[r].hold
  BY OverIs
<1>2. Held'
  BY <1>1 DEF RunsInv, Held, Killing
<1>3. Waits'
  BY <1>1 DEF RunsInv, Waits
<1> QED BY <1>1, <1>2, <1>3

\* The steps of a run's command before and after its statements.
LEMMA CommandMoves ==
    ASSUME RunsInv, NEW r \in Run,
           \/ ScriptRefused(r) \/ Register(r) \/ AcquireFails(r) \/ Acquire(r) \/ UnlessStopped(r) \/ Lock(r)
           \/ RunOn(r) \/ NextStatement(r) \/ Arrive(r) \/ EndStatement(r)
    PROVE  Moves(r) /\ (Held /\ Waits)' /\ UNCHANGED kill
<1> USE DEF RunsInv, Active
<1>k. kill \in [Run -> KillState]
  BY DEF TypeOK
<1>r. run \in [Run -> RunState]
  BY DEF TypeOK
<1>u. UNCHANGED kill
  BY DEF ScriptRefused, Register, AcquireFails, Acquire, UnlessStopped, Lock, RunOn, NextStatement, Arrive,
         EndStatement
<1>h. run[r].at \in {"call", "acquire", "start"} => ~Killing(r)
  BY DEF Held
<1>o. ASSUME NEW told \in {"error", "stopped", "rolled back"}, Over(r, told), Active(r), ~Killing(r),
             Dropped(r) => told # "error", UNCHANGED <<tx, kill, kept>>
      PROVE  Moves(r) /\ (Held /\ Waits)'
  BY <1>o, <1>k, OverMoves, OverLeaves DEF Killing
<1>1. CASE ScriptRefused(r) \/ AcquireFails(r) \/ UnlessStopped(r)
  BY <1>1, <1>h, <1>o DEF ScriptRefused, AcquireFails, UnlessStopped, Dropped
<1>2. ASSUME NEW at \in {"lock", "acquire", "start", "executing"}, run' = [run EXCEPT ![r].at = at],
             Active(r), run[r].at \notin {"ended", "over"}, UNCHANGED <<tx, kill, kept>>,
             at = "lock" => run[r].manual, at = "acquire" => ~run[r].manual,
             at = "executing" => run[r].left > 0, run[r].hold => at = "executing"
      PROVE  Moves(r) /\ (Held /\ Waits)'
  <2>1. /\ run' \in [Run -> RunState] /\ \A q \in Run : q # r => run'[q] = run[q]
        /\ run'[r].at = at /\ run'[r].hold = run[r].hold /\ run'[r].told = run[r].told
        /\ run'[r].tab = run[r].tab /\ run'[r].manual = run[r].manual /\ run'[r].size = run[r].size
        /\ run'[r].left = run[r].left
    BY <1>2 DEF TypeOK, RunState
  <2>2. Moves(r)
    BY <1>2, <2>1 DEF Moves, Turns, Claims, Done, Dropped
  <2>3. Held' /\ Waits'
    BY <1>2, <2>1 DEF Held, Waits, Killing
  <2> QED BY <2>2, <2>3
<1>3. CASE Register(r)
  <2>1. CASE run[r].manual /\ ~InMap(run[r].tab)
    BY <1>3, <2>1, <1>h, <1>o DEF Register, Dropped
  <2>2. CASE ~(run[r].manual /\ ~InMap(run[r].tab))
    BY <1>3, <2>2, <1>2 DEF Register, Held
  <2> QED BY <2>1, <2>2, <1>3 DEF Register
<1>4. CASE Acquire(r) \/ Lock(r) \/ Arrive(r)
  BY <1>4, <1>2 DEF Acquire, Lock, Arrive, Held, Waits
<1>5. CASE RunOn(r)
  <2>1. CASE Over(r, "stopped") \/ Over(r, "error")
    BY <1>5, <2>1, <1>h, <1>o DEF RunOn, Dropped
  <2>2. CASE run' = [run EXCEPT ![r].at = "between", ![r].hold = TRUE]
    <3> DEFINE next == [run[r] EXCEPT !.at = "between", !.hold = TRUE]
    <3>1. run[r] \in RunState
      BY <1>r
    <3>2. /\ next \in RunState /\ next.at = "between" /\ next.hold = TRUE
          /\ next.told = run[r].told /\ next.left = run[r].left
          /\ next.tab = run[r].tab /\ next.manual = run[r].manual /\ next.size = run[r].size
      BY <3>1 DEF RunState
    <3>3. run' = [run EXCEPT ![r] = next]
      BY <2>2
    <3> HIDE DEF next
    <3>4. run' \in [Run -> RunState] /\ run'[r] = next /\ \A q \in Run : q # r => run'[q] = run[q]
      BY <1>r, <3>2, <3>3, SetRun
    <3>5. Moves(r)
      BY <1>5, <3>2, <3>4 DEF RunOn, Moves, Turns, Claims, Done, Dropped
    <3>6. Held' /\ Waits'
      BY <1>5, <3>2, <3>4 DEF RunOn, Held, Waits, Killing
    <3> QED BY <3>5, <3>6, <1>u
  <2> QED BY <1>5, <2>1, <2>2 DEF RunOn
<1>6. CASE NextStatement(r)
  <2>1. CASE MayLeave(r) /\ Over(r, "stopped")
    BY <1>6, <2>1, <1>o DEF NextStatement, MayLeave, Dropped
  <2>2. CASE run[r].left > 0 /\ run' = [run EXCEPT ![r].at = "sent"]
    <3>1. /\ run' \in [Run -> RunState] /\ \A q \in Run : q # r => run'[q] = run[q]
          /\ run'[r].at = "sent" /\ run'[r].told = run[r].told /\ run'[r].left = run[r].left
          /\ run'[r].tab = run[r].tab /\ run'[r].manual = run[r].manual /\ run'[r].size = run[r].size
          /\ run'[r].hold = run[r].hold
      BY <2>2 DEF TypeOK, RunState
    <3>2. Moves(r)
      BY <1>6, <3>1 DEF NextStatement, Moves, Turns, Claims, Done, Dropped
    <3>3. Held' /\ Waits'
      BY <1>6, <2>2, <3>1 DEF NextStatement, Held, Waits, Killing
    <3> QED BY <3>2, <3>3, <1>u
  <2>3. CASE run[r].left = 0 /\ MayLeave(r) /\ Over(r, "done")
    <3>1. /\ run' \in [Run -> RunState] /\ \A q \in Run : q # r => run'[q] = run[q]
          /\ run'[r].at = "over" /\ run'[r].told = "done"
          /\ run'[r].tab = run[r].tab /\ run'[r].manual = run[r].manual /\ run'[r].size = run[r].size
      BY <2>3, OverIs
    <3>2. run[r].told = "nothing" /\ run[r].size \in 0..MaxStatements
      BY <1>6 DEF NextStatement, Held, TypeOK, RunState
    <3>3. Done(r)' \subseteq Done(r)
      BY <1>6, <2>3, <3>1, <3>2 DEF NextStatement, Done
    <3>4. Moves(r)
      BY <1>6, <3>1, <3>3 DEF NextStatement, Moves, Turns, Claims, Dropped
    <3>5. Held' /\ Waits'
      BY <1>6, <2>3, <1>k, OverLeaves DEF NextStatement, MayLeave, Killing
    <3> QED BY <1>6, <3>4, <3>5 DEF NextStatement
  <2> QED BY <1>6, <2>1, <2>2, <2>3 DEF NextStatement
<1>7. CASE EndStatement(r)
  <2>1. CASE MayLeave(r) /\ Over(r, "stopped")
    BY <1>7, <2>1, <1>o DEF EndStatement, MayLeave
  <2>2. CASE ~Succeeded(r) /\ MayLeave(r) /\ Over(r, FailureTold(r))
    BY <1>7, <2>2, <1>o DEF EndStatement, MayLeave, Dropped, FailureTold
  <2>3. CASE Succeeded(r) /\ run' = [run EXCEPT ![r].at = "between", ![r].left = @ - 1, ![r].outcome = "none"]
    <3>1. run[r].left > 0 /\ run[r].left \in 0..MaxStatements
      BY <1>7 DEF EndStatement, Waits, TypeOK, RunState
    <3>2. run[r].left - 1 \in 0..MaxStatements
      BY <3>1, SizesAssumption
    <3> DEFINE next == [run[r] EXCEPT !.at = "between", !.left = @ - 1, !.outcome = "none"]
    <3>3. run[r] \in RunState
      BY <1>r
    <3>4. /\ next \in RunState /\ next.at = "between" /\ next.hold = run[r].hold
          /\ next.told = run[r].told /\ next.left = run[r].left - 1
          /\ next.tab = run[r].tab /\ next.manual = run[r].manual /\ next.size = run[r].size
      BY <3>2, <3>3 DEF RunState
    <3>5. run' = [run EXCEPT ![r] = next]
      BY <2>3
    <3> HIDE DEF next
    <3>6. run' \in [Run -> RunState] /\ run'[r] = next /\ \A q \in Run : q # r => run'[q] = run[q]
      BY <1>r, <3>4, <3>5, SetRun
    <3>7. Done(r)' \subseteq Done(r)
      BY <1>7, <2>3, <3>1, <3>4, <3>6 DEF EndStatement, Done, Held
    <3>8. Moves(r)
      BY <1>7, <2>3, <3>4, <3>6, <3>7 DEF EndStatement, Moves, Turns, Claims, Dropped, Succeeded
    <3>9. Held' /\ Waits'
      BY <1>7, <3>4, <3>6 DEF EndStatement, Held, Waits, Killing
    <3> QED BY <3>8, <3>9, <1>u
  <2> QED BY <1>7, <2>1, <2>2, <2>3 DEF EndStatement
<1> QED BY <1>1, <1>3, <1>4, <1>5, <1>6, <1>7

\* A stop notes its reason, and goes on to a KILL unless another did.
LEMMA StopMoves ==
    ASSUME RunsInv, NEW r \in Run, NEW why \in {"cancelled", "timed out"}, Active(r), Stop(r, why)
    PROVE  Moves(r) /\ (Held /\ Waits)' /\ kill' \in [Run -> KillState]
<1> USE DEF RunsInv
<1>1. run \in [Run -> RunState] /\ kill \in [Run -> KillState]
  BY DEF TypeOK
<1> DEFINE next == [run[r] EXCEPT !.stop = why]
<1>2. run[r] \in RunState
  BY <1>1
<1>3. /\ next \in RunState /\ next.at = run[r].at /\ next.hold = run[r].hold /\ next.outcome = run[r].outcome
      /\ next.told = run[r].told /\ next.left = run[r].left
      /\ next.tab = run[r].tab /\ next.manual = run[r].manual /\ next.size = run[r].size
  BY <1>2 DEF RunState
<1>4. run' = [run EXCEPT ![r] = next] /\ UNCHANGED <<tx, kept>>
  BY DEF Stop
<1> HIDE DEF next
<1>5. run' \in [Run -> RunState] /\ run'[r] = next /\ \A q \in Run : q # r => run'[q] = run[q]
  BY <1>1, <1>3, <1>4, SetRun
<1>6. kill' \in [Run -> KillState] /\ \A q \in Run : kill'[q].at = "kill" => kill[q].at = "kill"
  <2> DEFINE sent == [kill[r] EXCEPT !.at = "stop", !.by = why]
  <2>1. sent \in KillState /\ sent.at = "stop"
    BY <1>1 DEF KillState
  <2>2. kill' = [kill EXCEPT ![r] = sent] \/ kill' = kill
    BY DEF Stop
  <2> HIDE DEF sent
  <2> QED BY <1>1, <2>1, <2>2
<1>7. Moves(r)
  BY <1>3, <1>4, <1>5 DEF Moves, Turns, Claims, Done, Dropped, Active, Succeeded
<1>8. Held'
  <2>1. \A q \in Run : /\ run'[q].hold = run[q].hold /\ run'[q].at = run[q].at
                       /\ run'[q].told = run[q].told
    BY <1>3, <1>5
  <2> QED BY <2>1, <1>6 DEF Held, Killing
<1>9. Waits'
  BY <1>3, <1>5 DEF Waits
<1> QED BY <1>6, <1>7, <1>8, <1>9

LEMMA StopInv ==
    ASSUME RunsInv, NEW r \in Run, Cancel(r) \/ TimeLimit(r)
    PROVE  RunsInv'
<1>1. Active(r)
  BY DEF Cancel, TimeLimit, Findable, OnSession, Active
<1>2. Moves(r) /\ (Held /\ Waits)' /\ kill' \in [Run -> KillState]
  BY <1>1, StopMoves DEF Cancel, TimeLimit
<1>3. TypeOK'
  BY <1>2 DEF TypeOK, Moves, Turns, RunsInv
<1> QED BY <1>2, <1>3, MovesOn DEF RunsInv

LEMMA CommandInv ==
    ASSUME RunsInv, NEW r \in Run,
           \/ ScriptRefused(r) \/ Register(r) \/ AcquireFails(r) \/ Acquire(r) \/ UnlessStopped(r) \/ Lock(r)
           \/ RunOn(r) \/ NextStatement(r) \/ Arrive(r) \/ EndStatement(r)
    PROVE  RunsInv'
<1>1. Moves(r) /\ (Held /\ Waits)' /\ UNCHANGED kill
  BY CommandMoves
<1>2. TypeOK'
  BY <1>1 DEF TypeOK, Moves, Turns, RunsInv
<1> QED BY <1>1, <1>2, MovesOn DEF RunsInv

LEMMA StartInv ==
    ASSUME RunsInv, NEW t \in Tab, NEW r \in Run, StartRun(t, r)
    PROVE  RunsInv'
<1> USE DEF RunsInv, StartRun
<1>1. run \in [Run -> RunState] /\ run[r].at = "none" /\ UNCHANGED <<tx, kill, kept>>
  BY DEF TypeOK
<1>2. PICK n \in 1..MaxStatements :
          run' = [run EXCEPT ![r].at = "call", ![r].tab = t, ![r].manual = InMap(t), ![r].size = n, ![r].left = n]
  OBVIOUS
<1> DEFINE next == [run[r] EXCEPT !.at = "call", !.tab = t, !.manual = InMap(t), !.size = n, !.left = n]
<1>3. run[r] \in RunState /\ n \in 0..MaxStatements /\ n \in Nat /\ InMap(t) \in BOOLEAN
  BY <1>1, SizesAssumption DEF InMap
<1>4. /\ next \in RunState /\ next.at = "call" /\ next.tab = t /\ next.manual = InMap(t) /\ next.size = n
      /\ next.left = n /\ next.hold = run[r].hold /\ next.told = run[r].told
  BY <1>3 DEF RunState
<1>5. run' = [run EXCEPT ![r] = next]
  BY <1>2
<1> HIDE DEF next
<1>6. run' \in [Run -> RunState] /\ run'[r] = next /\ \A q \in Run : q # r => run'[q] = run[q]
  BY <1>1, <1>4, <1>5, SetRun
<1>7. TypeOK'
  BY <1>1, <1>6 DEF TypeOK
<1>8. Held' /\ Waits'
  <2>1. ~run[r].hold /\ run[r].told = "nothing"
    BY <1>1 DEF Held
  <2> QED BY <2>1, <1>1, <1>4, <1>6 DEF Held, Waits, Killing
<1>9. InTurn'
  <2> SUFFICES ASSUME NEW p \in Run, NEW q \in Run, p < q, run'[q].at # "none"
               PROVE  run'[p].at # "none" /\ (run'[p].tab = run'[q].tab => run'[p].at = "over")
    BY DEF InTurn
  <2>1. CASE q = r
    <3>1. p \in 1..(r - 1) /\ p # r
      BY <2>1 DEF Run
    <3>2. run[p].at # "none" /\ (run[p].tab = t => run[p].at = "over")
      BY <3>1 DEF Idle
    <3> QED BY <2>1, <3>1, <3>2, <1>4, <1>6
  <2>2. CASE q # r
    BY <2>2, <1>1, <1>6 DEF InTurn
  <2> QED BY <2>1, <2>2
<1>a. run'[r].manual => tx[t].at = "open"
  BY <1>4, <1>6 DEF InMap
<1>b. run'[r].tab = t /\ \A q \in Run : q # r => run'[q] = run[q]
  BY <1>4, <1>6
<1>10. Manual'
  <2>1. ASSUME NEW q \in Run, run'[q].manual PROVE tx[run'[q].tab].at # "none"
    BY <2>1, <1>a, <1>b DEF Manual
  <2> QED BY <1>1, <2>1 DEF Manual
<1>11. OwnPending'
  <2>1. ASSUME NEW q \in Run, run'[q].manual, Active(q)'
        PROVE  tx[run'[q].tab].at \notin {"commit", "committed"}
    BY <2>1, <1>a, <1>b DEF OwnPending, Active
  <2>2. ASSUME NEW u \in Tab, NEW w \in tx[u].pending
        PROVE  run'[w[1]].tab = u /\ run'[w[1]].at # "none"
    BY <1>1, <1>b, PendingIsOfRuns DEF OwnPending
  <2> QED BY <1>1, <2>1, <2>2 DEF OwnPending
<1>12. Accounted'
  <2> SUFFICES ASSUME NEW q \in Run, run'[q].manual, tx'[run'[q].tab].at \in {"open", "commit", "committed"},
                      Claims(q)'
               PROVE  Saved(q)' \/ \E p \in Run : LostBy(q, p)'
    BY DEF Accounted
  <2>1. CASE q = r
    <3>1. Done(q)' = {}
      BY <2>1, <1>1, <1>3, <1>4, <1>6 DEF Done, Held
    <3> QED BY <3>1 DEF Saved
  <2>2. CASE q # r
    <3>1. Saved(q) \/ \E p \in Run : LostBy(q, p)
      BY <2>2, <1>1, <1>6 DEF Accounted, Claims, Active, Dropped
    <3>2. Saved(q) => Saved(q)'
      BY <2>2, <1>1, <1>6 DEF Saved, Done, Succeeded
    <3>3. \A p \in Run : LostBy(q, p) => p # r
      BY <1>1 DEF LostBy, Held, Dropped
    <3>4. \A p \in Run : LostBy(q, p) => LostBy(q, p)'
      BY <2>2, <3>3, <1>6 DEF LostBy, Dropped
    <3> QED BY <3>1, <3>2, <3>4
  <2> QED BY <2>1, <2>2
<1> QED BY <1>7, <1>8, <1>9, <1>10, <1>11, <1>12

-----------------------------------------------------------------------------
(* A statement ends: by itself, or by a KILL. *)

\* What a run looks like whose statement has ended.
LEMMA EndedIs ==
    ASSUME RunsInv, NEW r \in Run, NEW outcome \in {"done", "committed", "error", "deadlock"},
           run[r].at = "executing",
           run' = [run EXCEPT ![r] = [run[r] EXCEPT !.at = "ended", !.outcome = outcome]],
           kill' \in [Run -> KillState], \A q \in Run : kill'[q].at = "kill" => kill[q].at = "kill"
    PROVE  /\ run' \in [Run -> RunState]
           /\ \A q \in Run : q # r => run'[q] = run[q]
           /\ run'[r].at = "ended" /\ run'[r].outcome = outcome /\ run'[r].left = run[r].left
           /\ run'[r].tab = run[r].tab /\ run'[r].manual = run[r].manual /\ run'[r].size = run[r].size
           /\ run'[r].told = run[r].told
           /\ (Held /\ Waits)'
<1> USE DEF RunsInv
<1> DEFINE next == [run[r] EXCEPT !.at = "ended", !.outcome = outcome]
<1>1. run \in [Run -> RunState] /\ run[r] \in RunState
  BY DEF TypeOK
<1>2. /\ next \in RunState /\ next.at = "ended" /\ next.hold = run[r].hold /\ next.outcome = outcome
      /\ next.told = run[r].told /\ next.left = run[r].left
      /\ next.tab = run[r].tab /\ next.manual = run[r].manual /\ next.size = run[r].size
  BY <1>1 DEF RunState
<1>e. run' = [run EXCEPT ![r] = next]
  OBVIOUS
<1> HIDE DEF next
<1>3. run' \in [Run -> RunState] /\ run'[r] = next /\ \A q \in Run : q # r => run'[q] = run[q]
  BY <1>1, <1>2, <1>e, SetRun
<1>4. \A q \in Run : /\ run'[q].hold = run[q].hold /\ run'[q].told = run[q].told
                     /\ run'[q].manual = run[q].manual /\ run'[q].left = run[q].left
  BY <1>2, <1>3
<1>5. run'[r].at = "ended" /\ \A q \in Run : q # r => run'[q].at = run[q].at
  BY <1>2, <1>3
<1>6. Held'
  BY <1>4, <1>5 DEF Held, Killing
<1>7. Waits'
  BY <1>4, <1>5 DEF Waits
<1> QED BY <1>2, <1>3, <1>6, <1>7

\* Where a statement that executes writes.
LEMMA Executing ==
    ASSUME RunsInv, NEW r \in Run, run[r].at \in {"sent", "executing"}
    PROVE  /\ run[r].tab \in Tab /\ run[r].left \in 1..MaxStatements /\ Active(r)
           /\ run[r].told = "nothing"
           /\ run[r].manual => /\ tx[run[r].tab].server = "manual"
                               /\ tx[run[r].tab].at \notin {"commit", "committed"}
<1> USE DEF RunsInv
<1>1. run[r].tab \in Tab /\ run[r].left \in 0..MaxStatements /\ run[r].left > 0
  BY DEF TypeOK, RunState, Waits
<1>2. run[r].left \in 1..MaxStatements
  BY <1>1, SizesAssumption
<1>3. Active(r) /\ run[r].told = "nothing"
  BY DEF Active, Held
<1>4. run[r].manual => tx[run[r].tab].at \notin {"none", "commit", "committed"}
  BY <1>3 DEF Manual, OwnPending
<1> QED BY <1>1, <1>2, <1>3, <1>4 DEF Manual

\* The write is pending in the run's transaction, or kept if it has none.
LEMMA WriteIsPut ==
    ASSUME RunsInv, NEW r \in Run, run[r].at \in {"sent", "executing"},
           LET t == run[r].tab  w == <<r, run[r].left>> IN
               IF run[r].manual /\ tx[t].server # "autocommit"
               THEN tx' = [tx EXCEPT ![t].pending = @ \cup {w}] /\ UNCHANGED kept
               ELSE kept' = kept \cup {w} /\ UNCHANGED tx
    PROVE  Writes(r) /\ <<r, run[r].left>> \in tx'[run[r].tab].pending \cup kept'
<1> DEFINE w == <<r, run[r].left>>
<1>1. w \in Run \X (1..MaxStatements) /\ w[1] = r /\ run[r].tab \in Tab
  BY Executing
<1>2. tx \in [Tab -> TxState] /\ kept \subseteq Run \X (1..MaxStatements)
  BY DEF RunsInv, TypeOK
<1>3. CASE run[r].manual
  <2>1. tx' = [tx EXCEPT ![run[r].tab].pending = @ \cup {w}] /\ UNCHANGED kept
    BY <1>3, Executing
  <2> HIDE DEF w
  <2> DEFINE next == [tx[run[r].tab] EXCEPT !.pending = @ \cup {w}]
  <2>a. tx[run[r].tab] \in TxState /\ tx[run[r].tab].pending \cup {w} \in SUBSET (Run \X (1..MaxStatements))
    BY <1>1, <1>2 DEF TxState
  <2>b. /\ next \in TxState /\ next.at = tx[run[r].tab].at /\ next.server = tx[run[r].tab].server
        /\ next.pending = tx[run[r].tab].pending \cup {w}
    BY <2>a DEF TxState
  <2>c. tx' = [tx EXCEPT ![run[r].tab] = next]
    BY <2>1
  <2> HIDE DEF next
  <2>2. tx' \in [Tab -> TxState]
    BY <1>1, <1>2, <2>b, <2>c
  <2>3. \A t \in Tab : /\ tx'[t].at = tx[t].at /\ tx'[t].server = tx[t].server
                       /\ tx'[t].pending = IF t = run[r].tab THEN tx[t].pending \cup {w} ELSE tx[t].pending
    BY <1>1, <1>2, <2>b, <2>c
  <2>4. Writes(r) /\ w \in tx'[run[r].tab].pending \cup kept'
    <3>1. \A t \in Tab : /\ tx[t].pending \cup kept \subseteq tx'[t].pending \cup kept'
                         /\ \A v \in tx'[t].pending : v \in tx[t].pending \/ (v[1] = r /\ run[r].tab = t)
      BY <1>1, <2>1, <2>3
    <3>2. kept' \subseteq Run \X (1..MaxStatements)
      BY <1>2, <2>1
    <3>3. Writes(r)
      BY <1>3, <2>2, <2>3, <3>1, <3>2 DEF Writes
    <3> QED BY <3>3, <1>1, <2>3
  <2> QED BY <2>4 DEF w
<1>4. CASE ~run[r].manual
  <2>1. kept' = kept \cup {w} /\ UNCHANGED tx
    BY <1>4
  <2> HIDE DEF w
  <2>2. Writes(r) /\ w \in tx'[run[r].tab].pending \cup kept'
    BY <1>1, <1>2, <2>1 DEF Writes
  <2> QED BY <2>2 DEF w
<1> QED BY <1>3, <1>4

LEMMA StatementDone ==
    ASSUME RunsInv, NEW r \in Run, run[r].at = "executing", NEW outcome \in {"done", "committed"},
           EndsAs(r, outcome), UNCHANGED kill, Writes(r),
           <<r, run[r].left>> \in tx'[run[r].tab].pending \cup kept'
    PROVE  RunsInv'
<1>1. run' = [run EXCEPT ![r] = [run[r] EXCEPT !.at = "ended", !.outcome = outcome]]
  BY DEF EndsAs
<1>2. /\ run' \in [Run -> RunState] /\ (Held /\ Waits)'
      /\ \A q \in Run : q # r => run'[q] = run[q]
      /\ run'[r].at = "ended" /\ run'[r].outcome = outcome /\ run'[r].left = run[r].left
      /\ run'[r].tab = run[r].tab /\ run'[r].manual = run[r].manual /\ run'[r].size = run[r].size
      /\ run'[r].told = run[r].told
  BY <1>1, EndedIs DEF RunsInv, TypeOK
<1>3. Active(r) /\ run[r].told = "nothing" /\ run[r].left \in 1..MaxStatements /\ run[r].size \in 0..MaxStatements
  BY Executing DEF RunsInv, TypeOK, RunState
<1>4. \A n \in Done(r)' : n \in Done(r) \/ n = run[r].left
  BY <1>2, <1>3 DEF Done, Succeeded
<1>5. Turns(r)
  BY <1>2, <1>3, <1>4 DEF Turns, Claims, Dropped
<1>6. TypeOK'
  BY <1>2 DEF RunsInv, TypeOK, Writes
<1> QED BY <1>2, <1>5, <1>6, TurnsOn DEF RunsInv

LEMMA StatementFails ==
    ASSUME RunsInv, NEW r \in Run, run[r].at = "executing",
           run' = [run EXCEPT ![r] = [run[r] EXCEPT !.at = "ended", !.outcome = "error"]],
           kill' \in [Run -> KillState], \A q \in Run : kill'[q].at = "kill" => kill[q].at = "kill",
           UNCHANGED <<tx, kept>>
    PROVE  RunsInv'
<1>1. /\ run' \in [Run -> RunState] /\ (Held /\ Waits)'
      /\ \A q \in Run : q # r => run'[q] = run[q]
      /\ run'[r].at = "ended" /\ run'[r].outcome = "error" /\ run'[r].left = run[r].left
      /\ run'[r].tab = run[r].tab /\ run'[r].manual = run[r].manual /\ run'[r].size = run[r].size
      /\ run'[r].told = run[r].told
  BY EndedIs
<1>2. Active(r) /\ run[r].told = "nothing"
  BY Executing
<1>3. Moves(r)
  BY <1>1, <1>2 DEF Moves, Turns, Claims, Dropped, Done, Succeeded
<1>4. TypeOK'
  BY <1>1 DEF RunsInv, TypeOK
<1> QED BY <1>1, <1>3, <1>4, MovesOn DEF RunsInv

\* A deadlock takes back what the transaction did, of its run and of those before it.
LEMMA DeadlockInv ==
    ASSUME RunsInv, NEW r \in Run, run[r].at = "executing", run[r].manual, EndsAs(r, "deadlock"),
           tx' = [tx EXCEPT ![run[r].tab] = [tx[run[r].tab] EXCEPT !.pending = {}]], UNCHANGED <<kill, kept>>
    PROVE  RunsInv'
<1> USE DEF RunsInv
<1>1. run' = [run EXCEPT ![r] = [run[r] EXCEPT !.at = "ended", !.outcome = "deadlock"]]
  BY DEF EndsAs
<1>2. /\ run' \in [Run -> RunState] /\ (Held /\ Waits)'
      /\ \A q \in Run : q # r => run'[q] = run[q]
      /\ run'[r].at = "ended" /\ run'[r].outcome = "deadlock" /\ run'[r].left = run[r].left
      /\ run'[r].tab = run[r].tab /\ run'[r].manual = run[r].manual /\ run'[r].size = run[r].size
      /\ run'[r].told = run[r].told
  BY <1>1, EndedIs DEF TypeOK
<1>3. /\ Active(r) /\ run[r].told = "nothing" /\ run[r].tab \in Tab
      /\ tx[run[r].tab].at \notin {"commit", "committed"}
  BY Executing
<1>4. tx \in [Tab -> TxState] /\ tx[run[r].tab] \in TxState
  BY <1>3 DEF TypeOK
<1> DEFINE next == [tx[run[r].tab] EXCEPT !.pending = {}]
<1>5. /\ next \in TxState /\ next.pending = {} /\ next.at = tx[run[r].tab].at
      /\ next.server = tx[run[r].tab].server
  BY <1>4 DEF TxState
<1>6. tx' = [tx EXCEPT ![run[r].tab] = next]
  OBVIOUS
<1> HIDE DEF next
<1>7. tx' \in [Tab -> TxState] /\ tx'[run[r].tab] = next /\ \A t \in Tab : t # run[r].tab => tx'[t] = tx[t]
  BY <1>3, <1>4, <1>5, <1>6
<1>8. TypeOK'
  BY <1>2, <1>7 DEF TypeOK
<1>9. \A q \in Run : /\ run'[q].tab = run[q].tab /\ run'[q].manual = run[q].manual
                     /\ (run'[q].at = "none") = (run[q].at = "none")
                     /\ run[q].at = "over" => run'[q].at = "over"
                     /\ Active(q)' => Active(q)
  BY <1>2, <1>3 DEF Active
<1>10. InTurn'
  BY <1>9 DEF InTurn
<1>11. \A t \in Tab : /\ tx'[t].at = tx[t].at /\ tx'[t].server = tx[t].server
                      /\ tx'[t].pending \subseteq tx[t].pending
  BY <1>5, <1>7
<1>t. \A q \in Run : run[q].tab \in Tab
  BY DEF TypeOK, RunState
<1>12. Manual'
  BY <1>9, <1>11, <1>t DEF Manual
<1>13. OwnPending'
  BY <1>9, <1>11, <1>t, PendingIsOfRuns DEF OwnPending
<1>14. Accounted'
  <2> SUFFICES ASSUME NEW q \in Run, run'[q].manual, tx'[run'[q].tab].at \in {"open", "commit", "committed"},
                      Claims(q)'
               PROVE  Saved(q)' \/ \E p \in Run : LostBy(q, p)'
    BY DEF Accounted
  <2>1. q # r
    BY <1>2, <1>3 DEF Claims, Dropped
  <2>2. Claims(q) /\ Done(q)' = Done(q)
    BY <1>2, <2>1 DEF Claims, Active, Dropped, Done, Succeeded
  <2>3. CASE run[q].tab = run[r].tab
    <3>1. q < r
      BY <2>1, <2>2, <2>3, <1>3 DEF InTurn, Run, Active, Claims, Held
    <3>2. LostBy(q, r)'
      BY <3>1, <2>3, <1>2, <1>9 DEF LostBy, Dropped
    <3> QED BY <3>2
  <2>4. CASE run[q].tab # run[r].tab
    <3>1. Saved(q) \/ \E p \in Run : LostBy(q, p)
      BY <1>9, <1>11, <1>t, <2>2 DEF Accounted
    <3>2. Saved(q) => Saved(q)'
      BY <2>4, <2>2, <1>7, <1>9, <1>t DEF Saved
    <3>3. \A p \in Run : LostBy(q, p) => LostBy(q, p)'
      BY <1>2, <1>3, <1>9 DEF LostBy, Dropped
    <3> QED BY <3>1, <3>2, <3>3
  <2> QED BY <2>3, <2>4
<1> QED BY <1>2, <1>8, <1>10, <1>12, <1>13, <1>14

\* What ends a transaction on the server leaves its session in Manual mode.
LEMMA PendingGone ==
    ASSUME tx \in [Tab -> TxState], NEW t \in Tab,
           tx' = [tx EXCEPT ![t].pending = {}, ![t].server = tx[t].server]
    PROVE  tx' = [tx EXCEPT ![t] = [tx[t] EXCEPT !.pending = {}]]
<1> DEFINE next == [tx[t] EXCEPT !.pending = {}]
<1>1. next \in TxState /\ next.server = tx[t].server
  BY DEF TxState
<1>2. [next EXCEPT !.server = tx[t].server] = next
  BY <1>1 DEF TxState
<1>3. tx' = [[tx EXCEPT ![t] = next] EXCEPT ![t] = [@ EXCEPT !.server = tx[t].server]]
  OBVIOUS
<1> HIDE DEF next
<1>4. [tx EXCEPT ![t] = next][t] = next
  OBVIOUS
<1>5. tx' = [[tx EXCEPT ![t] = next] EXCEPT ![t] = next]
  BY <1>2, <1>3, <1>4
<1>6. tx' = [tx EXCEPT ![t] = next]
  BY <1>5
<1> QED BY <1>6 DEF next

LEMMA ExecuteInv ==
    ASSUME RunsInv, NEW r \in Run, Execute(r)
    PROVE  RunsInv'
<1> DEFINE t == run[r].tab
           w == <<r, run[r].left>>
           waits == run[r].manual /\ tx[t].server # "autocommit"
<1>1. /\ run[r].at = "executing" /\ UNCHANGED kill
      /\ t \in Tab /\ tx \in [Tab -> TxState] /\ kill \in [Run -> KillState]
      /\ waits => run[r].manual /\ tx[t].server = "manual"
  BY Executing DEF Execute, RunsInv, TypeOK
<1>2. CASE /\ EndsAs(r, "done")
           /\ IF waits THEN tx' = [tx EXCEPT ![t].pending = @ \cup {w}] /\ UNCHANGED kept
                       ELSE kept' = kept \cup {w} /\ UNCHANGED tx
  BY <1>1, <1>2, WriteIsPut, StatementDone
<1>3. CASE EndsAs(r, "error") /\ UNCHANGED <<tx, kept>>
  BY <1>1, <1>3, StatementFails DEF EndsAs
<1>4. CASE /\ waits /\ EndsAs(r, "deadlock")
           /\ tx' = [tx EXCEPT ![t].pending = {}, ![t].server = tx[t].server]
           /\ UNCHANGED kept
  <2>1. tx' = [tx EXCEPT ![t] = [tx[t] EXCEPT !.pending = {}]]
    BY <1>1, <1>4, PendingGone
  <2> QED BY <1>1, <1>4, <2>1, DeadlockInv
<1>5. CASE /\ waits /\ EndsAs(r, "committed")
           /\ kept' = kept \cup tx[t].pending \cup {w}
           /\ tx' = [tx EXCEPT ![t].pending = {}, ![t].server = tx[t].server]
  <2> DEFINE next == [tx[t] EXCEPT !.pending = {}]
  <2>1. tx' = [tx EXCEPT ![t] = next]
    BY <1>1, <1>5, PendingGone
  <2>2. next \in TxState /\ next.pending = {} /\ next.at = tx[t].at /\ next.server = tx[t].server
    BY <1>1 DEF TxState
  <2>3. w \in Run \X (1..MaxStatements) /\ kept \subseteq Run \X (1..MaxStatements)
        /\ tx[t].pending \subseteq Run \X (1..MaxStatements)
    BY <1>1, Executing DEF RunsInv, TypeOK, TxState
  <2>4. kept' = kept \cup tx[t].pending \cup {w}
    BY <1>5
  <2> HIDE DEF next, w
  <2>5. tx' \in [Tab -> TxState] /\ tx'[t] = next /\ \A u \in Tab : u # t => tx'[u] = tx[u]
    BY <1>1, <2>1, <2>2
  <2>6. \A u \in Tab : /\ tx'[u].at = tx[u].at /\ tx'[u].server = tx[u].server
                       /\ tx[u].pending \cup kept \subseteq tx'[u].pending \cup kept'
                       /\ tx'[u].pending \subseteq tx[u].pending
    BY <2>2, <2>4, <2>5
  <2>7. kept' \subseteq Run \X (1..MaxStatements)
    BY <2>3, <2>4
  <2>8. Writes(r) /\ w \in tx'[t].pending \cup kept'
    BY <2>4, <2>5, <2>6, <2>7 DEF Writes
  <2> QED BY <1>1, <1>5, <2>8, StatementDone DEF w
<1>6. waits => tx[t].server # "transaction"
  BY <1>1
<1> QED BY <1>2, <1>3, <1>4, <1>5, <1>6 DEF Execute

-----------------------------------------------------------------------------
(* A KILL. *)

\* The stop of a run goes on, and nothing else changes.
LEMMA OnlyKillInv ==
    ASSUME RunsInv, UNCHANGED <<run, tx, kept>>, kill' \in [Run -> KillState],
           \A q \in Run : Killing(q)' => run[q].hold
    PROVE  RunsInv'
<1> USE DEF RunsInv
<1>1. (TypeOK /\ Held /\ Waits)'
  BY DEF TypeOK, Held, Waits, Killing
<1>2. (InTurn /\ Manual /\ OwnPending)'
  BY DEF InTurn, Manual, OwnPending, Active
<1>3. \A r, q \in Run : Claims(r)' = Claims(r) /\ Saved(r)' = Saved(r) /\ LostBy(r, q)' = LostBy(r, q)
  BY DEF Claims, Saved, Done, Succeeded, LostBy, Active, Dropped
<1>4. Accounted'
  BY <1>3 DEF Accounted
<1> QED BY <1>1, <1>2, <1>4

\* On the session a KILL goes to no other run executes: its run is still there, and the
\* others of the tab have ended or not begun.
LEMMA KillFindsItsOwn ==
    ASSUME RunsInv, NEW r \in Run, Killing(r), NEW q \in Run, q # r, run[q].at = "executing"
    PROVE  ~SameSession(r, q)
<1>1. Active(r) /\ Active(q)
  BY DEF RunsInv, Held, Active
<1>2. r < q \/ q < r
  BY DEF Run
<1>3. run[r].tab # run[q].tab
  BY <1>1, <1>2 DEF RunsInv, InTurn, Active
<1> QED BY <1>3 DEF SameSession

LEMMA KillInv ==
    ASSUME RunsInv, NEW r \in Run, Kill(r)
    PROVE  RunsInv'
<1> USE DEF RunsInv
<1>1. /\ kill \in [Run -> KillState] /\ NoKill \in KillState /\ NoKill.at = "none"
      /\ kill' = [kill EXCEPT ![r] = NoKill] /\ UNCHANGED <<tx, kept>> /\ Killing(r)
      /\ run \in [Run -> RunState]
  BY DEF TypeOK, KillState, NoKill, Kill
<1>2. kill' \in [Run -> KillState] /\ \A q \in Run : kill'[q].at = "kill" => kill[q].at = "kill"
  BY <1>1
<1> DEFINE next == [run[r] EXCEPT !.at = "ended", !.outcome = "error"]
<1>3. CASE run[r].at = "executing"
  <2>1. run' = [run EXCEPT ![r] = next]
    <3>1. run' = [q \in Run |-> IF q = r THEN next ELSE run[q]]
      BY <1>3, <1>1, KillFindsItsOwn DEF Kill, SameSession
    <3> HIDE DEF next
    <3> QED BY <3>1, <1>1
  <2> QED BY <1>1, <1>2, <1>3, <2>1, StatementFails
<1>4. CASE run[r].at # "executing"
  <2>1. run' = [q \in Run |-> run[q]]
    BY <1>4, <1>1, KillFindsItsOwn DEF Kill, SameSession
  <2>2. UNCHANGED run
    BY <2>1, <1>1
  <2> QED BY <1>1, <1>2, <2>2, OnlyKillInv DEF Held, Killing
<1> QED BY <1>3, <1>4

LEMMA StopLocksInv ==
    ASSUME RunsInv, NEW r \in Run, StopLocks(r)
    PROVE  RunsInv'
<1>1. kill \in [Run -> KillState] /\ kill[r] \in KillState /\ NoKill \in KillState /\ NoKill.at = "none"
  BY DEF RunsInv, TypeOK, KillState, NoKill
<1> DEFINE next == IF run[r].hold THEN [kill[r] EXCEPT !.at = "kill"] ELSE NoKill
<1>2. next \in KillState /\ (next.at = "kill" => run[r].hold)
  BY <1>1 DEF KillState
<1>3. kill' = [kill EXCEPT ![r] = next] /\ UNCHANGED <<run, tx, kept>>
  BY DEF StopLocks
<1> HIDE DEF next
<1>4. kill' \in [Run -> KillState] /\ kill'[r] = next /\ \A q \in Run : q # r => kill'[q] = kill[q]
  BY <1>1, <1>2, <1>3
<1>5. \A q \in Run : Killing(q)' => run[q].hold
  BY <1>2, <1>4 DEF Killing, RunsInv, Held
<1> QED BY <1>3, <1>4, <1>5, OnlyKillInv

LEMMA KillFailsInv ==
    ASSUME RunsInv, NEW r \in Run, KillFails(r)
    PROVE  RunsInv'
<1>1. /\ kill \in [Run -> KillState] /\ NoKill \in KillState /\ NoKill.at = "none"
      /\ kill' = [kill EXCEPT ![r] = NoKill] /\ Killing(r)
  BY DEF RunsInv, TypeOK, KillState, NoKill, KillFails
<1>2. /\ kill' \in [Run -> KillState] /\ kill'[r].at # "kill"
      /\ \A q \in Run : kill'[q].at = "kill" => kill[q].at = "kill"
  BY <1>1
<1>3. CASE kill[r].by = "cancelled"
  <2>1. UNCHANGED <<run, tx, kept>>
    BY <1>3 DEF KillFails
  <2> QED BY <1>2, <2>1, OnlyKillInv DEF RunsInv, Held, Killing
<1>4. CASE kill[r].by # "cancelled"
  <2>1. Over(r, "stopped")
    BY <1>4 DEF KillFails
  <2>2. Active(r)
    BY <1>1 DEF RunsInv, Held, Active
  <2>3. (Held /\ Waits)' /\ run' \in [Run -> RunState]
    BY <1>2, <2>1, <2>2, OverLeaves
  <2>4. Turns(r)
    BY <2>1, <2>2, OverIs DEF Turns, Claims, Active, Dropped
  <2>5. Writes(r)
    <3>1. CASE UNCHANGED <<tx, kept>>
      BY <3>1, WritesNothing
    <3>2. CASE ~UNCHANGED <<tx, kept>>
      BY <3>2, WriteIsPut DEF KillFails
    <3> QED BY <3>1, <3>2
  <2>6. TypeOK'
    BY <1>2, <2>3, <2>5 DEF TypeOK, Writes
  <2> QED BY <2>3, <2>4, <2>5, <2>6, TurnsOn DEF RunsInv
<1> QED BY <1>3, <1>4

-----------------------------------------------------------------------------
(* A transaction begins and ends. *)

LEMMA TabInv ==
    ASSUME RunsInv, UNCHANGED <<run, kill>>, NEW t \in Tab, NEW next \in TxState,
           tx' = [tx EXCEPT ![t] = next], kept' \subseteq Run \X (1..MaxStatements), kept \subseteq kept',
           next.at # "none", next.server = "manual", next.pending \subseteq tx[t].pending,
           next.at = "committed" => next.pending = {},
           next.at \in {"commit", "committed"} =>
               \A r \in Run : run[r].manual /\ run[r].tab = t => ~Active(r),
           next.at \in {"open", "commit", "committed"} =>
               \/ tx[t].at = "none"
               \/ tx[t].at \in {"open", "commit"} /\ tx[t].pending \cup kept \subseteq next.pending \cup kept'
    PROVE  RunsInv'
<1> USE DEF RunsInv
<1>1. tx \in [Tab -> TxState] /\ \A q \in Run : run[q].tab \in Tab
  BY DEF TypeOK, RunState
<1>2. tx' \in [Tab -> TxState] /\ tx'[t] = next /\ \A u \in Tab : u # t => tx'[u] = tx[u]
  BY <1>1
<1>3. TypeOK'
  BY <1>2 DEF TypeOK
<1>4. (Held /\ Waits /\ InTurn)'
  BY DEF Held, Waits, InTurn, Killing
<1>5. Manual'
  BY <1>1, <1>2 DEF Manual
<1>6. OwnPending'
  <2>1. ASSUME NEW q \in Run, run[q].manual, Active(q)
        PROVE  tx'[run[q].tab].at \notin {"commit", "committed"}
    BY <2>1, <1>1, <1>2 DEF OwnPending
  <2>2. ASSUME NEW u \in Tab
        PROVE  /\ tx'[u].pending \subseteq tx[u].pending
               /\ tx'[u].at = "committed" => tx'[u].pending = {}
    BY <2>2, <1>2 DEF OwnPending
  <2> QED BY <2>1, <2>2 DEF OwnPending, Active
<1>7. Accounted'
  <2> SUFFICES ASSUME NEW q \in Run, run[q].manual, tx'[run[q].tab].at \in {"open", "commit", "committed"},
                      Claims(q)
               PROVE  Saved(q)' \/ \E p \in Run : LostBy(q, p)
    BY DEF Accounted, Claims, Active, Dropped, LostBy
  <2>1. tx[run[q].tab].at # "none"
    BY DEF Manual
  <2>2. /\ tx[run[q].tab].at \in {"open", "commit", "committed"}
        /\ tx[run[q].tab].pending \cup kept \subseteq tx'[run[q].tab].pending \cup kept'
    BY <1>1, <1>2, <2>1
  <2>3. Saved(q) \/ \E p \in Run : LostBy(q, p)
    BY <2>2 DEF Accounted
  <2>4. Saved(q) => Saved(q)'
    BY <2>2 DEF Saved, Done, Succeeded
  <2> QED BY <2>3, <2>4
<1> QED BY <1>3, <1>4, <1>5, <1>6, <1>7

LEMMA TransactionInv ==
    ASSUME RunsInv, NEW t \in Tab, BeginTransaction(t) \/ EndTransaction(t) \/ Finish(t)
    PROVE  RunsInv'
<1>1. /\ UNCHANGED <<run, kill>> /\ tx \in [Tab -> TxState] /\ tx[t] \in TxState
      /\ kept \subseteq Run \X (1..MaxStatements) /\ tx[t].pending \subseteq Run \X (1..MaxStatements)
  BY DEF BeginTransaction, EndTransaction, Finish, RunsInv, TypeOK, TxState
<1>2. tx[t].at # "none" => tx[t].server = "manual"
  BY DEF RunsInv, Manual
<1>3. Idle(t) => \A r \in Run : run[r].manual /\ run[r].tab = t => ~Active(r)
  BY DEF Idle, Active
<1>4. CASE BeginTransaction(t)
  <2> DEFINE next == [tx[t] EXCEPT !.at = "open", !.server = "manual"]
  <2>1. /\ next \in TxState /\ next.at = "open" /\ next.server = "manual" /\ next.pending = tx[t].pending
    BY <1>1 DEF TxState
  <2>2. tx' = [tx EXCEPT ![t] = next] /\ tx[t].at = "none" /\ UNCHANGED kept
    BY <1>4 DEF BeginTransaction
  <2> HIDE DEF next
  <2> QED BY <1>1, <2>1, <2>2, TabInv
<1>5. ASSUME NEW at \in {"commit", "rollback"}, tx' = [tx EXCEPT ![t].at = at], tx[t].at = "open",
             at = "commit" => Idle(t), UNCHANGED kept
      PROVE  RunsInv'
  <2> DEFINE next == [tx[t] EXCEPT !.at = at]
  <2>1. /\ next \in TxState /\ next.at = at /\ next.server = tx[t].server /\ next.pending = tx[t].pending
    BY <1>1 DEF TxState
  <2>2. tx' = [tx EXCEPT ![t] = next]
    BY <1>5
  <2> HIDE DEF next
  <2> QED BY <1>1, <1>2, <1>3, <1>5, <2>1, <2>2, TabInv
<1>6. CASE EndTransaction(t)
  BY <1>5, <1>6 DEF EndTransaction, InMap
<1>7. ASSUME NEW at \in {"committed", "over"}, tx' = [tx EXCEPT ![t].at = at, ![t].pending = {}],
             tx[t].at \in {"commit", "rollback"}, at = "committed" => tx[t].at = "commit",
             kept' = kept \cup tx[t].pending \/ (at = "over" /\ UNCHANGED kept)
      PROVE  RunsInv'
  <2> DEFINE next == [tx[t] EXCEPT !.at = at, !.pending = {}]
  <2>1. /\ next \in TxState /\ next.at = at /\ next.server = tx[t].server /\ next.pending = {}
    BY <1>1 DEF TxState
  <2>2. tx' = [tx EXCEPT ![t] = next]
    BY <1>7
  <2> HIDE DEF next
  <2>3. tx[t].at = "commit" => \A r \in Run : run[r].manual /\ run[r].tab = t => ~Active(r)
    BY DEF RunsInv, OwnPending
  <2> QED BY <1>1, <1>2, <1>7, <2>1, <2>2, <2>3, TabInv
<1>8. CASE Finish(t)
  BY <1>7, <1>8 DEF Finish
<1> QED BY <1>4, <1>6, <1>8

-----------------------------------------------------------------------------
(* Every step. *)

\* A KILL on its way goes by itself, or fails.
LEMMA OnlyItsKill ==
    ASSUME RunsInv, NEW r \in Run, Killing(r), kill'[r] = NoKill, NEW p \in Run,
           Kill(p) \/ KillFails(p) \/ StopLocks(p) \/ Cancel(p) \/ TimeLimit(p)
    PROVE  p = r /\ ~StopLocks(r) /\ ~Cancel(r) /\ ~TimeLimit(r)
<1>1. /\ kill \in [Run -> KillState] /\ kill[r].at = "kill" /\ kill'[r].at = "none"
      /\ kill[r] \in KillState
  BY DEF RunsInv, TypeOK, Killing, NoKill
<1>2. ~(Cancel(p) \/ TimeLimit(p))
  <2>1. ASSUME NEW why \in {"cancelled", "timed out"}, Stop(p, why) PROVE FALSE
    <3>1. CASE UNCHANGED kill
      BY <1>1, <3>1
    <3>2. CASE kill' = [kill EXCEPT ![p].at = "stop", ![p].by = why]
      <4>1. kill'[r].at = IF r = p THEN "stop" ELSE kill[r].at
        BY <1>1, <3>2 DEF KillState
      <4> QED BY <1>1, <4>1
    <3> QED BY <2>1, <3>1, <3>2 DEF Stop
  <2> QED BY <2>1 DEF Cancel, TimeLimit
<1>3. p = r
  <2> SUFFICES ASSUME p # r PROVE FALSE
    OBVIOUS
  <2>1. kill'[r] = kill[r]
    BY <1>1, <1>2 DEF Kill, KillFails, StopLocks
  <2> QED BY <1>1, <2>1
<1>4. ~StopLocks(r)
  BY <1>1 DEF StopLocks
<1> QED BY <1>2, <1>3, <1>4


LEMMA InvNext == RunsInv /\ [Next]_vars => RunsInv'
<1> SUFFICES ASSUME RunsInv, [Next]_vars PROVE RunsInv'
  OBVIOUS
<1>1. CASE UNCHANGED vars
  BY <1>1, OnlyKillInv DEF vars, RunsInv, TypeOK, Held, Killing
<1>2. ASSUME NEW t \in Tab, BeginTransaction(t) \/ EndTransaction(t) \/ Finish(t) \/ \E r \in Run : StartRun(t, r)
      PROVE  RunsInv'
  BY <1>2, TransactionInv, StartInv
<1>3. ASSUME NEW r \in Run,
             \/ ScriptRefused(r) \/ Register(r) \/ AcquireFails(r) \/ Acquire(r) \/ UnlessStopped(r) \/ Lock(r)
             \/ RunOn(r) \/ NextStatement(r) \/ Arrive(r) \/ EndStatement(r)
      PROVE  RunsInv'
  BY <1>3, CommandInv
<1>4. ASSUME NEW r \in Run,
             Execute(r) \/ Cancel(r) \/ TimeLimit(r) \/ StopLocks(r) \/ Kill(r) \/ KillFails(r)
      PROVE  RunsInv'
  BY <1>4, ExecuteInv, StopInv, StopLocksInv, KillInv, KillFailsInv
<1> QED BY <1>1, <1>2, <1>3, <1>4 DEF Next

\* The runs, transactions and stops of MySqlRuns keep their types.
THEOREM TypeCorrect == Spec => []TypeOK
BY InvInit, InvNext, PTL DEF Spec, RunsInv

\* A KILL ends a statement of the run it was sent for and of no other (Run::on, and
\* cancel_mysql_query holding Running::connection while it sends it).
THEOREM KillsItsOwn == Spec => KillStopsItsOwnRun
<1>1. ASSUME RunsInv, Next, NEW r \in Run, NEW q \in Run, Killing(r), kill'[r] = NoKill, q # r
      PROVE  run'[q].outcome = run[q].outcome
  <2>1. run \in [Run -> RunState] /\ kill \in [Run -> KillState] /\ kill[r] # NoKill
    BY <1>1 DEF RunsInv, TypeOK, Killing, NoKill
  <2>2. Kill(r) \/ KillFails(r)
    <3>1. UNCHANGED kill => FALSE
      BY <1>1, <2>1
    <3>2. ASSUME NEW p \in Run, Kill(p) \/ KillFails(p) \/ StopLocks(p) \/ Cancel(p) \/ TimeLimit(p)
          PROVE  Kill(r) \/ KillFails(r)
      <4>1. p = r
        BY <1>1, <2>1, <3>2, OnlyItsKill
      <4>2. ~StopLocks(r) /\ ~Cancel(r) /\ ~TimeLimit(r)
        BY <1>1, <2>1, OnlyItsKill
      <4> QED BY <3>2, <4>1, <4>2
    <3> QED BY <1>1, <3>1, <3>2
            DEF Next, BeginTransaction, EndTransaction, Finish, StartRun, ScriptRefused, Register, AcquireFails,
                Acquire, UnlessStopped, Lock, RunOn, NextStatement, Arrive, Execute, EndStatement
  <2>3. CASE Kill(r)
    <3>1. ~(run[q].at = "executing" /\ SameSession(r, q))
      BY <1>1, KillFindsItsOwn
    <3> QED BY <2>3, <3>1 DEF Kill
  <2>4. CASE KillFails(r)
    BY <1>1, <2>1, <2>4 DEF KillFails, Over
  <2> QED BY <2>2, <2>3, <2>4
<1>2. RunsInv /\ [Next]_vars =>
          [\A r, q \in Run : Killing(r) /\ kill'[r] = NoKill /\ q # r => run'[q].outcome = run[q].outcome]_vars
  BY <1>1
<1> QED BY <1>2, InvInit, InvNext, PTL DEF Spec, KillStopsItsOwnRun

\* What a run wrote in a transaction becomes permanent by the tab's Commit, or with a
\* statement of the tab that commits by itself, and never else (transaction.rs, begin
\* turning autocommit off for good).
THEOREM OnlyCommits == Spec => OnlyCommitsKeep
<1> DEFINE ByCommit(t) == \/ tx[t].at = "commit" /\ tx'[t].at # "commit"
                          \/ \E r \in Run : run[r].tab = t /\ run[r].at = "executing" /\ run'[r].outcome = "committed"
<1>1. ASSUME RunsInv, Next, NEW w \in kept' \ kept, run[w[1]].manual
      PROVE  ByCommit(run[w[1]].tab)
  <2>1. ASSUME NEW r \in Run, Execute(r) PROVE ByCommit(run[w[1]].tab)
    <3>1. run[r].at = "executing" /\ run[r].tab \in Tab /\ run \in [Run -> RunState]
      BY <1>1, <2>1, Executing DEF Execute, RunsInv, TypeOK
    <3>2. CASE EndsAs(r, "committed") /\ kept' = kept \cup tx[run[r].tab].pending \cup {<<r, run[r].left>>}
      <4>1. run'[r].outcome = "committed"
        BY <3>1, <3>2 DEF EndsAs, RunState
      <4>2. w \in tx[run[r].tab].pending \/ w = <<r, run[r].left>>
        BY <1>1, <3>2
      <4>3. run[w[1]].tab = run[r].tab
        BY <1>1, <3>1, <4>2 DEF RunsInv, OwnPending
      <4> QED BY <3>1, <4>1, <4>3
    <3>3. CASE ~run[r].manual /\ kept' = kept \cup {<<r, run[r].left>>}
      BY <1>1, <3>3
    <3> QED BY <1>1, <2>1, <3>1, <3>2, <3>3, Executing DEF Execute
  <2>2. ASSUME NEW t \in Tab, Finish(t) PROVE ByCommit(run[w[1]].tab)
    <3>1. tx[t].at = "commit" /\ w \in tx[t].pending /\ tx \in [Tab -> TxState]
      BY <1>1, <2>2 DEF Finish, RunsInv, TypeOK
    <3>2. run[w[1]].tab = t
      BY <1>1, <3>1 DEF RunsInv, OwnPending
    <3>3. PICK at \in {"committed", "over"} : tx' = [tx EXCEPT ![t].at = at, ![t].pending = {}]
      BY <2>2 DEF Finish
    <3>4. tx'[t].at # "commit"
      BY <3>1, <3>3 DEF TxState
    <3> QED BY <3>1, <3>2, <3>4
  <2>3. ASSUME NEW r \in Run, KillFails(r) PROVE FALSE
    <3>1. run[r].at \in {"sent", "executing"} /\ w = <<r, run[r].left>> /\ ~(run[r].manual /\ tx[run[r].tab].server # "autocommit")
      BY <2>3 DEF KillFails
    <3> QED BY <1>1, <3>1, Executing
  <2> QED BY <1>1, <2>1, <2>2, <2>3
          DEF Next, BeginTransaction, EndTransaction, StartRun, ScriptRefused, Register, AcquireFails, Acquire,
              UnlessStopped, Lock, RunOn, NextStatement, Arrive, EndStatement, Cancel, TimeLimit, Stop, StopLocks, Kill
<1>2. RunsInv /\ [Next]_vars =>
          [\A w \in kept' \ kept : LET t == run[w[1]].tab IN
              run[w[1]].manual => \/ tx[t].at = "commit" /\ tx'[t].at # "commit"
                                  \/ \E r \in Run : run[r].tab = t /\ run[r].at = "executing" /\ run'[r].outcome = "committed"]_vars
  BY <1>1
<1> QED BY <1>2, InvInit, InvNext, PTL DEF Spec, OnlyCommitsKeep

\* A Commit that succeeded holds every write of a run that answered with success, unless a
\* later run of the tab was told of a rollback or stopped (finish, limited).
THEOREM ReportedKept == Spec => []ReportedWritesAreKept
<1>1. ASSUME RunsInv, NEW r \in Run, run[r].told = "done", run[r].manual, tx[run[r].tab].at = "committed"
      PROVE  (\A n \in 1..run[r].size : <<r, n>> \in kept) \/ \E q \in Run : Forgotten(r, q)
  <2>1. Saved(r) \/ \E q \in Run : LostBy(r, q)
    BY <1>1 DEF RunsInv, Accounted, Claims
  <2>2. tx[run[r].tab].pending = {}
    BY <1>1 DEF RunsInv, OwnPending, TypeOK, RunState
  <2>3. Saved(r) => \A n \in 1..run[r].size : <<r, n>> \in kept
    BY <1>1, <2>2 DEF Saved, Done
  <2>4. ASSUME NEW q \in Run, LostBy(r, q) PROVE Forgotten(r, q)
    <3>1. ~Dropped(q)
      BY <1>1, <2>4 DEF LostBy, Dropped, RunsInv, OwnPending, Active
    <3> QED BY <2>4, <3>1 DEF LostBy, Forgotten
  <2> QED BY <2>1, <2>3, <2>4
<1>2. RunsInv => ReportedWritesAreKept
  BY <1>1 DEF ReportedWritesAreKept
<1> QED BY <1>2, InvInit, InvNext, PTL DEF Spec
=============================================================================
