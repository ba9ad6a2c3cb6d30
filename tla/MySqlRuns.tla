------------------------------ MODULE MySqlRuns ------------------------------
(***************************************************************************)
(* The SQL runs of one MySQL connection: scripts run on sessions of their  *)
(* own or in a tab's Manual transaction (commands/mysql/query.rs,          *)
(* script.rs, transaction.rs), and what stops them (cancel.rs).  Each      *)
(* action is what a command, the server or the user does between two       *)
(* waits.                                                                  *)
(*                                                                         *)
(* A session belongs to the run that took it from the pool or to the tab   *)
(* whose transaction it holds, and is closed after use.  A tab begins at   *)
(* most one transaction here.  A write is <<run, statement>>.  MaxRuns and *)
(* MaxStatements bound the runs and the statements of each.                *)
(***************************************************************************)
EXTENDS Integers, FiniteSets

CONSTANTS Tab, PoolSize, MaxRuns, MaxStatements

ASSUME SizesAssumption ==
    Tab # {} /\ PoolSize \in Nat \ {0} /\ MaxRuns \in Nat /\ MaxStatements \in Nat

Run   == 1..MaxRuns

VARIABLES
    run,   \* the runs, with Running of cancel.rs
    tx,    \* MySqlTransactions: each tab's, and its session on the server
    kill,  \* the stop under way for each run: cancel_mysql_query or the time limit
    kept   \* the writes the server has made permanent

vars == <<run, tx, kill, kept>>

\* at: acquire, lock: waiting for a session.  between, sent, executing, ended: around a
\* statement.  hold: in Run::on, its connection known.  stop: why it was stopped.
RunState == [at : {"none", "call", "acquire", "lock", "start", "between", "sent", "executing", "ended", "over"},
             tab : Tab, manual : BOOLEAN, size : 0..MaxStatements, left : 0..MaxStatements, hold : BOOLEAN,
             stop : {"none", "cancelled", "timed out"},
             outcome : {"none", "done", "committed", "error", "deadlock"},
             told : {"nothing", "done", "error", "stopped", "rolled back"}]

\* commit, rollback: taken from the map by finish.  server: how its session treats the
\* next statement.  gone: the session has ended what it held.
TxState == [at : {"none", "open", "commit", "rollback", "committed", "over"},
            server : {"autocommit", "transaction", "manual"}, pending : SUBSET (Run \X (1..MaxStatements))]

\* by: the reason it stops the run for.
KillState == [at : {"none", "stop", "kill"}, by : {"none", "cancelled", "timed out"}]
NoKill    == [at |-> "none", by |-> "none"]

NewRun == [at |-> "none", tab |-> CHOOSE t \in Tab : TRUE, manual |-> FALSE, size |-> 0, left |-> 0, hold |-> FALSE,
           stop |-> "none", outcome |-> "none", told |-> "nothing"]

Init ==
    /\ run = [r \in Run |-> NewRun]
    /\ tx = [t \in Tab |-> [at |-> "none", server |-> "autocommit", pending |-> {}]]
    /\ kill = [r \in Run |-> NoKill]
    /\ kept = {}

OnSession(r)   == run[r].at \in {"start", "between", "sent", "executing", "ended"}
Findable(r)    == run[r].at \in {"acquire", "lock"} \/ OnSession(r)
SameSession(r, q) == r = q \/ (run[r].manual /\ run[q].manual /\ run[r].tab = run[q].tab)
InMap(t)       == tx[t].at = "open"
HasSession(t)  == tx[t].at \in {"open", "commit", "rollback"} \/ \E r \in Run : run[r].manual /\ run[r].tab = t /\ Findable(r)
InUse          == Cardinality({r \in Run : ~run[r].manual /\ OnSession(r)}) + Cardinality({t \in Tab : HasSession(t)})
SessionLocked(t) == \E r \in Run : run[r].manual /\ run[r].tab = t /\ OnSession(r)

\* The run's Running is dropped and its tab is told how it went.
OverRun(r, answer) ==
    [at |-> "over", tab |-> run[r].tab, manual |-> run[r].manual, size |-> run[r].size, left |-> 0, hold |-> FALSE,
     stop |-> "none", outcome |-> "none", told |-> answer]
Over(r, answer) == run' = [run EXCEPT ![r] = OverRun(r, answer)]

-----------------------------------------------------------------------------
(* The user in a tab. *)

Idle(t) == \A r \in Run : run[r].tab = t => run[r].at \in {"none", "over"}

\* run_mysql_query.  A script statements() refuses runs nothing (ScriptRefused).
StartRun(t, r) ==
    /\ Idle(t) /\ run[r].at = "none" /\ \A q \in 1..(r - 1) : run[q].at # "none"
    /\ \E n \in 1..MaxStatements, manual \in {InMap(t)} :
        run' = [run EXCEPT ![r].at = "call", ![r].tab = t, ![r].manual = manual, ![r].size = n, ![r].left = n]
    /\ UNCHANGED <<tx, kill, kept>>

\* A mistake the checks must catch: a transaction begun by statement, on a session that
\* goes back to autocommit as soon as something else ends it.
BeginsByStatement(t) ==
    /\ tx[t].at = "none" /\ Idle(t) /\ InUse < PoolSize
    /\ tx' = [tx EXCEPT ![t].at = "open", ![t].server = "transaction"]
    /\ UNCHANGED <<run, kill, kept>>

\* begin_mysql_transaction, when the pool gives it a session: autocommit off for good.
BeginTransaction(t) ==
    /\ tx[t].at = "none" /\ Idle(t) /\ InUse < PoolSize
    /\ tx' = [tx EXCEPT ![t].at = "open", ![t].server = "manual"]
    /\ UNCHANGED <<run, kill, kept>>

\* Commit waits for the tab's run; a closed tab rolls back whatever runs in it.
EndTransaction(t) ==
    /\ InMap(t)
    /\ \/ Idle(t) /\ tx' = [tx EXCEPT ![t].at = "commit"]
       \/ tx' = [tx EXCEPT ![t].at = "rollback"]
    /\ UNCHANGED <<run, kill, kept>>

-----------------------------------------------------------------------------
(* The run's command. *)

ScriptRefused(r) ==
    /\ run[r].at = "call" /\ Over(r, "error")
    /\ UNCHANGED <<tx, kill, kept>>

\* Run::new, then the pool's session or the transaction's, if it has not ended.
Register(r) ==
    /\ run[r].at = "call"
    /\ IF run[r].manual
       THEN IF InMap(run[r].tab) THEN run' = [run EXCEPT ![r].at = "lock"] ELSE Over(r, "error")
       ELSE run' = [run EXCEPT ![r].at = "acquire"]
    /\ UNCHANGED <<tx, kill, kept>>

AcquireFails(r) == run[r].at = "acquire" /\ Over(r, "error") /\ UNCHANGED <<tx, kill, kept>>

Acquire(r) ==
    /\ run[r].at = "acquire" /\ InUse < PoolSize
    /\ run' = [run EXCEPT ![r].at = "start"]
    /\ UNCHANGED <<tx, kill, kept>>

\* Run::unless_stopped: a stop ends the wait for a session, which no KILL can reach.
UnlessStopped(r) ==
    /\ run[r].at = "acquire" /\ run[r].stop # "none"
    /\ Over(r, "stopped")
    /\ UNCHANGED <<tx, kill, kept>>

Lock(r) ==
    /\ run[r].at = "lock" /\ ~SessionLocked(run[r].tab)
    /\ run' = [run EXCEPT ![r].at = "start"]
    /\ UNCHANGED <<tx, kill, kept>>

\* run_on: not if stopped; else it asks for its connection id and tells Cancel.
RunOn(r) ==
    /\ run[r].at = "start"
    /\ \/ run[r].stop # "none" /\ Over(r, "stopped")
       \/ run[r].stop = "none" /\ Over(r, "error")
       \/ /\ run[r].stop = "none"
          /\ run' = [run EXCEPT ![r].at = "between", ![r].hold = TRUE]
    /\ UNCHANGED <<tx, kill, kept>>

\* A KILL on its way holds Running::connection.
Killing(r) == kill[r].at = "kill"

\* A mistake the checks must catch: a session left under a KILL on its way.
LeaveUnlocked(r) == run[r].hold

\* Run::on gives the connection up only once no KILL for it is on its way.
MayLeave(r) == run[r].hold /\ ~Killing(r)

\* limited: a stopped run starts no other statement, and one with none left is done.
NextStatement(r) ==
    /\ run[r].at = "between"
    /\ \/ run[r].left > 0 /\ run[r].stop # "none" /\ MayLeave(r) /\ Over(r, "stopped")
       \/ run[r].left > 0 /\ run[r].stop = "none" /\ run' = [run EXCEPT ![r].at = "sent"]
       \/ run[r].left = 0 /\ MayLeave(r) /\ Over(r, "done")
    /\ UNCHANGED <<tx, kill, kept>>

Arrive(r) ==
    /\ run[r].at = "sent" /\ run' = [run EXCEPT ![r].at = "executing"]
    /\ UNCHANGED <<tx, kill, kept>>

EndsAs(r, outcome) == run' = [run EXCEPT ![r].at = "ended", ![r].outcome = outcome]

\* The server ends the statement: done, failed, rolled back with its whole transaction by
\* a deadlock, or done and committed by itself with all that was pending, such as DDL.
Execute(r) ==
    LET t == run[r].tab  w == <<r, run[r].left>>
        waits == run[r].manual /\ tx[t].server # "autocommit"
        after == IF tx[t].server = "transaction" THEN "autocommit" ELSE tx[t].server IN
    /\ run[r].at = "executing"
    /\ \/ /\ EndsAs(r, "done")
          /\ IF waits THEN tx' = [tx EXCEPT ![t].pending = @ \cup {w}] /\ UNCHANGED kept
                      ELSE kept' = kept \cup {w} /\ UNCHANGED tx
       \/ EndsAs(r, "error") /\ UNCHANGED <<tx, kept>>
       \/ /\ waits /\ EndsAs(r, "deadlock")
          /\ tx' = [tx EXCEPT ![t].pending = {}, ![t].server = after]
          /\ UNCHANGED kept
       \/ /\ waits /\ EndsAs(r, "committed")
          /\ kept' = kept \cup tx[t].pending \cup {w}
          /\ tx' = [tx EXCEPT ![t].pending = {}, ![t].server = after]
    /\ UNCHANGED kill

Succeeded(r) == run[r].outcome \in {"done", "committed"}

\* A mistake the checks must catch: a deadlock answered as any other error.
AnswersPlainly(r) == "error"

\* What a failed statement's run answers: RolledBack says that the transaction is gone.
FailureTold(r) == IF run[r].outcome = "deadlock" THEN "rolled back" ELSE "error"

\* limited, then run_on: a stop is answered as a stop, whatever the statement did; else
\* the script goes on, or ends with the statement's error.
EndStatement(r) ==
    /\ run[r].at = "ended"
    /\ \/ run[r].stop # "none" /\ MayLeave(r) /\ Over(r, "stopped")
       \/ run[r].stop = "none" /\ ~Succeeded(r) /\ MayLeave(r) /\ Over(r, FailureTold(r))
       \/ /\ run[r].stop = "none" /\ Succeeded(r)
          /\ run' = [run EXCEPT ![r].at = "between", ![r].left = @ - 1, ![r].outcome = "none"]
    /\ UNCHANGED <<tx, kill, kept>>

\* finish, once the session is free: COMMIT or ROLLBACK.  A COMMIT that fails may have
\* committed.  The session closes with its last user.
Finish(t) ==
    /\ tx[t].at \in {"commit", "rollback"} /\ ~SessionLocked(t)
    /\ \/ /\ tx[t].at = "commit" /\ kept' = kept \cup tx[t].pending
          /\ \E at \in {"committed", "over"} : tx' = [tx EXCEPT ![t].at = at, ![t].pending = {}]
       \/ /\ tx' = [tx EXCEPT ![t].at = "over", ![t].pending = {}]
          /\ UNCHANGED kept
    /\ UNCHANGED <<run, kill>>

-----------------------------------------------------------------------------
(* Stopping a run. *)

\* Running::stop: only the first stop goes on to a KILL.
Stop(r, why) ==
    /\ run' = [run EXCEPT ![r].stop = why]
    /\ kill' = IF run[r].stop = "none" THEN [kill EXCEPT ![r].at = "stop", ![r].by = why] ELSE kill
    /\ UNCHANGED <<tx, kept>>

\* cancel_mysql_run.
Cancel(r) == Findable(r) /\ run[r].stop # "cancelled" /\ Stop(r, "cancelled")

\* limited's timer, while the statement has not answered.
TimeLimit(r) == run[r].at \in {"sent", "executing"} /\ run[r].stop = "none" /\ Stop(r, "timed out")

\* The connection lock: with a session there, it is held while the KILL is sent.
StopLocks(r) ==
    /\ kill[r].at = "stop"
    /\ kill' = [kill EXCEPT ![r] = IF run[r].hold THEN [@ EXCEPT !.at = "kill"] ELSE NoKill]
    /\ UNCHANGED <<run, tx, kept>>

\* KILL QUERY ends what executes on the session; an idle session ignores it.
Kill(r) ==
    /\ Killing(r)
    /\ kill' = [kill EXCEPT ![r] = NoKill]
    /\ run' = [q \in Run |-> IF run[q].at = "executing" /\ SameSession(r, q)
                             THEN [run[q] EXCEPT !.at = "ended", !.outcome = "error"] ELSE run[q]]
    /\ UNCHANGED <<tx, kept>>

\* No connection to send it from: Cancel fails, and the time limit ends the command with
\* that error while the server goes on with the statement.
KillFails(r) ==
    LET t == run[r].tab  w == <<r, run[r].left>>
        waits == run[r].manual /\ tx[t].server # "autocommit" IN
    /\ Killing(r)
    /\ kill' = [kill EXCEPT ![r] = NoKill]
    /\ IF kill[r].by = "cancelled" THEN UNCHANGED run ELSE Over(r, "stopped")
    /\ \/ UNCHANGED <<tx, kept>>
       \/ /\ kill[r].by = "timed out" /\ run[r].at \in {"sent", "executing"}
          /\ IF waits THEN tx' = [tx EXCEPT ![t].pending = @ \cup {w}] /\ UNCHANGED kept
                      ELSE kept' = kept \cup {w} /\ UNCHANGED tx

-----------------------------------------------------------------------------
Next ==
    \/ \E t \in Tab : BeginTransaction(t) \/ EndTransaction(t) \/ Finish(t) \/ \E r \in Run : StartRun(t, r)
    \/ \E r \in Run :
        \/ ScriptRefused(r) \/ Register(r) \/ AcquireFails(r) \/ Acquire(r) \/ UnlessStopped(r) \/ Lock(r) \/ RunOn(r)
        \/ NextStatement(r) \/ Arrive(r) \/ Execute(r) \/ EndStatement(r)
        \/ Cancel(r) \/ TimeLimit(r) \/ StopLocks(r) \/ Kill(r) \/ KillFails(r)

Spec == Init /\ [][Next]_vars

-----------------------------------------------------------------------------
TypeOK ==
    /\ run \in [Run -> RunState] /\ tx \in [Tab -> TxState]
    /\ kill \in [Run -> KillState] /\ kept \subseteq Run \X (1..MaxStatements)

\* A KILL ends a statement of the run it was sent for and of no other, even when the next
\* run of the transaction is on the same session by then (Run::on).
KillStopsItsOwnRun ==
    [][\A r, q \in Run : Killing(r) /\ kill'[r] = NoKill /\ q # r => run'[q].outcome = run[q].outcome]_vars

\* What a run wrote in a Manual transaction becomes permanent by the tab's Commit, or with
\* a statement that commits by itself; nothing else makes it so, not even after such a
\* statement or a deadlock ended the server's transaction, or when the run reaches the
\* session only after Rollback (transaction.rs:3-5, begin).
OnlyCommitsKeep ==
    [][\A w \in kept' \ kept : LET t == run[w[1]].tab IN
        run[w[1]].manual => \/ tx[t].at = "commit" /\ tx'[t].at # "commit"
                            \/ \E r \in Run : run[r].tab = t /\ run[r].at = "executing" /\ run'[r].outcome = "committed"]_vars

\* A transaction whose Commit succeeded holds every write of a run that answered with
\* success, unless a later run was told that it was rolled back; or was stopped in the
\* moment of a deadlock, which limited answers as a stop (EndStatement).
Forgotten(r, q) == q > r /\ run[q].tab = run[r].tab /\ run[q].manual
                     /\ (run[q].told = "rolled back" \/ run[q].told = "stopped")

ReportedWritesAreKept ==
    \A r \in Run :
        (run[r].told = "done" /\ run[r].manual /\ tx[run[r].tab].at = "committed") =>
            (\A n \in 1..run[r].size : <<r, n>> \in kept) \/ \E q \in Run : Forgotten(r, q)
=============================================================================
