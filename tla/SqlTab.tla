------------------------------- MODULE SqlTab -------------------------------
(***************************************************************************)
(* The SQL tabs of one PostgreSQL connection: a tab's runs and its Manual  *)
(* transaction (src/engines/sql/workspaces/runSql.js, SqlPanel.vue), the   *)
(* transactions the backend holds open (commands/postgres/transaction.rs)  *)
(* and Cancel (commands/postgres/cancel.rs).  The tabs, the commands they  *)
(* call and the server's sessions run at once: an action below is what one *)
(* of them does between two waits.                                         *)
(*                                                                         *)
(* A command's answer reaches its tab in the step that ends the command:   *)
(* until then the tab counts the run as running.                           *)
(*                                                                         *)
(* A run is its number, and a transaction has the number of the run that   *)
(* began it.  A statement writes its run's number.  MaxRuns is the model's *)
(* bound on the runs of all tabs.  At most one Cancel of a run is under    *)
(* way at once: a second would wait for the first one's lock.              *)
(***************************************************************************)
EXTENDS Integers, FiniteSets

CONSTANTS
    Tab,        \* the SQL tabs
    Session,    \* the sessions of the connection's pool
    NoSession,
    MaxRuns

ASSUME ConstantsAssumption == Tab # {} /\ MaxRuns \in Nat /\ NoSession \notin Session

Run   == 1..MaxRuns
NoRun == 0

VARIABLES
    tab,    \* what each tab keeps in its run object
    run,    \* the commands of each run, and what the tab was told
    tx,     \* PgTransactions: each transaction, and its session on the server
    cancel, \* the Cancel of each run
    free,   \* the sessions nobody uses
    hasty   \* tabs whose user closed or switched them while a transaction began

vars == <<tab, run, tx, cancel, free, hasty>>

-----------------------------------------------------------------------------
(* A tab: mode is run.txn ("auto", "manual"), run is run.runId, tx is run.txId.            *)
(* A run is at begin: in begin_pg_transaction.  call: in run_pg_query, without a session.  *)
(* start: with one, and registered.  sent, executing, outcome: in its statement, not yet   *)
(* on the server, there, and ended there.                                                  *)
(* A transaction is at commit, rollback: held still, and its end asked for.  failed is     *)
(* what the backend remembers, aborted what the server does; done are the writes it holds  *)
(* and, once committed, kept; reported those whose run told its tab that they were done.   *)
(* over: a rollback, or a commit that failed.                                              *)
(* A Cancel: the session it signals from, and the one it signals: the run's pid.           *)

NoCancel == [at |-> "none", session |-> NoSession, pid |-> NoSession]
NoTx     == [at |-> "none", tab |-> CHOOSE t \in Tab : TRUE, session |-> NoSession, failed |-> FALSE, aborted |-> FALSE,
             done |-> {}, reported |-> {}]
NewRun   == [at |-> "none", tab |-> CHOOSE t \in Tab : TRUE, tx |-> NoRun, session |-> NoSession,
             told |-> "nothing", cancelled |-> FALSE, unstoppable |-> FALSE]

Init ==
    /\ tab = [t \in Tab |-> [open |-> TRUE, mode |-> "auto", run |-> NoRun, tx |-> NoRun]]
    /\ run = [r \in Run |-> NewRun]
    /\ tx = [x \in Run |-> NoTx]
    /\ cancel = [r \in Run |-> NoCancel]
    /\ free = Session
    /\ hasty = {}

Beginning(t)   == tab[t].run # NoRun /\ run[tab[t].run].at = "begin"
Registered(r)  == run[r].at \in {"start", "sent", "executing", "outcome"}
InStatement(r) == run[r].at \in {"sent", "executing", "outcome"}
Held(x)        == tx[x].at \in {"open", "commit", "rollback"}

\* Cancel holds the run's in_statement lock while it signals.
HoldsStatement(r) == cancel[r].at = "signal"

\* The runs that hold a transaction's lock.
Locking(x) == {r \in Run : run[r].tx = x /\ Registered(r)}

\* Run r is over, and its tab is told.
Over(r) ==
    /\ run' = [run EXCEPT ![r] = [NewRun EXCEPT !.at = "over"]]
    /\ tab' = [tab EXCEPT ![run[r].tab].run = NoRun]

\* The pool's sessions are alike: which of the free ones it hands out does not matter.
FreeSession == CHOOSE s \in free : TRUE
Take        == free # {} /\ free' = free \ {FreeSession}

\* A run of its own returns its session, a transaction's keeps it.
LetGo(r) == free' = IF run[r].tx = NoRun THEN free \cup {run[r].session} ELSE free

-----------------------------------------------------------------------------
(* The user, in one tab. *)

\* runSql: what a tab's transaction is decides where the run goes, not its mode.
ClickRun(t, r) ==
    /\ tab[t].open /\ tab[t].run = NoRun
    /\ run[r].at = "none" /\ \A q \in 1..(r - 1) : run[q].at # "none"
    /\ tab' = [tab EXCEPT ![t].run = r]
    /\ run' = [run EXCEPT ![r].tab = t, ![r].tx = tab[t].tx,
                          ![r].at = IF tab[t].mode = "manual" /\ tab[t].tx = NoRun
                                    THEN "begin" ELSE "call"]
    /\ UNCHANGED <<tx, cancel, free, hasty>>

\* The mode holds still while a transaction is open, not while one begins.
Switch(t) ==
    /\ tab[t].open /\ tab[t].tx = NoRun
    /\ \E mode \in {"auto", "manual"} \ {tab[t].mode} : tab' = [tab EXCEPT ![t].mode = mode]
    /\ hasty' = IF Beginning(t) THEN hasty \cup {t} ELSE hasty
    /\ UNCHANGED <<run, tx, cancel, free>>

\* endTransaction, from the Commit and Rollback buttons.
ClickEnd(t, end) ==
    /\ tab[t].open /\ tab[t].mode = "manual" /\ tab[t].tx # NoRun /\ tab[t].run = NoRun
    /\ tab' = [tab EXCEPT ![t].tx = NoRun]
    /\ tx' = [tx EXCEPT ![tab[t].tx].at = end]
    /\ UNCHANGED <<run, cancel, free, hasty>>

\* A mistake the checks must catch: a closed tab's transaction left to itself.
CloseForgets(t) ==
    /\ tab[t].open
    /\ tab' = [tab EXCEPT ![t].open = FALSE, ![t].mode = "auto", ![t].tx = NoRun]
    /\ hasty' = IF Beginning(t) THEN hasty \cup {t} ELSE hasty
    /\ UNCHANGED <<run, tx, cancel, free>>

\* abandonTransaction: the tab is gone, whatever its mode, and its transaction rolled back.
Close(t) ==
    /\ tab[t].open
    /\ tab' = [tab EXCEPT ![t].open = FALSE, ![t].mode = "auto", ![t].tx = NoRun]
    /\ tx' = IF tab[t].tx = NoRun THEN tx ELSE [tx EXCEPT ![tab[t].tx].at = "rollback"]
    /\ hasty' = IF Beginning(t) THEN hasty \cup {t} ELSE hasty
    /\ UNCHANGED <<run, cancel, free>>

\* cancelSql, while the run has not answered: cancel_pg_query looks the run up, and
\* cancels nothing before it is registered.
ClickCancel(t, r) ==
    /\ tab[t].open /\ r = tab[t].run /\ cancel[r].at = "none"
    /\ Registered(r)
    /\ cancel' = [cancel EXCEPT ![r].at = "acquire", ![r].pid = run[r].session]
    /\ UNCHANGED <<tab, run, tx, free, hasty>>

-----------------------------------------------------------------------------
(* The run's commands. *)

\* begin_pg_transaction: a session of its own, waited for, or no transaction.  The tab,
\* there or not, takes its id, and calls run_pg_query with it.
Begin(r) ==
    /\ run[r].at = "begin"
    /\ \/ /\ Take
          /\ tx' = [tx EXCEPT ![r].at = "open", ![r].tab = run[r].tab, ![r].session = FreeSession]
          /\ tab' = [tab EXCEPT ![run[r].tab].tx = r]
          /\ run' = [run EXCEPT ![r].at = "call", ![r].tx = r]
       \/ Over(r) /\ UNCHANGED <<tx, free>>
    /\ UNCHANGED <<cancel, hasty>>

\* A server error in a transaction aborts it there, and the backend remembers it.
FailTx(x) == tx' = IF x = NoRun THEN tx ELSE [tx EXCEPT ![x].failed = TRUE, ![x].aborted = TRUE]

\* run_pg_query: the transaction's session, once nothing else runs there, or one of
\* the pool's.  cancel::register asks it for its process id, which an aborted
\* transaction refuses; from then on Cancel finds the run.
Call(r) ==
    /\ run[r].at = "call"
    /\ \/ /\ run[r].tx = NoRun
          /\ Take
          /\ run' = [run EXCEPT ![r].at = "start", ![r].session = FreeSession]
       \/ /\ run[r].tx # NoRun /\ Held(run[r].tx)
          /\ ~tx[run[r].tx].aborted /\ Locking(run[r].tx) = {}
          /\ run' = [run EXCEPT ![r].at = "start", ![r].session = tx[run[r].tx].session]
          /\ UNCHANGED free
    /\ UNCHANGED <<tab, tx, cancel, hasty>>

\* No session, no process id, or a transaction that has ended.
CallFails(r) ==
    /\ run[r].at = "call"
    /\ Over(r)
    /\ IF run[r].tx # NoRun /\ Held(run[r].tx)
       THEN Locking(run[r].tx) = {} /\ FailTx(run[r].tx) ELSE UNCHANGED tx
    /\ UNCHANGED <<cancel, free, hasty>>

\* Run::on: a run cancelled by now does not start its statement.
Start(r) ==
    /\ run[r].at = "start" /\ ~HoldsStatement(r)
    /\ IF run[r].cancelled
       THEN Over(r) /\ LetGo(r)
       ELSE run' = [run EXCEPT ![r].at = "sent"] /\ UNCHANGED <<tab, free>>
    /\ UNCHANGED <<tx, cancel, hasty>>

Reach(r) ==
    /\ run[r].at = "sent"
    /\ run' = [run EXCEPT ![r].at = "executing"]
    /\ UNCHANGED <<tab, tx, cancel, free, hasty>>

\* The server ends the statement by itself; a transaction's writes wait for its commit.
Execute(r) ==
    /\ run[r].at = "executing"
    /\ \/ /\ run' = [run EXCEPT ![r].at = "outcome", ![r].told = "done"]
          /\ tx' = IF run[r].tx = NoRun THEN tx ELSE [tx EXCEPT ![run[r].tx].done = @ \cup {r}]
       \/ /\ run' = [run EXCEPT ![r].at = "outcome", ![r].told = "error"]
          /\ tx' = IF run[r].tx = NoRun THEN tx ELSE [tx EXCEPT ![run[r].tx].aborted = TRUE]
    /\ UNCHANGED <<tab, cancel, free, hasty>>

Reported(r) ==
    tx' = IF run[r].tx = NoRun THEN tx ELSE [tx EXCEPT ![run[r].tx].reported = @ \cup {r}]

\* A mistake the checks must catch: a session passed on under a signal on its way.
EndUnlocked(r) ==
    /\ run[r].at = "outcome"
    /\ Over(r) /\ LetGo(r)
    /\ IF run[r].told = "error" THEN FailTx(run[r].tx) ELSE Reported(r)
    /\ UNCHANGED <<cancel, hasty>>

\* A mistake the checks must catch: a failed statement that is not remembered.
EndForgetsFailure(r) ==
    /\ run[r].at = "outcome" /\ ~HoldsStatement(r)
    /\ Over(r) /\ LetGo(r)
    /\ IF run[r].told = "error" THEN UNCHANGED tx ELSE Reported(r)
    /\ UNCHANGED <<cancel, hasty>>

\* The run notes that its statement ended, once no signal for it is on its way, leaves
\* the registry and answers.
End(r) ==
    /\ run[r].at = "outcome" /\ ~HoldsStatement(r)
    /\ Over(r) /\ LetGo(r)
    /\ IF run[r].told = "error" THEN FailTx(run[r].tx) ELSE Reported(r)
    /\ UNCHANGED <<cancel, hasty>>

\* PgTransactions::finish, once nothing runs in the transaction: commits it or rolls it
\* back.  The server answers a COMMIT of an aborted transaction by rolling it back, with
\* success; one that fails, or is not answered, may still have committed.
Finish(x) ==
    /\ tx[x].at \in {"commit", "rollback"} /\ Locking(x) = {}
    /\ \/ /\ tx[x].at = "commit" /\ ~tx[x].failed
          /\ tx' = [tx EXCEPT ![x] = [NoTx EXCEPT
                        !.at = "committed", !.reported = tx[x].reported,
                        !.done = IF tx[x].aborted THEN {} ELSE tx[x].done]]
       \/ tx' = [tx EXCEPT ![x] = [NoTx EXCEPT !.at = "over"]]
    /\ free' = free \cup {tx[x].session}
    /\ UNCHANGED <<tab, run, cancel, hasty>>

-----------------------------------------------------------------------------
(* cancel_pg_query. *)

StopCancel(r) ==
    /\ cancel' = [cancel EXCEPT ![r] = NoCancel]
    /\ free' = free \cup ({cancel[r].session} \ {NoSession})

\* Cancel signals from a session of its own, and gives up when it gets none in time.
Acquire(r) ==
    /\ cancel[r].at = "acquire"
    /\ \/ /\ Take
          /\ cancel' = [cancel EXCEPT ![r].at = "check", ![r].session = FreeSession]
          /\ run' = [run EXCEPT ![r].cancelled = Registered(r)]
       \/ free = {} /\ StopCancel(r) /\ UNCHANGED run
    /\ UNCHANGED <<tab, tx, hasty>>

Check(r) ==
    /\ cancel[r].at = "check"
    /\ IF InStatement(r)
       THEN cancel' = [cancel EXCEPT ![r].at = "signal"] /\ UNCHANGED free
       ELSE StopCancel(r)
    /\ UNCHANGED <<tab, run, tx, hasty>>

\* What runs on the run's session, if anything: a signal to an idle one is lost.
RunningThere(r) == {q \in Run : run[q].at = "executing" /\ run[q].session = cancel[r].pid}

\* pg_cancel_backend ends what runs there with an error, unless the server fails the
\* call, or cannot stop it.
Signal(r) ==
    /\ cancel[r].at = "signal"
    /\ \/ /\ run' = [q \in Run |-> IF q \in RunningThere(r)
                                   THEN [run[q] EXCEPT !.at = "outcome", !.told = "error"] ELSE run[q]]
          /\ tx' = [x \in Run |-> IF \E q \in RunningThere(r) : run[q].tx = x
                                  THEN [tx[x] EXCEPT !.aborted = TRUE] ELSE tx[x]]
          /\ cancel' = [cancel EXCEPT ![r].at = "pause"]
          /\ UNCHANGED free
       \/ /\ RunningThere(r) # {}
          /\ run' = [run EXCEPT ![r].unstoppable = Registered(r)]
          /\ cancel' = [cancel EXCEPT ![r].at = "pause"]
          /\ UNCHANGED <<tx, free>>
       \/ /\ run' = [run EXCEPT ![r].unstoppable = Registered(r)]
          /\ StopCancel(r)
          /\ UNCHANGED tx
    /\ UNCHANGED <<tab, hasty>>

\* Cancel signals again, for long enough that a statement it has not stopped cannot be.
Pause(r) ==
    /\ cancel[r].at = "pause"
    /\ \/ cancel' = [cancel EXCEPT ![r].at = "check"] /\ UNCHANGED free
       \/ run[r].unstoppable /\ StopCancel(r)
    /\ UNCHANGED <<tab, run, tx, hasty>>

-----------------------------------------------------------------------------
User(t) ==
    \/ Switch(t) \/ Close(t) \/ ClickEnd(t, "commit") \/ ClickEnd(t, "rollback")
    \/ \E r \in Run : ClickRun(t, r) \/ ClickCancel(t, r)

RunStep(r)    == Begin(r) \/ Call(r) \/ CallFails(r) \/ Start(r) \/ Reach(r)
CancelStep(r) == Acquire(r) \/ Check(r) \/ Signal(r) \/ Pause(r)

Next ==
    \/ \E t \in Tab : User(t)
    \/ \E r \in Run : RunStep(r) \/ Execute(r) \/ End(r) \/ Finish(r) \/ CancelStep(r)

Spec == Init /\ [][Next]_vars

\* The commands' tasks go on when they can; End waits for a lock that is given to its
\* waiters in turn.  Nothing makes a statement or a COMMIT end, and nothing cuts Cancel's
\* wait for a session short.
FairSpec ==
    /\ Spec
    /\ \A r \in Run :
        /\ WF_vars(Reach(r)) /\ SF_vars(End(r))
        /\ WF_vars((free # {} /\ Acquire(r)) \/ Check(r) \/ Signal(r) \/ Pause(r))

-----------------------------------------------------------------------------

\* A commit that is answered with success made permanent every write its runs reported
\* (transaction.rs Held::failed, finish).
CommitTellsTheTruth ==
    \A x \in Run : tx[x].at = "committed" => tx[x].reported \subseteq tx[x].done

\* No Cancel stops a statement of another run, whatever session it runs on by then
\* (cancel.rs Run::in_statement).
CancelStopsItsOwnRun ==
    [][\A r, q \in Run : HoldsStatement(r) /\ ~HoldsStatement(r)' /\ q # r =>
        ~(run[q].at = "executing" /\ run'[q].at = "outcome")]_vars

\* No transaction outlives its tab: one that is held has a tab that can end it, its end
\* is on its way, or its tab was closed while it began (runSql.js abandonTransaction).
NothingLeftOpen ==
    \A x \in Run : tx[x].at = "open" /\ tx[x].tab \notin hasty =>
        tab[tx[x].tab].open /\ tab[tx[x].tab].tx = x /\ tab[tx[x].tab].mode = "manual"

\* SqlPanel.vue:38: "until Commit or Rollback. The switch holds still while one is open",
\* so that a tab with a transaction offers the buttons that end it.
OpenTransactionsCanBeEnded ==
    \A t \in Tab : tab[t].open /\ tab[t].tx # NoRun => tab[t].mode = "manual"
=============================================================================
