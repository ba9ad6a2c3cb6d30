---------------------------- MODULE SqlTabProofs ----------------------------
(***************************************************************************)
(* Proofs about the SQL tabs of a PostgreSQL connection, for any tabs,     *)
(* sessions and runs: a commit that is answered with success keeps what    *)
(* was reported, a closed tab leaves no transaction behind, and a Cancel   *)
(* stops no run but its own, whoever has its session next.                 *)
(***************************************************************************)
EXTENDS SqlTab, TLAPS

-----------------------------------------------------------------------------
(* The inductive invariant. *)

RunOrNone     == Run \cup {NoRun}
SessionOrNone == Session \cup {NoSession}

TabState == [open : BOOLEAN, mode : {"auto", "manual"}, run : RunOrNone, tx : RunOrNone]

RunState == [at : {"none", "begin", "call", "start", "sent", "executing", "outcome", "over"},
             tab : Tab, tx : RunOrNone, session : SessionOrNone, told : {"nothing", "done", "error"},
             cancelled : BOOLEAN, unstoppable : BOOLEAN]

TxState == [at : {"none", "open", "commit", "rollback", "committed", "over"}, tab : Tab,
            session : SessionOrNone, failed : BOOLEAN, aborted : BOOLEAN, done : SUBSET Run,
            reported : SUBSET Run]

CancelState == [at : {"none", "acquire", "check", "signal", "pause"},
                session : SessionOrNone, pid : SessionOrNone]

\* The type invariant.
TypeOK ==
    /\ tab \in [Tab -> TabState]
    /\ run \in [Run -> RunState]
    /\ tx \in [Run -> TxState]
    /\ cancel \in [Run -> CancelState]
    /\ free \subseteq Session /\ hasty \subseteq Tab

\* The session a run took from the pool, a transaction holds, a Cancel signals from.
RunUses(r) == IF run[r].tx = NoRun /\ Registered(r) THEN run[r].session ELSE NoSession
TxUses(x)  == IF Held(x) THEN tx[x].session ELSE NoSession

Users == {"run", "tx", "cancel"} \X Run

Uses(u) ==
    IF u[1] = "run" THEN RunUses(u[2]) ELSE IF u[1] = "tx" THEN TxUses(u[2]) ELSE cancel[u[2]].session

\* Each session in use has one user.
Exclusive ==
    \A u, v \in Users : Uses(u) # NoSession =>
        Uses(u) \notin free /\ (Uses(u) = Uses(v) => u = v)

\* A registered run has a session: in a transaction that of the transaction, which is
\* held, and which it has for itself.
OnSessions ==
    /\ \A r \in Run : Registered(r) => run[r].session # NoSession
    /\ \A x \in Run : Held(x) => tx[x].session # NoSession
    /\ \A r \in Run : Registered(r) /\ run[r].tx # NoRun =>
          /\ Held(run[r].tx) /\ run[r].session = tx[run[r].tx].session
          /\ Locking(run[r].tx) = {r}

\* A Cancel signals the session its run has, as long as it has it, in its statement.
Cancels ==
    \A r \in Run :
        /\ cancel[r].at # "none" =>
              /\ Registered(r) \/ run[r].at = "over"
              /\ Registered(r) => cancel[r].pid = run[r].session
        /\ cancel[r].at = "signal" => InStatement(r)
        /\ cancel[r].at \in {"none", "acquire"} => cancel[r].session = NoSession

\* A run that has begun and not answered is its tab's run.
TabRuns == \A r \in Run : run[r].at \notin {"none", "over"} => tab[run[r].tab].run = r

\* A transaction that begins has a tab without one, which its user closed or switched
\* meanwhile if it is not open and manual; the one a tab has is open.
Begins ==
    /\ \A r \in Run : run[r].at \in {"none", "begin"} => tx[r].at = "none"
    /\ \A r \in Run : run[r].at = "begin" =>
          /\ run[r].tx = NoRun /\ tab[run[r].tab].tx = NoRun
          /\ run[r].tab \notin hasty => tab[run[r].tab].open /\ tab[run[r].tab].mode = "manual"
    /\ \A t \in Tab : tab[t].tx # NoRun => tx[tab[t].tx].at = "open" /\ tx[tab[t].tx].tab = t

\* A statement that ended well is done in its transaction; one that failed is remembered
\* by the backend once its run answers.
Remembered ==
    /\ \A r \in Run : run[r].at = "outcome" =>
          /\ run[r].told # "nothing"
          /\ run[r].told = "done" /\ run[r].tx # NoRun => r \in tx[run[r].tx].done
    /\ \A x \in Run : tx[x].aborted /\ ~tx[x].failed =>
          \E r \in Locking(x) : run[r].at = "outcome" /\ run[r].told = "error"

\* CommitTellsTheTruth, before the commit too.
Truthful == \A x \in Run : tx[x].reported \subseteq tx[x].done

Inv ==
    /\ TypeOK /\ Exclusive /\ OnSessions /\ Cancels /\ TabRuns /\ Begins
    /\ Remembered /\ Truthful /\ NothingLeftOpen

-----------------------------------------------------------------------------
(* Types. *)

LEMMA NoRunIsNone == NoRun \notin Run
BY DEF NoRun, Run

LEMMA FreeIsFree == free # {} => FreeSession \in free
BY DEF FreeSession

\* One of the tabs stands for the tab of what has none.
LEMMA SomeTab == (CHOOSE t \in Tab : TRUE) \in Tab
BY ConstantsAssumption

LEMMA NewTypes ==
    /\ NewRun \in RunState /\ [NewRun EXCEPT !.at = "over"] \in RunState
    /\ NoTx \in TxState /\ NoCancel \in CancelState
BY SomeTab DEF NewRun, NoTx, NoCancel, RunState, TxState, CancelState, RunOrNone, SessionOrNone

LEMMA OverTypes ==
    ASSUME TypeOK, NEW r \in Run, Over(r)
    PROVE  run' \in [Run -> RunState] /\ tab' \in [Tab -> TabState]
<1>1. run[r].tab \in Tab /\ tab \in [Tab -> TabState] /\ run \in [Run -> RunState]
  BY DEF TypeOK, RunState
<1>2. run' \in [Run -> RunState]
  BY <1>1, NewTypes DEF Over
<1>3. tab' \in [Tab -> TabState]
  BY <1>1 DEF Over, TabState, RunOrNone
<1> QED BY <1>2, <1>3

LEMMA FailTypes ==
    ASSUME TypeOK, NEW x \in RunOrNone, FailTx(x)
    PROVE  tx' \in [Run -> TxState]
<1>1. tx \in [Run -> TxState]
  BY DEF TypeOK
<1>2. ASSUME x \in Run PROVE [tx[x] EXCEPT !.failed = TRUE, !.aborted = TRUE] \in TxState
  <2>1. tx[x] \in TxState
    BY <1>1, <1>2
  <2> QED BY <2>1 DEF TxState
<1>3. x # NoRun => tx' = [tx EXCEPT ![x] = [tx[x] EXCEPT !.failed = TRUE, !.aborted = TRUE]]
  BY DEF FailTx
<1> QED BY <1>1, <1>2, <1>3 DEF FailTx, RunOrNone

LEMMA ReportTypes ==
    ASSUME TypeOK, NEW r \in Run, Reported(r)
    PROVE  tx' \in [Run -> TxState]
BY DEF TypeOK, Reported, TxState, RunState, RunOrNone

LEMMA LetGoTypes ==
    ASSUME TypeOK, NEW r \in Run, Registered(r), OnSessions, LetGo(r)
    PROVE  free' \subseteq Session
BY DEF TypeOK, LetGo, OnSessions, RunState, SessionOrNone

LEMMA TypeInit == Init => TypeOK
<1> SUFFICES ASSUME Init PROVE TypeOK
  OBVIOUS
<1>1. tab \in [Tab -> TabState]
  BY DEF Init, TabState, RunOrNone
<1> QED BY <1>1, NewTypes DEF Init, TypeOK

LEMMA TypeUser ==
    ASSUME TypeOK, NEW t \in Tab, User(t)
    PROVE  TypeOK'
<1>1. /\ tab \in [Tab -> TabState] /\ run \in [Run -> RunState] /\ tx \in [Run -> TxState]
      /\ cancel \in [Run -> CancelState] /\ free \subseteq Session /\ hasty \subseteq Tab
  BY DEF TypeOK
<1>2. ASSUME NEW end \in {"commit", "rollback"}, ClickEnd(t, end) PROVE TypeOK'
  <2>1. tx' \in [Run -> TxState]
    BY <1>1, <1>2 DEF ClickEnd, TxState
  <2>2. tab' \in [Tab -> TabState]
    BY <1>1, <1>2 DEF ClickEnd, TabState, RunOrNone
  <2> QED BY <1>1, <1>2, <2>1, <2>2 DEF ClickEnd, TypeOK
<1>3. CASE Switch(t)
  <2>1. tab' \in [Tab -> TabState]
    BY <1>1, <1>3 DEF Switch, TabState
  <2>2. hasty' \subseteq Tab
    BY <1>1, <1>3 DEF Switch
  <2> QED BY <1>1, <1>3, <2>1, <2>2 DEF Switch, TypeOK
<1>4. CASE Close(t)
  <2>1. tab' \in [Tab -> TabState]
    BY <1>1, <1>4 DEF Close, TabState, RunOrNone
  <2>2. ASSUME tab[t].tx # NoRun PROVE tx' \in [Run -> TxState]
    <3>1. tab[t].tx \in Run /\ tx' = [tx EXCEPT ![tab[t].tx].at = "rollback"]
      BY <1>1, <1>4, <2>2 DEF Close, TabState, RunOrNone
    <3>2. tx[tab[t].tx] \in TxState
      BY <1>1, <3>1
    <3>3. [tx[tab[t].tx] EXCEPT !.at = "rollback"] \in TxState
      BY <3>2 DEF TxState
    <3> QED BY <1>1, <3>1, <3>3
  <2>3. hasty' \subseteq Tab
    BY <1>1, <1>4 DEF Close
  <2>4. tab[t].tx = NoRun => tx' = tx
    BY <1>4 DEF Close
  <2> QED BY <1>1, <1>4, <2>1, <2>2, <2>3, <2>4 DEF Close, TypeOK
<1>5. ASSUME NEW r \in Run, ClickRun(t, r) PROVE TypeOK'
  <2>1. tab' \in [Tab -> TabState]
    BY <1>1, <1>5 DEF ClickRun, TabState, RunOrNone
  <2>2. run' \in [Run -> RunState]
    BY <1>1, <1>5 DEF ClickRun, RunState, TabState
  <2> QED BY <1>1, <1>5, <2>1, <2>2 DEF ClickRun, TypeOK
<1>6. ASSUME NEW r \in Run, ClickCancel(t, r) PROVE TypeOK'
  <2>1. cancel' \in [Run -> CancelState]
    BY <1>1, <1>6 DEF ClickCancel, CancelState, RunState
  <2> QED BY <1>1, <1>6, <2>1 DEF ClickCancel, TypeOK
<1> QED BY <1>2, <1>3, <1>4, <1>5, <1>6 DEF User

LEMMA TypeRun ==
    ASSUME TypeOK, OnSessions, NEW r \in Run, RunStep(r) \/ Execute(r) \/ End(r) \/ Finish(r)
    PROVE  TypeOK'
<1>1. /\ tab \in [Tab -> TabState] /\ run \in [Run -> RunState] /\ tx \in [Run -> TxState]
      /\ cancel \in [Run -> CancelState] /\ free \subseteq Session /\ hasty \subseteq Tab
      /\ run[r].tx \in RunOrNone /\ run[r].tab \in Tab
  BY DEF TypeOK, RunState
<1>2. CASE Begin(r)
  <2>1. CASE Over(r) /\ UNCHANGED <<tx, free>>
    BY <1>1, <1>2, <2>1, OverTypes DEF Begin, TypeOK
  <2>2. CASE /\ Take
             /\ tx' = [tx EXCEPT ![r].at = "open", ![r].tab = run[r].tab, ![r].session = FreeSession]
             /\ tab' = [tab EXCEPT ![run[r].tab].tx = r]
             /\ run' = [run EXCEPT ![r].at = "call", ![r].tx = r]
    <3>1. FreeSession \in Session /\ free' \subseteq Session
      BY <1>1, <2>2, FreeIsFree DEF Take
    <3>2. tx' \in [Run -> TxState]
      <4>1. [tx[r] EXCEPT !.at = "open", !.tab = run[r].tab, !.session = FreeSession] \in TxState
        <5>1. tx[r] \in TxState
          BY <1>1
        <5> QED BY <1>1, <3>1, <5>1 DEF TxState, SessionOrNone
      <4>2. tx' = [tx EXCEPT ![r] = [tx[r] EXCEPT !.at = "open", !.tab = run[r].tab, !.session = FreeSession]]
        BY <2>2
      <4> QED BY <1>1, <4>1, <4>2
    <3>3. tab' \in [Tab -> TabState]
      BY <1>1, <2>2 DEF TabState, RunOrNone
    <3>4. run' \in [Run -> RunState]
      <4>1. [run[r] EXCEPT !.at = "call", !.tx = r] \in RunState
        BY <1>1 DEF RunState, RunOrNone
      <4>2. run' = [run EXCEPT ![r] = [run[r] EXCEPT !.at = "call", !.tx = r]]
        BY <2>2
      <4> QED BY <1>1, <4>1, <4>2
    <3> QED BY <1>1, <1>2, <3>1, <3>2, <3>3, <3>4 DEF Begin, TypeOK
  <2> QED BY <1>2, <2>1, <2>2 DEF Begin
<1>3. CASE Call(r)
  <2>1. CASE run[r].tx = NoRun /\ Take /\ run' = [run EXCEPT ![r].at = "start", ![r].session = FreeSession]
    <3>1. FreeSession \in Session /\ free' \subseteq Session
      BY <1>1, <2>1, FreeIsFree DEF Take
    <3>2. run' \in [Run -> RunState]
      <4>1. [run[r] EXCEPT !.at = "start", !.session = FreeSession] \in RunState
        BY <1>1, <3>1 DEF RunState, SessionOrNone
      <4>2. run' = [run EXCEPT ![r] = [run[r] EXCEPT !.at = "start", !.session = FreeSession]]
        BY <2>1
      <4> QED BY <1>1, <4>1, <4>2
    <3> QED BY <1>1, <1>3, <3>1, <3>2 DEF Call, TypeOK
  <2>2. CASE run[r].tx # NoRun /\ run' = [run EXCEPT ![r].at = "start", ![r].session = tx[run[r].tx].session] /\ UNCHANGED free
    <3>1. run[r].tx \in Run
      BY <1>1, <2>2 DEF RunOrNone
    <3>2. tx[run[r].tx].session \in SessionOrNone
      BY <1>1, <3>1 DEF TxState
    <3>3. run' \in [Run -> RunState]
      <4>1. [run[r] EXCEPT !.at = "start", !.session = tx[run[r].tx].session] \in RunState
        BY <1>1, <3>2 DEF RunState
      <4>2. run' = [run EXCEPT ![r] = [run[r] EXCEPT !.at = "start", !.session = tx[run[r].tx].session]]
        BY <2>2
      <4> QED BY <1>1, <4>1, <4>2
    <3> QED BY <1>1, <1>3, <2>2, <3>3 DEF Call, TypeOK
  <2> QED BY <1>3, <2>1, <2>2 DEF Call
<1>4. CASE CallFails(r)
  <2>1. tx' \in [Run -> TxState]
    BY <1>1, <1>4, FailTypes DEF CallFails
  <2> QED BY <1>1, <1>4, <2>1, OverTypes DEF CallFails, TypeOK
<1>5. CASE Start(r)
  <2>1. CASE Over(r) /\ LetGo(r)
    BY <1>1, <1>5, <2>1, OverTypes, LetGoTypes DEF Start, TypeOK, Registered
  <2>2. CASE run' = [run EXCEPT ![r].at = "sent"] /\ UNCHANGED <<tab, free>>
    <3>1. run' \in [Run -> RunState]
      BY <1>1, <2>2 DEF RunState
    <3> QED BY <1>1, <1>5, <2>2, <3>1 DEF Start, TypeOK
  <2> QED BY <1>5, <2>1, <2>2 DEF Start
<1>6. CASE Reach(r)
  <2>1. run' \in [Run -> RunState]
    BY <1>1, <1>6 DEF Reach, RunState
  <2> QED BY <1>1, <1>6, <2>1 DEF Reach, TypeOK
<1>7. CASE Execute(r)
  <2>1. run' \in [Run -> RunState]
    <3>1. \A told \in {"done", "error"} : [run[r] EXCEPT !.at = "outcome", !.told = told] \in RunState
      BY <1>1 DEF RunState
    <3>2. \E told \in {"done", "error"} :
              run' = [run EXCEPT ![r] = [run[r] EXCEPT !.at = "outcome", !.told = told]]
      BY <1>7 DEF Execute
    <3> QED BY <1>1, <3>1, <3>2
  <2>2. CASE run[r].tx = NoRun
    BY <1>1, <1>7, <2>1, <2>2 DEF Execute, TypeOK
  <2>3. CASE run[r].tx \in Run
    <3>1. tx[run[r].tx].done \cup {r} \in SUBSET Run
      BY <1>1, <2>3 DEF TxState
    <3>2. /\ [tx[run[r].tx] EXCEPT !.done = tx[run[r].tx].done \cup {r}] \in TxState
          /\ [tx[run[r].tx] EXCEPT !.aborted = TRUE] \in TxState
      <4>1. tx[run[r].tx] \in TxState
        BY <1>1, <2>3
      <4> QED BY <3>1, <4>1 DEF TxState
    <3>3. \/ tx' = [tx EXCEPT ![run[r].tx] = [tx[run[r].tx] EXCEPT !.done = tx[run[r].tx].done \cup {r}]]
          \/ tx' = [tx EXCEPT ![run[r].tx] = [tx[run[r].tx] EXCEPT !.aborted = TRUE]]
      BY <1>7, <2>3, NoRunIsNone DEF Execute
    <3>4. tx' \in [Run -> TxState]
      BY <1>1, <2>3, <3>2, <3>3
    <3> QED BY <1>1, <1>7, <2>1, <3>4 DEF Execute, TypeOK
  <2> QED BY <1>1, <2>2, <2>3 DEF RunOrNone
<1>8. CASE End(r)
  <2>1. tx' \in [Run -> TxState]
    BY <1>1, <1>8, FailTypes, ReportTypes DEF End
  <2> QED BY <1>1, <1>8, <2>1, OverTypes, LetGoTypes DEF End, TypeOK, Registered
<1>9. CASE Finish(r)
  <2>1. tx[r].session \in Session
    BY <1>1, <1>9 DEF Finish, OnSessions, Held, TxState, SessionOrNone
  <2>2. \A done \in SUBSET Run : [NoTx EXCEPT !.at = "committed", !.reported = tx[r].reported, !.done = done] \in TxState
    BY <1>1, NewTypes DEF TxState
  <2>3. tx[r].done \in SUBSET Run /\ [NoTx EXCEPT !.at = "over"] \in TxState
    BY <1>1, NewTypes DEF TxState
  <2>4. \E last \in TxState : tx' = [tx EXCEPT ![r] = last]
    <3>1. CASE tx' = [tx EXCEPT ![r] = [NoTx EXCEPT !.at = "over"]]
      BY <2>3, <3>1
    <3>2. CASE tx' = [tx EXCEPT ![r] = [NoTx EXCEPT !.at = "committed", !.reported = tx[r].reported,
                                                    !.done = IF tx[r].aborted THEN {} ELSE tx[r].done]]
      BY <2>2, <2>3, <3>2
    <3> QED BY <1>9, <3>1, <3>2 DEF Finish
  <2>5. tx' \in [Run -> TxState]
    BY <1>1, <2>4
  <2> QED BY <1>1, <1>9, <2>1, <2>5 DEF Finish, TypeOK
<1> QED BY <1>2, <1>3, <1>4, <1>5, <1>6, <1>7, <1>8, <1>9 DEF RunStep

LEMMA TypeCancel ==
    ASSUME TypeOK, NEW r \in Run, CancelStep(r)
    PROVE  TypeOK'
<1>1. /\ tab \in [Tab -> TabState] /\ run \in [Run -> RunState] /\ tx \in [Run -> TxState]
      /\ cancel \in [Run -> CancelState] /\ free \subseteq Session /\ hasty \subseteq Tab
  BY DEF TypeOK
<1>2. ASSUME StopCancel(r) PROVE cancel' \in [Run -> CancelState] /\ free' \subseteq Session
  BY <1>1, <1>2, NewTypes DEF StopCancel, CancelState, SessionOrNone
<1>3. \A at \in {"check", "signal", "pause"} :
          [cancel EXCEPT ![r].at = at] \in [Run -> CancelState]
  BY <1>1 DEF CancelState
<1>4. Registered(r) \in BOOLEAN
  BY DEF Registered
<1>5. CASE Acquire(r)
  <2>1. CASE Take /\ cancel' = [cancel EXCEPT ![r].at = "check", ![r].session = FreeSession]
             /\ run' = [run EXCEPT ![r].cancelled = Registered(r)]
    <3>1. FreeSession \in Session /\ free' \subseteq Session
      BY <1>1, <2>1, FreeIsFree DEF Take
    <3>2. cancel' \in [Run -> CancelState]
      BY <1>1, <2>1, <3>1 DEF CancelState, SessionOrNone
    <3>3. run' \in [Run -> RunState]
      BY <1>1, <1>4, <2>1 DEF RunState
    <3> QED BY <1>1, <1>5, <3>1, <3>2, <3>3 DEF Acquire, TypeOK
  <2>2. CASE StopCancel(r) /\ UNCHANGED run
    BY <1>1, <1>2, <1>5, <2>2 DEF Acquire, TypeOK
  <2> QED BY <1>5, <2>1, <2>2 DEF Acquire
<1>6. CASE Check(r)
  BY <1>1, <1>2, <1>3, <1>6 DEF Check, TypeOK
<1>7. CASE Pause(r)
  BY <1>1, <1>2, <1>3, <1>7 DEF Pause, TypeOK
<1>8. CASE Signal(r)
  <2>1. [run EXCEPT ![r].unstoppable = Registered(r)] \in [Run -> RunState]
    BY <1>1, <1>4 DEF RunState
  <2>2. \A q \in Run : [run[q] EXCEPT !.at = "outcome", !.told = "error"] \in RunState
    BY <1>1 DEF RunState
  <2>3. \A x \in Run : [tx[x] EXCEPT !.aborted = TRUE] \in TxState
    <3> TAKE x \in Run
    <3>1. tx[x] \in TxState
      BY <1>1
    <3> QED BY <3>1 DEF TxState
  <2>4. [q \in Run |-> IF q \in RunningThere(r) THEN [run[q] EXCEPT !.at = "outcome", !.told = "error"]
                       ELSE run[q]] \in [Run -> RunState]
    BY <1>1, <2>2
  <2>5. [x \in Run |-> IF \E q \in RunningThere(r) : run[q].tx = x THEN [tx[x] EXCEPT !.aborted = TRUE]
                       ELSE tx[x]] \in [Run -> TxState]
    BY <1>1, <2>3
  <2>6. run' \in [Run -> RunState] /\ tx' \in [Run -> TxState]
    BY <1>1, <1>8, <2>1, <2>4, <2>5 DEF Signal
  <2> QED BY <1>1, <1>2, <1>3, <1>8, <2>6 DEF Signal, TypeOK
<1> QED BY <1>5, <1>6, <1>7, <1>8 DEF CancelStep

-----------------------------------------------------------------------------
(* Sessions change hands one at a time. *)

\* Nobody but u takes or leaves a session in this step.
Only(u) == \A v \in Users \ {u} : Uses(v)' = Uses(v)

LEMMA ExclusiveKept ==
    ASSUME Exclusive, NEW u \in Users, Only(u),
           \/ Uses(u)' = Uses(u) /\ free' = free
           \/ free # {} /\ Uses(u)' = FreeSession /\ free' = free \ {FreeSession}
           \/ Uses(u)' = NoSession /\ free' = free \cup ({Uses(u)} \ {NoSession})
    PROVE  Exclusive'
<1>1. ASSUME Uses(u)' = Uses(u), free' = free PROVE Exclusive'
  BY <1>1 DEF Only, Exclusive
<1>2. ASSUME free # {}, Uses(u)' = FreeSession, free' = free \ {FreeSession} PROVE Exclusive'
  BY <1>2, FreeIsFree DEF Only, Exclusive
<1>3. ASSUME Uses(u)' = NoSession, free' = free \cup ({Uses(u)} \ {NoSession}) PROVE Exclusive'
  BY <1>3 DEF Only, Exclusive
<1> QED BY <1>1, <1>2, <1>3

LEMMA UsesAre ==
    ASSUME NEW r \in Run
    PROVE  /\ <<"run", r>> \in Users /\ <<"tx", r>> \in Users /\ <<"cancel", r>> \in Users
           /\ Uses(<<"run", r>>) = RunUses(r) /\ Uses(<<"run", r>>)' = RunUses(r)'
           /\ Uses(<<"tx", r>>) = TxUses(r) /\ Uses(<<"tx", r>>)' = TxUses(r)'
           /\ Uses(<<"cancel", r>>) = cancel[r].session /\ Uses(<<"cancel", r>>)' = cancel'[r].session
BY DEF Users, Uses

\* A step that moves the sessions of no runs, no transactions or no Cancels but one.
LEMMA OnlyRun ==
    ASSUME NEW r \in Run, \A q \in Run \ {r} : RunUses(q)' = RunUses(q),
           \A q \in Run : TxUses(q)' = TxUses(q) /\ cancel'[q].session = cancel[q].session
    PROVE  Only(<<"run", r>>)
BY DEF Only, Users, Uses

LEMMA OnlyTx ==
    ASSUME NEW r \in Run, \A q \in Run \ {r} : TxUses(q)' = TxUses(q),
           \A q \in Run : RunUses(q)' = RunUses(q) /\ cancel'[q].session = cancel[q].session
    PROVE  Only(<<"tx", r>>)
BY DEF Only, Users, Uses

LEMMA OnlyCancel ==
    ASSUME NEW r \in Run, \A q \in Run \ {r} : cancel'[q].session = cancel[q].session,
           \A q \in Run : RunUses(q)' = RunUses(q) /\ TxUses(q)' = TxUses(q)
    PROVE  Only(<<"cancel", r>>)
BY DEF Only, Users, Uses

\* No session changes hands.
Still ==
    /\ \A q \in Run : /\ RunUses(q)' = RunUses(q) /\ TxUses(q)' = TxUses(q)
                      /\ cancel'[q].session = cancel[q].session
    /\ free' = free

LEMMA ExclusiveStill == ASSUME Exclusive, Still PROVE Exclusive'
<1>1. \A u \in Users : Uses(u)' = Uses(u)
  BY DEF Still, Users, Uses
<1> QED BY <1>1 DEF Exclusive, Still

-----------------------------------------------------------------------------
(* The user's steps. *)

LEMMA SwitchKeeps ==
    ASSUME Inv, NEW t \in Tab, Switch(t), TypeOK'
    PROVE  Inv'
<1> USE DEF Inv
<1>1. /\ UNCHANGED <<run, tx, cancel, free>> /\ tab[t].tx = NoRun /\ tab \in [Tab -> TabState]
      /\ hasty \subseteq hasty' /\ (Beginning(t) => t \in hasty')
  BY DEF Switch, TypeOK
<1>2. /\ \A u \in Tab \ {t} : tab'[u] = tab[u]
      /\ tab'[t].open = tab[t].open /\ tab'[t].run = tab[t].run /\ tab'[t].tx = tab[t].tx
  BY <1>1 DEF Switch, TabState
<1>3. Exclusive' /\ OnSessions' /\ Cancels' /\ Remembered' /\ Truthful'
  BY <1>1 DEF Exclusive, Users, Uses, RunUses, TxUses, OnSessions, Cancels, Remembered, Truthful,
              Held, Registered, Locking, InStatement
<1>4. TabRuns'
  BY <1>1, <1>2 DEF TabRuns, TypeOK, RunState
<1>5. Begins'
  <2>1. \A r \in Run : run[r].at = "begin" /\ run[r].tab = t => t \in hasty'
    BY <1>1, NoRunIsNone DEF Beginning, TabRuns
  <2> QED BY <1>1, <1>2, <2>1 DEF Begins, TypeOK, RunState
<1>6. NothingLeftOpen'
  BY <1>1, <1>2, NoRunIsNone DEF NothingLeftOpen, TypeOK, TxState
<1> QED BY <1>3, <1>4, <1>5, <1>6

\* What asking for the end of a tab's transaction does to the rest.
LEMMA EndAsked ==
    ASSUME Inv, NEW x \in Run, tx[x].at = "open", NEW end \in {"commit", "rollback"},
           tx' = [tx EXCEPT ![x].at = end], UNCHANGED <<run, cancel, free>>
    PROVE  /\ Exclusive' /\ OnSessions' /\ Cancels' /\ Remembered' /\ Truthful'
           /\ tx'[x].at = end /\ \A y \in Run \ {x} : tx'[y] = tx[y]
<1> USE DEF Inv
<1>1. /\ \A y \in Run \ {x} : tx'[y] = tx[y]
      /\ tx'[x].at = end /\ tx'[x].session = tx[x].session /\ tx'[x].failed = tx[x].failed
      /\ tx'[x].aborted = tx[x].aborted /\ tx'[x].done = tx[x].done /\ tx'[x].reported = tx[x].reported
  BY DEF TypeOK, TxState
<1>2. \A y \in Run : Held(y)' = Held(y)
  BY <1>1 DEF Held
<1>3. Still
  BY <1>1, <1>2 DEF Still, RunUses, TxUses, Registered
<1>4. \A y \in Run : Locking(y)' = Locking(y)
  BY DEF Locking, Registered
<1>5. OnSessions'
  BY <1>1, <1>2, <1>4 DEF OnSessions, Registered, TypeOK, RunState, RunOrNone
<1>6. Cancels'
  BY DEF Cancels, Registered, InStatement
<1>7. Remembered' /\ Truthful'
  BY <1>1, <1>4 DEF Remembered, Truthful, TypeOK, RunState, RunOrNone
<1> QED BY <1>1, <1>3, <1>5, <1>6, <1>7, ExclusiveStill

LEMMA ClickEndKeeps ==
    ASSUME Inv, NEW t \in Tab, NEW end \in {"commit", "rollback"}, ClickEnd(t, end), TypeOK'
    PROVE  Inv'
<1> USE DEF Inv
<1> DEFINE x == tab[t].tx
<1>1. /\ UNCHANGED <<run, cancel, free, hasty>> /\ x \in Run /\ tab[t].run = NoRun
      /\ tab \in [Tab -> TabState] /\ tx' = [tx EXCEPT ![x].at = end]
  BY DEF ClickEnd, TypeOK, TabState, RunOrNone
<1>2. tx[x].at = "open" /\ tx[x].tab = t
  BY <1>1, NoRunIsNone DEF Begins
<1>3. /\ \A u \in Tab \ {t} : tab'[u] = tab[u]
      /\ tab'[t].open = tab[t].open /\ tab'[t].run = tab[t].run /\ tab'[t].tx = NoRun
  BY <1>1 DEF ClickEnd, TabState
<1>4. /\ Exclusive' /\ OnSessions' /\ Cancels' /\ Remembered' /\ Truthful'
      /\ tx'[x].at = end /\ \A y \in Run \ {x} : tx'[y] = tx[y]
  BY <1>1, <1>2, EndAsked
<1>5. TabRuns'
  BY <1>1, <1>3 DEF TabRuns, TypeOK, RunState
<1>6. \A r \in Run : run[r].at = "begin" => run[r].tab # t /\ r # x
  BY <1>1, <1>2, NoRunIsNone DEF TabRuns, Begins
<1>7. \A u \in Tab \ {t} : tab[u].tx # x
  BY <1>2, <1>1, NoRunIsNone DEF Begins
<1>8. Begins'
  BY <1>1, <1>2, <1>3, <1>4, <1>6, <1>7 DEF Begins, TypeOK, RunState, TabState, RunOrNone
<1>9. NothingLeftOpen'
  BY <1>1, <1>2, <1>3, <1>4 DEF NothingLeftOpen, TypeOK, TxState
<1> QED BY <1>4, <1>5, <1>8, <1>9

LEMMA CloseKeeps ==
    ASSUME Inv, NEW t \in Tab, Close(t), TypeOK'
    PROVE  Inv'
<1> USE DEF Inv
<1> DEFINE x == tab[t].tx
<1>1. /\ UNCHANGED <<run, cancel, free>> /\ x \in RunOrNone /\ tab \in [Tab -> TabState]
      /\ hasty \subseteq hasty' /\ (Beginning(t) => t \in hasty')
  BY DEF Close, TypeOK, TabState
<1>2. /\ \A u \in Tab \ {t} : tab'[u] = tab[u]
      /\ tab'[t].run = tab[t].run /\ tab'[t].tx = NoRun
  BY <1>1 DEF Close, TabState
<1>3. TabRuns'
  BY <1>1, <1>2 DEF TabRuns, TypeOK, RunState
<1>4. \A r \in Run : run[r].at = "begin" /\ run[r].tab = t => t \in hasty'
  BY <1>1, NoRunIsNone DEF Beginning, TabRuns
<1>5. CASE x = NoRun
  <2>1. tx' = tx
    BY <1>5 DEF Close
  <2>2. Exclusive' /\ OnSessions' /\ Cancels' /\ Remembered' /\ Truthful'
    BY <1>1, <2>1 DEF Exclusive, Users, Uses, RunUses, TxUses, OnSessions, Cancels, Remembered, Truthful,
                      Held, Registered, Locking, InStatement
  <2>3. Begins'
    BY <1>1, <1>2, <1>4, <2>1 DEF Begins, TypeOK, RunState
  <2>4. NothingLeftOpen'
    BY <1>1, <1>2, <1>5, <2>1, NoRunIsNone DEF NothingLeftOpen, TypeOK, TxState
  <2> QED BY <1>3, <2>2, <2>3, <2>4
<1>6. CASE x # NoRun
  <2>1. x \in Run /\ tx' = [tx EXCEPT ![x].at = "rollback"]
    BY <1>1, <1>6 DEF Close, RunOrNone
  <2>2. tx[x].at = "open" /\ tx[x].tab = t
    BY <1>6 DEF Begins
  <2>3. /\ Exclusive' /\ OnSessions' /\ Cancels' /\ Remembered' /\ Truthful'
        /\ tx'[x].at = "rollback" /\ \A y \in Run \ {x} : tx'[y] = tx[y]
    BY <1>1, <2>1, <2>2, EndAsked
  <2>4. \A r \in Run : run[r].at = "begin" => r # x
    BY <2>2 DEF Begins
  <2>5. \A u \in Tab \ {t} : tab[u].tx # x
    BY <2>2, <1>6 DEF Begins
  <2>6. Begins'
    BY <1>1, <1>2, <1>4, <2>2, <2>3, <2>4, <2>5 DEF Begins, TypeOK, RunState, TabState, RunOrNone
  <2>7. NothingLeftOpen'
    BY <1>1, <1>2, <2>1, <2>2, <2>3 DEF NothingLeftOpen, TypeOK, TxState
  <2> QED BY <1>3, <2>3, <2>6, <2>7
<1> QED BY <1>5, <1>6

LEMMA ClickRunKeeps ==
    ASSUME Inv, NEW t \in Tab, NEW r \in Run, ClickRun(t, r), TypeOK'
    PROVE  Inv'
<1> USE DEF Inv
<1>1. /\ UNCHANGED <<tx, cancel, free, hasty>> /\ run[r].at = "none" /\ tab[t].run = NoRun
      /\ tab[t].open /\ tab \in [Tab -> TabState] /\ run \in [Run -> RunState]
  BY DEF ClickRun, TypeOK
<1>2. /\ \A u \in Tab \ {t} : tab'[u] = tab[u]
      /\ tab'[t].open = tab[t].open /\ tab'[t].mode = tab[t].mode /\ tab'[t].run = r
      /\ tab'[t].tx = tab[t].tx
  BY <1>1 DEF ClickRun, TabState
<1>3. /\ \A q \in Run \ {r} : run'[q] = run[q]
      /\ run'[r].at \in {"begin", "call"} /\ run'[r].tab = t /\ run'[r].tx = tab[t].tx
      /\ run'[r].at = "begin" => tab[t].mode = "manual" /\ tab[t].tx = NoRun
  BY <1>1 DEF ClickRun, RunState
<1>4. \A q \in Run : /\ Registered(q)' = Registered(q) /\ InStatement(q)' = InStatement(q)
                     /\ Registered(q) => run'[q] = run[q]
  BY <1>1, <1>3 DEF Registered, InStatement
<1>5. Still
  BY <1>1, <1>4 DEF Still, RunUses, TxUses, Held
<1>6. \A y \in Run : Locking(y)' = Locking(y)
  BY <1>4 DEF Locking
<1>7. OnSessions'
  <2>1. \A q \in Run : Held(q)' = Held(q)
    BY <1>1 DEF Held
  <2>2. \A q \in Run : Registered(q) /\ run[q].tx # NoRun => run[q].tx \in Run
    BY <1>1 DEF RunState, RunOrNone
  <2> QED BY <1>1, <1>4, <1>6, <2>1, <2>2 DEF OnSessions
<1>8. Cancels'
  <2>1. cancel[r].at = "none"
    BY <1>1 DEF Cancels, Registered
  <2> QED BY <1>1, <1>3, <1>4, <2>1 DEF Cancels
<1>9. TabRuns'
  BY <1>1, <1>2, <1>3, NoRunIsNone DEF TabRuns, TypeOK, RunState
<1>10. Begins'
  <2>1. \A q \in Run : run'[q].at \in {"none", "begin"} => run[q].at \in {"none", "begin"}
    BY <1>1, <1>3
  <2>2. \A q \in Run : run'[q].at \in {"none", "begin"} => tx'[q].at = "none"
    BY <1>1, <2>1 DEF Begins
  <2>3. \A q \in Run \ {r} : run[q].at = "begin" => run[q].tab \in Tab \ {t}
    BY <1>1, NoRunIsNone DEF TabRuns, RunState
  <2>4. \A q \in Run : run'[q].at = "begin" =>
            /\ run'[q].tx = NoRun /\ tab'[run'[q].tab].tx = NoRun
            /\ run'[q].tab \notin hasty' => tab'[run'[q].tab].open /\ tab'[run'[q].tab].mode = "manual"
    <3>1. ASSUME NEW q \in Run \ {r}, run'[q].at = "begin"
          PROVE  /\ run'[q].tx = NoRun /\ tab'[run'[q].tab].tx = NoRun
                 /\ run'[q].tab \notin hasty' => tab'[run'[q].tab].open /\ tab'[run'[q].tab].mode = "manual"
      BY <1>1, <1>2, <1>3, <2>3, <3>1 DEF Begins
    <3> QED BY <1>1, <1>2, <1>3, <3>1
  <2>5. \A u \in Tab : tab'[u].tx # NoRun => tx'[tab'[u].tx].at = "open" /\ tx'[tab'[u].tx].tab = u
    BY <1>1, <1>2 DEF Begins
  <2> QED BY <2>2, <2>4, <2>5 DEF Begins
<1>11. Remembered'
  <2>1. \A q \in Run : run'[q].at = "outcome" => run'[q] = run[q] /\ run[q].at = "outcome"
    BY <1>3
  <2>2. \A x \in Run : \A q \in Locking(x) : run'[q] = run[q]
    BY <1>4 DEF Locking
  <2> QED BY <1>1, <1>6, <2>1, <2>2 DEF Remembered
<1>12. NothingLeftOpen' /\ Truthful'
  <2>1. \A x \in Run : tx[x].tab \in Tab
    BY DEF TypeOK, TxState
  <2>2. \A u \in Tab : /\ tab'[u].open = tab[u].open /\ tab'[u].mode = tab[u].mode
                       /\ tab'[u].tx = tab[u].tx
    BY <1>2
  <2>3. tx' = tx /\ hasty' = hasty
    BY <1>1
  <2>4. NothingLeftOpen'
    BY <2>1, <2>2, <2>3 DEF NothingLeftOpen
  <2> QED BY <2>3, <2>4 DEF Truthful
<1> QED BY <1>5, <1>7, <1>8, <1>9, <1>10, <1>11, <1>12, ExclusiveStill

LEMMA ClickCancelKeeps ==
    ASSUME Inv, NEW t \in Tab, NEW r \in Run, ClickCancel(t, r), TypeOK'
    PROVE  Inv'
<1> USE DEF Inv
<1>1. /\ UNCHANGED <<tab, run, tx, free, hasty>> /\ cancel[r].at = "none" /\ Registered(r)
      /\ cancel \in [Run -> CancelState]
  BY DEF ClickCancel, TypeOK
<1>2. /\ \A q \in Run \ {r} : cancel'[q] = cancel[q]
      /\ cancel'[r].at = "acquire" /\ cancel'[r].pid = run[r].session
      /\ cancel'[r].session = cancel[r].session
  BY <1>1 DEF ClickCancel, CancelState
<1>3. cancel[r].session = NoSession
  BY <1>1 DEF Cancels
<1>4. Still
  BY <1>1, <1>2 DEF Still, RunUses, TxUses, Held, Registered
<1>5. Cancels'
  BY <1>1, <1>2, <1>3 DEF Cancels, Registered, InStatement
<1>6. OnSessions' /\ TabRuns' /\ Begins' /\ Remembered' /\ Truthful' /\ NothingLeftOpen'
  BY <1>1 DEF OnSessions, TabRuns, Begins, Remembered, Truthful, NothingLeftOpen, Held, Registered, Locking
<1> QED BY <1>4, <1>5, <1>6, ExclusiveStill

-----------------------------------------------------------------------------
(* The steps of a run. *)

LEMMA OverIs ==
    ASSUME TypeOK, NEW r \in Run, Over(r)
    PROVE  /\ run'[r].at = "over" /\ run'[r].tx = NoRun /\ run[r].tab \in Tab
           /\ \A q \in Run \ {r} : run'[q] = run[q]
           /\ \A t \in Tab \ {run[r].tab} : tab'[t] = tab[t]
           /\ LET t == run[r].tab
              IN  /\ tab'[t].open = tab[t].open /\ tab'[t].mode = tab[t].mode
                  /\ tab'[t].tx = tab[t].tx /\ tab'[t].run = NoRun
<1>1. /\ tab \in [Tab -> TabState] /\ run \in [Run -> RunState] /\ run[r].tab \in Tab
  BY DEF TypeOK, RunState
<1>2. run' = [run EXCEPT ![r] = [NewRun EXCEPT !.at = "over"]]
  BY DEF Over
<1>3. [NewRun EXCEPT !.at = "over"].at = "over" /\ [NewRun EXCEPT !.at = "over"].tx = NoRun
  BY DEF NewRun
<1>4. tab' = [tab EXCEPT ![run[r].tab].run = NoRun]
  BY DEF Over
<1>5. tab'[run[r].tab] = [tab[run[r].tab] EXCEPT !.run = NoRun] /\ tab[run[r].tab] \in TabState
  BY <1>1, <1>4
<1> QED BY <1>1, <1>2, <1>3, <1>4, <1>5 DEF TabState

\* What is over leaves its tab as it was, and no transaction begins there.
LEMMA OverTabs ==
    ASSUME Inv, NEW r \in Run, Over(r), run[r].at \notin {"none", "over"}, UNCHANGED hasty,
           \A x \in Run : tx'[x].at = tx[x].at /\ tx'[x].tab = tx[x].tab
    PROVE  TabRuns' /\ Begins' /\ NothingLeftOpen'
<1> USE DEF Inv
<1> DEFINE t == run[r].tab
<1>1. /\ run'[r].at = "over" /\ t \in Tab
      /\ \A q \in Run \ {r} : run'[q] = run[q]
      /\ \A u \in Tab \ {t} : tab'[u] = tab[u]
      /\ tab'[t].open = tab[t].open /\ tab'[t].mode = tab[t].mode /\ tab'[t].tx = tab[t].tx
  BY OverIs
<1>2. \A u \in Tab : tab'[u].open = tab[u].open /\ tab'[u].mode = tab[u].mode /\ tab'[u].tx = tab[u].tx
  BY <1>1
<1>3. \A q \in Run \ {r} : run[q].at \notin {"none", "over"} => run[q].tab # t
  BY DEF TabRuns
<1>4. \A q \in Run : run[q].tab \in Tab /\ tx[q].tab \in Tab
  BY DEF TypeOK, RunState, TxState
<1>5. NothingLeftOpen'
  BY <1>2, <1>4 DEF NothingLeftOpen
<1>6. \A u \in Tab : tab[u].tx \in RunOrNone
  BY DEF TypeOK, TabState
<1>7. Begins'
  <2>1. \A q \in Run : run'[q].at \in {"none", "begin"} => tx'[q].at = "none" /\ run'[q] = run[q]
    BY <1>1 DEF Begins
  <2>2. \A u \in Tab : tab'[u].tx # NoRun => tx'[tab'[u].tx].at = "open" /\ tx'[tab'[u].tx].tab = u
    BY <1>2, <1>6 DEF Begins, RunOrNone
  <2> QED BY <1>1, <1>2, <1>4, <2>1, <2>2 DEF Begins
<1> QED BY <1>1, <1>3, <1>4, <1>5, <1>7 DEF TabRuns

\* What is over locks no transaction, nor does a Cancel that signals for it.
LEMMA OverSessions ==
    ASSUME Inv, NEW r \in Run, Over(r), run[r].at # "none", ~HoldsStatement(r), UNCHANGED cancel,
           \A x \in Run : Held(x)' = Held(x) /\ tx'[x].session = tx[x].session
    PROVE  /\ OnSessions' /\ Cancels'
           /\ \A x \in Run : Locking(x)' = Locking(x) \ {r}
           /\ \A q \in Run \ {r} : Registered(q)' = Registered(q)
           /\ ~Registered(r)'
<1> USE DEF Inv
<1>1. run'[r].at = "over" /\ \A q \in Run \ {r} : run'[q] = run[q]
  BY OverIs
<1>2. /\ \A q \in Run \ {r} : Registered(q)' = Registered(q) /\ InStatement(q)' = InStatement(q)
      /\ ~Registered(r)' /\ ~InStatement(r)'
  BY <1>1 DEF Registered, InStatement
<1>3. \A x \in Run : Locking(x)' = Locking(x) \ {r}
  BY <1>1, <1>2 DEF Locking
<1>4. \A q \in Run : run[q].tx \in RunOrNone
  BY DEF TypeOK, RunState
<1>5. OnSessions'
  BY <1>1, <1>2, <1>3, <1>4 DEF OnSessions, RunOrNone
<1>6. Cancels'
  BY <1>1, <1>2 DEF Cancels, HoldsStatement
<1> QED BY <1>2, <1>3, <1>5, <1>6

\* A run that ends lets its session go, if it is its own.
LEMMA LetGoKeeps ==
    ASSUME Inv, NEW r \in Run, Registered(r), Over(r), LetGo(r), ~HoldsStatement(r), UNCHANGED cancel,
           \A x \in Run : Held(x)' = Held(x) /\ tx'[x].session = tx[x].session
    PROVE  Exclusive'
<1> USE DEF Inv
<1>1. /\ \A q \in Run \ {r} : Registered(q)' = Registered(q) /\ run'[q] = run[q]
      /\ ~Registered(r)'
  BY OverSessions, OverIs DEF Registered
<1>2. Only(<<"run", r>>)
  BY <1>1, OnlyRun DEF RunUses, TxUses
<1>3. Uses(<<"run", r>>)' = NoSession
  BY <1>1, UsesAre DEF RunUses
<1>4. free' = free \cup ({Uses(<<"run", r>>)} \ {NoSession})
  <2>1. CASE run[r].tx = NoRun
    BY <2>1, UsesAre DEF LetGo, RunUses, OnSessions
  <2>2. CASE run[r].tx # NoRun
    BY <2>2, UsesAre DEF LetGo, RunUses
  <2> QED BY <2>1, <2>2
<1> QED BY <1>2, <1>3, <1>4, UsesAre, ExclusiveKept

LEMMA BeginKeeps ==
    ASSUME Inv, NEW r \in Run, Begin(r), TypeOK'
    PROVE  Inv'
<1> USE DEF Inv
<1>1. run[r].at = "begin" /\ UNCHANGED <<cancel, hasty>> /\ ~Registered(r) /\ ~HoldsStatement(r)
  BY DEF Begin, Registered, HoldsStatement, Cancels, InStatement
<1>2. CASE Over(r) /\ UNCHANGED <<tx, free>>
  <2>1. TabRuns' /\ Begins' /\ NothingLeftOpen'
    BY <1>1, <1>2, OverTabs
  <2>2. /\ OnSessions' /\ Cancels' /\ \A x \in Run : Locking(x)' = Locking(x) \ {r}
        /\ \A q \in Run \ {r} : Registered(q)' = Registered(q)
        /\ ~Registered(r)'
    BY <1>1, <1>2, OverSessions DEF Held
  <2>3. run'[r].at = "over" /\ \A q \in Run \ {r} : run'[q] = run[q]
    BY <1>2, OverIs
  <2>4. Still
    BY <1>1, <1>2, <2>2, <2>3 DEF Still, RunUses, TxUses, Held
  <2>5. \A x \in Run : Locking(x)' = Locking(x)
    BY <1>1, <2>2 DEF Locking
  <2>6. Remembered' /\ Truthful'
    BY <1>1, <1>2, <2>3, <2>5 DEF Remembered, Truthful, Locking, Registered
  <2> QED BY <2>1, <2>2, <2>4, <2>6, ExclusiveStill
<1>3. CASE /\ Take
           /\ tx' = [tx EXCEPT ![r].at = "open", ![r].tab = run[r].tab, ![r].session = FreeSession]
           /\ tab' = [tab EXCEPT ![run[r].tab].tx = r]
           /\ run' = [run EXCEPT ![r].at = "call", ![r].tx = r]
  <2> DEFINE t == run[r].tab
  <2>1. /\ t \in Tab /\ tab[t].tx = NoRun /\ tab[t].run = r /\ tx[r].at = "none"
        /\ t \notin hasty => tab[t].open /\ tab[t].mode = "manual"
    BY <1>1 DEF Begins, TabRuns, TypeOK, RunState
  <2>2. /\ \A q \in Run \ {r} : run'[q] = run[q]
        /\ run'[r].at = "call" /\ run'[r].tx = r /\ run'[r].tab = t
    BY <1>3 DEF TypeOK, RunState
  <2>3. /\ \A x \in Run \ {r} : tx'[x] = tx[x]
        /\ tx'[r].at = "open" /\ tx'[r].tab = t /\ tx'[r].session = FreeSession
        /\ tx'[r].failed = tx[r].failed /\ tx'[r].aborted = tx[r].aborted
        /\ tx'[r].done = tx[r].done /\ tx'[r].reported = tx[r].reported
    BY <1>3 DEF TypeOK, TxState
  <2>4. /\ \A u \in Tab \ {t} : tab'[u] = tab[u]
        /\ tab'[t].open = tab[t].open /\ tab'[t].mode = tab[t].mode /\ tab'[t].run = r /\ tab'[t].tx = r
    BY <1>3, <2>1 DEF TypeOK, TabState
  <2>5. free # {} /\ free' = free \ {FreeSession} /\ FreeSession # NoSession
    BY <1>3, FreeIsFree, ConstantsAssumption DEF Take, TypeOK
  <2>6. \A q \in Run : Registered(q)' = Registered(q) /\ InStatement(q)' = InStatement(q)
    BY <1>1, <2>2 DEF Registered, InStatement
  <2>7. /\ \A x \in Run \ {r} : Held(x)' = Held(x)
        /\ ~Held(r) /\ Held(r)'
    BY <2>1, <2>3 DEF Held
  <2>8. \A x \in Run : Locking(x)' = Locking(x)
    BY <1>1, <2>2, <2>6 DEF Locking
  <2>9. Exclusive'
    <3>1. Only(<<"tx", r>>)
      BY <1>1, <2>2, <2>3, <2>6, <2>7, OnlyTx DEF RunUses, TxUses
    <3>2. Uses(<<"tx", r>>)' = FreeSession
      BY <2>3, <2>7, UsesAre DEF TxUses
    <3> QED BY <2>5, <3>1, <3>2, UsesAre, ExclusiveKept
  <2>10. \A q \in Run : run[q].tx \in RunOrNone /\ run[q].tab \in Tab /\ tx[q].tab \in Tab
    BY DEF TypeOK, RunState, TxState
  <2>11. OnSessions'
    BY <1>1, <2>2, <2>3, <2>5, <2>6, <2>7, <2>8, <2>10 DEF OnSessions, RunOrNone
  <2>12. Cancels'
    BY <1>1, <2>2, <2>6 DEF Cancels
  <2>13. TabRuns'
    BY <1>1, <2>1, <2>2, <2>4, <2>10 DEF TabRuns
  <2>14. \A q \in Run \ {r} : run[q].at = "begin" => run[q].tab # t
    BY <2>1 DEF TabRuns
  <2>15. \A u \in Tab \ {t} : tab[u].tx # r
    BY <2>1 DEF Begins, NoRun, Run
  <2>16. \A u \in Tab : tab[u].tx \in RunOrNone
    BY DEF TypeOK, TabState
  <2>17. Begins'
    <3>1. \A q \in Run : run'[q].at \in {"none", "begin"} => q # r /\ tx'[q].at = "none"
      BY <2>2, <2>3 DEF Begins
    <3>2. \A u \in Tab : tab'[u].tx # NoRun => tx'[tab'[u].tx].at = "open" /\ tx'[tab'[u].tx].tab = u
      <4> TAKE u \in Tab
      <4>1. CASE u = t
        BY <2>3, <2>4, <4>1
      <4>2. CASE u # t
        BY <2>3, <2>4, <2>15, <2>16, <4>2 DEF Begins, RunOrNone
      <4> QED BY <4>1, <4>2
    <3>3. \A q \in Run : run'[q].at = "begin" =>
              /\ run'[q].tx = NoRun /\ tab'[run'[q].tab].tx = NoRun
              /\ run'[q].tab \notin hasty' => tab'[run'[q].tab].open /\ tab'[run'[q].tab].mode = "manual"
      BY <1>1, <2>2, <2>4, <2>10, <2>14 DEF Begins
    <3> QED BY <3>1, <3>2, <3>3 DEF Begins
  <2>18. Remembered' /\ Truthful'
    BY <2>2, <2>3, <2>8, <2>10, <1>1 DEF Remembered, Truthful, Locking, Registered, RunOrNone
  <2>19. NothingLeftOpen'
    <3> SUFFICES ASSUME NEW x \in Run, tx'[x].at = "open", tx'[x].tab \notin hasty'
                 PROVE  tab'[tx'[x].tab].open /\ tab'[tx'[x].tab].tx = x /\ tab'[tx'[x].tab].mode = "manual"
      BY DEF NothingLeftOpen
    <3>1. CASE x = r
      BY <1>1, <2>1, <2>3, <2>4, <3>1
    <3>2. CASE x # r
      <4>1. tab[tx[x].tab].open /\ tab[tx[x].tab].tx = x /\ tab[tx[x].tab].mode = "manual" /\ tx'[x] = tx[x]
        BY <1>1, <2>3, <3>2 DEF NothingLeftOpen
      <4>2. tx[x].tab # t
        BY <2>1, <4>1, NoRunIsNone
      <4> QED BY <2>4, <2>10, <4>1, <4>2
    <3> QED BY <3>1, <3>2
  <2> QED BY <2>9, <2>11, <2>12, <2>13, <2>17, <2>18, <2>19
<1> QED BY <1>2, <1>3 DEF Begin

LEMMA CallKeeps ==
    ASSUME Inv, NEW r \in Run, Call(r), TypeOK'
    PROVE  Inv'
<1> USE DEF Inv
<1>1. /\ run[r].at = "call" /\ UNCHANGED <<tab, tx, cancel, hasty>> /\ ~Registered(r)
      /\ cancel[r].at = "none"
  BY DEF Call, Registered, Cancels
<1>2. \E s : run' = [run EXCEPT ![r].at = "start", ![r].session = s]
  BY DEF Call
<1>3. /\ \A q \in Run \ {r} : run'[q] = run[q]
      /\ run'[r].at = "start" /\ run'[r].tx = run[r].tx /\ run'[r].tab = run[r].tab
  BY <1>2 DEF TypeOK, RunState
<1>4. /\ \A q \in Run \ {r} : Registered(q)' = Registered(q) /\ InStatement(q)' = InStatement(q)
      /\ Registered(r)'
  BY <1>3 DEF Registered, InStatement
<1>5. \A q \in Run : run[q].tx \in RunOrNone /\ run[q].tab \in Tab
  BY DEF TypeOK, RunState
<1>6. \A x \in Run : Held(x)' = Held(x) /\ TxUses(x)' = TxUses(x)
  BY <1>1 DEF Held, TxUses
<1>7. \A q \in Run \ {r} : RunUses(q)' = RunUses(q)
  BY <1>3, <1>4 DEF RunUses
<1>8. Only(<<"run", r>>)
  BY <1>1, <1>6, <1>7, OnlyRun
<1>9. Exclusive' /\ OnSessions'
  <2>1. CASE run[r].tx = NoRun /\ Take /\ run' = [run EXCEPT ![r].at = "start", ![r].session = FreeSession]
    <3>1. free # {} /\ free' = free \ {FreeSession} /\ FreeSession # NoSession
      BY <2>1, FreeIsFree, ConstantsAssumption DEF Take, TypeOK
    <3>2. run'[r].session = FreeSession
      BY <2>1 DEF TypeOK, RunState
    <3>3. Uses(<<"run", r>>)' = FreeSession
      BY <1>3, <1>4, <2>1, <3>2, UsesAre DEF RunUses
    <3>4. \A x \in Run : Locking(x)' = Locking(x)
      BY <1>1, <1>3, <1>4, <2>1, NoRunIsNone DEF Locking
    <3>5. OnSessions'
      BY <1>1, <1>3, <1>4, <1>5, <1>6, <2>1, <3>1, <3>2, <3>4 DEF OnSessions, RunOrNone
    <3> QED BY <1>8, <3>1, <3>3, <3>5, UsesAre, ExclusiveKept
  <2>2. CASE /\ run[r].tx # NoRun /\ Held(run[r].tx)
             /\ ~tx[run[r].tx].aborted /\ Locking(run[r].tx) = {}
             /\ run' = [run EXCEPT ![r].at = "start", ![r].session = tx[run[r].tx].session]
             /\ UNCHANGED free
    <3>1. run[r].tx \in Run /\ tx[run[r].tx].session # NoSession
      BY <1>5, <2>2 DEF RunOrNone, OnSessions
    <3>2. run'[r].session = tx[run[r].tx].session
      BY <2>2 DEF TypeOK, RunState
    <3>3. RunUses(r)' = RunUses(r)
      BY <1>3, <2>2 DEF RunUses
    <3>4. /\ \A x \in Run \ {run[r].tx} : Locking(x)' = Locking(x)
          /\ Locking(run[r].tx)' = {r}
      <4>1. \A x \in Run \ {run[r].tx} : Locking(x)' = Locking(x)
        BY <1>1, <1>3, <1>4 DEF Locking
      <4>2. \A q \in Run \ {r} : Registered(q) => run[q].tx # run[r].tx
        BY <2>2 DEF Locking
      <4>3. Locking(run[r].tx)' = {r}
        BY <1>3, <1>4, <4>2 DEF Locking
      <4> QED BY <4>1, <1>3, <4>3
    <3>5. OnSessions'
      <4>1. \A q \in Run \ {r} : Registered(q) => run[q].tx # run[r].tx
        BY <2>2 DEF Locking
      <4>2. \A q \in Run : Registered(q)' => run'[q].session # NoSession
        BY <1>3, <1>4, <3>1, <3>2 DEF OnSessions
      <4>3. \A x \in Run : Held(x)' => tx'[x].session # NoSession
        BY <1>1, <1>6 DEF OnSessions
      <4>4. ASSUME NEW q \in Run, Registered(q)', run'[q].tx # NoRun
            PROVE  /\ Held(run[q].tx)' /\ run'[q].session = tx'[run'[q].tx].session
                   /\ Locking(run[q].tx)' = {q}
        <5>1. CASE q = r
          BY <1>1, <1>3, <1>6, <2>2, <3>1, <3>2, <3>4, <5>1
        <5>2. CASE q # r
          <6>1. Registered(q) /\ run'[q] = run[q] /\ run[q].tx \in Run \ {run[r].tx}
            BY <1>3, <1>4, <1>5, <4>1, <4>4, <5>2 DEF RunOrNone
          <6> QED BY <1>1, <1>6, <3>4, <4>4, <6>1 DEF OnSessions
        <5> QED BY <5>1, <5>2
      <4> QED BY <4>2, <4>3, <4>4 DEF OnSessions
    <3>6. Still
      BY <1>1, <1>6, <1>7, <2>2, <3>3 DEF Still
    <3> QED BY <3>5, <3>6, ExclusiveStill
  <2> QED BY <2>1, <2>2 DEF Call
<1>10. Cancels'
  BY <1>1, <1>3, <1>4 DEF Cancels
<1>11. TabRuns' /\ NothingLeftOpen' /\ Truthful'
  BY <1>1, <1>3 DEF TabRuns, NothingLeftOpen, Truthful
<1>12. Begins'
  BY <1>1, <1>3 DEF Begins
<1>13. Remembered'
  <2>1. \A q \in Run : run'[q].at = "outcome" => run'[q] = run[q]
    BY <1>3
  <2>2. \A x \in Run : \A q \in Locking(x) : q \in Locking(x)' /\ run'[q] = run[q]
    BY <1>1, <1>3, <1>4 DEF Locking
  <2>3. tx' = tx
    BY <1>1
  <2> QED BY <2>1, <2>2, <2>3 DEF Remembered
<1> QED BY <1>9, <1>10, <1>11, <1>12, <1>13

\* What a failed statement, or one reported, changes in its transaction.
LEMMA FailIs ==
    ASSUME TypeOK, NEW x \in RunOrNone, FailTx(x)
    PROVE  /\ \A y \in Run : /\ tx'[y].at = tx[y].at /\ tx'[y].tab = tx[y].tab
                             /\ tx'[y].session = tx[y].session /\ tx'[y].done = tx[y].done
                             /\ tx'[y].reported = tx[y].reported
           /\ \A y \in Run \ {x} : tx'[y] = tx[y]
           /\ x \in Run => tx'[x].failed
<1>1. CASE x = NoRun
  BY <1>1, NoRunIsNone DEF FailTx
<1>2. CASE x \in Run
  <2>1. tx' = [tx EXCEPT ![x] = [tx[x] EXCEPT !.failed = TRUE, !.aborted = TRUE]]
    BY <1>2, NoRunIsNone DEF FailTx
  <2>2. tx \in [Run -> TxState] /\ tx[x] \in TxState
    BY <1>2 DEF TypeOK
  <2>3. tx'[x] = [tx[x] EXCEPT !.failed = TRUE, !.aborted = TRUE] /\ \A y \in Run \ {x} : tx'[y] = tx[y]
    BY <1>2, <2>1, <2>2
  <2> QED BY <1>2, <2>2, <2>3 DEF TxState
<1> QED BY <1>1, <1>2 DEF RunOrNone

LEMMA ReportIs ==
    ASSUME TypeOK, NEW r \in Run, Reported(r)
    PROVE  /\ \A y \in Run : /\ tx'[y].at = tx[y].at /\ tx'[y].tab = tx[y].tab
                             /\ tx'[y].session = tx[y].session /\ tx'[y].done = tx[y].done
                             /\ tx'[y].failed = tx[y].failed /\ tx'[y].aborted = tx[y].aborted
           /\ \A y \in Run \ {run[r].tx} : tx'[y] = tx[y]
           /\ run[r].tx \in Run => tx'[run[r].tx].reported = tx[run[r].tx].reported \cup {r}
<1>1. CASE run[r].tx = NoRun
  BY <1>1, NoRunIsNone DEF Reported
<1>2. CASE run[r].tx \in Run
  <2> DEFINE x == run[r].tx
  <2>1. tx' = [tx EXCEPT ![x] = [tx[x] EXCEPT !.reported = tx[x].reported \cup {r}]]
    BY <1>2, NoRunIsNone DEF Reported
  <2>2. tx \in [Run -> TxState] /\ tx[x] \in TxState
    BY <1>2 DEF TypeOK
  <2>3. /\ tx'[x] = [tx[x] EXCEPT !.reported = tx[x].reported \cup {r}]
        /\ \A y \in Run \ {x} : tx'[y] = tx[y]
    BY <1>2, <2>1, <2>2
  <2> QED BY <1>2, <2>2, <2>3 DEF TxState
<1> QED BY <1>1, <1>2 DEF RunOrNone, TypeOK, RunState

LEMMA CallFailsKeeps ==
    ASSUME Inv, NEW r \in Run, CallFails(r), TypeOK'
    PROVE  Inv'
<1> USE DEF Inv
<1>1. /\ run[r].at = "call" /\ Over(r) /\ UNCHANGED <<cancel, free, hasty>>
      /\ ~Registered(r) /\ ~HoldsStatement(r) /\ run[r].tx \in RunOrNone
  BY DEF CallFails, Registered, HoldsStatement, Cancels, InStatement, TypeOK, RunState
<1>2. /\ \A y \in Run : /\ tx'[y].at = tx[y].at /\ tx'[y].tab = tx[y].tab
                        /\ tx'[y].session = tx[y].session /\ tx'[y].done = tx[y].done
                        /\ tx'[y].reported = tx[y].reported
      /\ \A y \in Run : tx'[y] = tx[y] \/ tx'[y].failed
  BY <1>1, FailIs DEF CallFails
<1>3. TabRuns' /\ Begins' /\ NothingLeftOpen'
  BY <1>1, <1>2, OverTabs
<1>4. /\ OnSessions' /\ Cancels' /\ \A x \in Run : Locking(x)' = Locking(x) \ {r}
      /\ \A q \in Run \ {r} : Registered(q)' = Registered(q)
      /\ ~Registered(r)' /\ \A x \in Run : Held(x)' = Held(x)
  BY <1>1, <1>2, OverSessions DEF Held
<1>5. run'[r].at = "over" /\ \A q \in Run \ {r} : run'[q] = run[q]
  BY <1>1, OverIs
<1>6. Still
  BY <1>1, <1>2, <1>4, <1>5 DEF Still, RunUses, TxUses
<1>7. \A x \in Run : Locking(x)' = Locking(x)
  BY <1>1, <1>4 DEF Locking
<1>8. Remembered'
  <2>1. \A x \in Run : \A q \in Locking(x) : run'[q] = run[q]
    BY <1>1, <1>5 DEF Locking
  <2>2. \A q \in Run : run[q].tx \in RunOrNone
    BY DEF TypeOK, RunState
  <2>3. \A q \in Run : run'[q].at = "outcome" => run'[q] = run[q]
    BY <1>5
  <2> QED BY <1>2, <1>7, <2>1, <2>2, <2>3 DEF Remembered, RunOrNone
<1>9. Truthful'
  BY <1>2 DEF Truthful
<1> QED BY <1>3, <1>4, <1>6, <1>8, <1>9, ExclusiveStill

\* A run that goes on, with its session, in its transaction.
GoesOn(r) ==
    /\ \A q \in Run \ {r} : run'[q] = run[q]
    /\ run'[r].tx = run[r].tx /\ run'[r].tab = run[r].tab /\ run'[r].session = run[r].session
    /\ Registered(r) /\ Registered(r)' /\ (InStatement(r) => InStatement(r)')
    /\ UNCHANGED <<tab, hasty>>
    /\ \A x \in Run : tx'[x].at = tx[x].at /\ tx'[x].session = tx[x].session /\ tx'[x].tab = tx[x].tab

LEMMA GoesOnKeeps ==
    ASSUME Inv, NEW r \in Run, GoesOn(r)
    PROVE  /\ OnSessions' /\ TabRuns' /\ Begins' /\ NothingLeftOpen'
           /\ \A q \in Run : RunUses(q)' = RunUses(q) /\ TxUses(q)' = TxUses(q)
           /\ \A x \in Run : Locking(x)' = Locking(x)
           /\ cancel' = cancel => Cancels'
<1> USE DEF Inv
<1>1. \A q \in Run : /\ Registered(q)' = Registered(q) /\ (InStatement(q) => InStatement(q)')
                     /\ run'[q].tx = run[q].tx /\ run'[q].session = run[q].session
                     /\ run'[q].tab = run[q].tab
  BY DEF GoesOn, Registered, InStatement
<1>2. \A x \in Run : Held(x)' = Held(x) /\ tx'[x].session = tx[x].session
  BY DEF GoesOn, Held
<1>3. \A x \in Run : Locking(x)' = Locking(x)
  BY <1>1 DEF Locking
<1>4. \A q \in Run : run[q].tx \in RunOrNone /\ run[q].tab \in Tab
  BY DEF TypeOK, RunState
<1>5. OnSessions'
  BY <1>1, <1>2, <1>3, <1>4 DEF OnSessions, RunOrNone
<1>6. TabRuns'
  BY <1>1 DEF GoesOn, TabRuns, Registered
<1>7. \A q \in Run : run'[q].at \in {"none", "begin"} => run'[q] = run[q]
  BY DEF GoesOn, Registered
<1>8. \A t \in Tab : tab[t].tx \in RunOrNone
  BY DEF TypeOK, TabState
<1>9. Begins'
  BY <1>7, <1>8 DEF GoesOn, Begins, RunOrNone
<1>10. NothingLeftOpen'
  BY DEF GoesOn, NothingLeftOpen
<1>11. cancel' = cancel => Cancels'
  BY <1>1 DEF Cancels, GoesOn, Registered
<1> QED BY <1>1, <1>2, <1>3, <1>5, <1>6, <1>9, <1>10, <1>11 DEF RunUses, TxUses

LEMMA StartKeeps ==
    ASSUME Inv, NEW r \in Run, Start(r), TypeOK'
    PROVE  Inv'
<1> USE DEF Inv
<1>1. run[r].at = "start" /\ UNCHANGED <<tx, cancel, hasty>> /\ Registered(r) /\ ~HoldsStatement(r)
  BY DEF Start, Registered
<1>2. CASE Over(r) /\ LetGo(r)
  <2>1. TabRuns' /\ Begins' /\ NothingLeftOpen'
    BY <1>1, <1>2, OverTabs
  <2>2. OnSessions' /\ Cancels' /\ \A x \in Run : Locking(x)' = Locking(x) \ {r}
    BY <1>1, <1>2, OverSessions DEF Held
  <2>3. Exclusive'
    BY <1>1, <1>2, LetGoKeeps DEF Held
  <2>4. run'[r].at = "over" /\ \A q \in Run \ {r} : run'[q] = run[q]
    BY <1>2, OverIs
  <2>5. Remembered' /\ Truthful'
    <3>1. \A q \in Run : run'[q].at = "outcome" => run'[q] = run[q]
      BY <2>4
    <3>2. \A x \in Run : \A q \in Locking(x) : run[q].at = "outcome" => q \in Locking(x)' /\ run'[q] = run[q]
      BY <1>1, <2>2, <2>4 DEF Locking
    <3>3. tx' = tx
      BY <1>1
    <3> QED BY <3>1, <3>2, <3>3 DEF Remembered, Truthful
  <2> QED BY <2>1, <2>2, <2>3, <2>5
<1>3. CASE run' = [run EXCEPT ![r].at = "sent"] /\ UNCHANGED <<tab, free>>
  <2>1. /\ \A q \in Run \ {r} : run'[q] = run[q]
        /\ run'[r].tx = run[r].tx /\ run'[r].tab = run[r].tab /\ run'[r].session = run[r].session
        /\ run'[r].at = "sent"
    BY <1>3 DEF TypeOK, RunState
  <2>2. GoesOn(r)
    BY <1>1, <1>3, <2>1 DEF GoesOn, Registered, InStatement
  <2>3. Still
    BY <1>1, <1>3, <2>2, GoesOnKeeps DEF Still
  <2>4. \A x \in Run : Locking(x)' = Locking(x)
    BY <2>2, GoesOnKeeps
  <2>5. Remembered' /\ Truthful'
    <3>1. \A q \in Run : run'[q].at = "outcome" => run'[q] = run[q]
      BY <2>1
    <3>2. \A q \in Run : run[q].at = "outcome" => run'[q] = run[q]
      BY <1>1, <2>1
    <3>3. tx' = tx
      BY <1>1
    <3> QED BY <2>4, <3>1, <3>2, <3>3 DEF Remembered, Truthful, Locking
  <2> QED BY <1>1, <2>2, <2>3, <2>5, GoesOnKeeps, ExclusiveStill
<1> QED BY <1>2, <1>3 DEF Start

LEMMA ReachKeeps ==
    ASSUME Inv, NEW r \in Run, Reach(r), TypeOK'
    PROVE  Inv'
<1> USE DEF Inv
<1>1. run[r].at = "sent" /\ UNCHANGED <<tab, tx, cancel, free, hasty>>
  BY DEF Reach
<1>2. /\ \A q \in Run \ {r} : run'[q] = run[q]
      /\ run'[r].tx = run[r].tx /\ run'[r].tab = run[r].tab /\ run'[r].session = run[r].session
      /\ run'[r].at = "executing"
  BY DEF Reach, TypeOK, RunState
<1>3. GoesOn(r)
  BY <1>1, <1>2 DEF GoesOn, Registered, InStatement
<1>4. Still
  BY <1>1, <1>3, GoesOnKeeps DEF Still
<1>5. \A x \in Run : Locking(x)' = Locking(x)
  BY <1>3, GoesOnKeeps
<1>6. Remembered' /\ Truthful'
  <2>1. \A q \in Run : run'[q].at = "outcome" => run'[q] = run[q]
    BY <1>2
  <2>2. \A q \in Run : run[q].at = "outcome" => run'[q] = run[q]
    BY <1>1, <1>2
  <2>3. tx' = tx
    BY <1>1
  <2> QED BY <1>5, <2>1, <2>2, <2>3 DEF Remembered, Truthful, Locking
<1> QED BY <1>1, <1>3, <1>4, <1>6, GoesOnKeeps, ExclusiveStill

LEMMA ExecuteKeeps ==
    ASSUME Inv, NEW r \in Run, Execute(r), TypeOK'
    PROVE  Inv'
<1> USE DEF Inv
<1> DEFINE x == run[r].tx
<1>1. run[r].at = "executing" /\ UNCHANGED <<tab, cancel, free, hasty>> /\ x \in RunOrNone
  BY DEF Execute, TypeOK, RunState
<1>2. /\ \A q \in Run \ {r} : run'[q] = run[q]
      /\ run'[r].tx = run[r].tx /\ run'[r].tab = run[r].tab /\ run'[r].session = run[r].session
      /\ run'[r].at = "outcome" /\ run'[r].told \in {"done", "error"}
  BY DEF Execute, TypeOK, RunState
<1>3. /\ \A y \in Run \ {x} : tx'[y] = tx[y]
      /\ \A y \in Run : /\ tx'[y].at = tx[y].at /\ tx'[y].tab = tx[y].tab /\ tx'[y].session = tx[y].session
                        /\ tx'[y].failed = tx[y].failed /\ tx'[y].reported = tx[y].reported
                        /\ tx[y].done \subseteq tx'[y].done
      /\ x \in Run => /\ run'[r].told = "done" => r \in tx'[x].done /\ tx'[x].aborted = tx[x].aborted
  <2>1. CASE x = NoRun
    BY <2>1, NoRunIsNone DEF Execute
  <2>2. CASE x \in Run
    <3>1. tx[x] \in TxState /\ tx \in [Run -> TxState]
      BY <2>2 DEF TypeOK
    <3>2. \/ run'[r].told = "done" /\ tx' = [tx EXCEPT ![x] = [tx[x] EXCEPT !.done = tx[x].done \cup {r}]]
          \/ run'[r].told = "error" /\ tx' = [tx EXCEPT ![x] = [tx[x] EXCEPT !.aborted = TRUE]]
      BY <2>2, NoRunIsNone DEF Execute, TypeOK, RunState
    <3>3. \/ run'[r].told = "done" /\ tx'[x] = [tx[x] EXCEPT !.done = tx[x].done \cup {r}]
          \/ run'[r].told = "error" /\ tx'[x] = [tx[x] EXCEPT !.aborted = TRUE]
      BY <2>2, <3>1, <3>2
    <3>4. \A y \in Run \ {x} : tx'[y] = tx[y]
      BY <3>1, <3>2
    <3> QED BY <2>2, <3>1, <3>3, <3>4 DEF TxState
  <2> QED BY <1>1, <2>1, <2>2 DEF RunOrNone
<1>4. GoesOn(r)
  BY <1>1, <1>2, <1>3 DEF GoesOn, Registered, InStatement
<1>5. Still
  BY <1>1, <1>4, GoesOnKeeps DEF Still
<1>6. \A y \in Run : Locking(y)' = Locking(y)
  BY <1>4, GoesOnKeeps
<1>7. Truthful'
  BY <1>3 DEF Truthful
<1>8. Remembered'
  <2>1. \A q \in Run : run[q].tx \in RunOrNone
    BY DEF TypeOK, RunState
  <2>2. ASSUME NEW q \in Run, run'[q].at = "outcome"
        PROVE  /\ run'[q].told # "nothing"
               /\ run'[q].told = "done" /\ run'[q].tx # NoRun => q \in tx'[run'[q].tx].done
    <3>1. CASE q = r
      BY <1>1, <1>2, <1>3, <3>1 DEF RunOrNone
    <3>2. CASE q # r
      BY <1>2, <1>3, <2>1, <2>2, <3>2 DEF Remembered, RunOrNone
    <3> QED BY <3>1, <3>2
  <2>3. ASSUME NEW y \in Run, tx'[y].aborted, ~tx'[y].failed
        PROVE  \E q \in Locking(y)' : run'[q].at = "outcome" /\ run'[q].told = "error"
    <3>1. CASE y = x /\ run'[r].told = "error"
      BY <1>1, <1>2, <1>6, <3>1 DEF Locking, Registered
    <3>2. CASE ~(y = x /\ run'[r].told = "error")
      <4>1. tx[y].aborted /\ ~tx[y].failed
        BY <1>2, <1>3, <2>3, <3>2
      <4>2. PICK q \in Locking(y) : run[q].at = "outcome" /\ run[q].told = "error"
        BY <4>1 DEF Remembered
      <4>3. run'[q] = run[q]
        BY <1>1, <1>2, <4>2 DEF Locking
      <4> QED BY <1>6, <4>2, <4>3
    <3> QED BY <3>1, <3>2
  <2> QED BY <2>2, <2>3 DEF Remembered
<1> QED BY <1>1, <1>4, <1>5, <1>7, <1>8, GoesOnKeeps, ExclusiveStill

LEMMA EndKeeps ==
    ASSUME Inv, NEW r \in Run, End(r), TypeOK'
    PROVE  Inv'
<1> USE DEF Inv
<1> DEFINE x == run[r].tx
<1>1. /\ run[r].at = "outcome" /\ Over(r) /\ LetGo(r) /\ UNCHANGED <<cancel, hasty>>
      /\ ~HoldsStatement(r) /\ Registered(r) /\ x \in RunOrNone
  BY DEF End, Registered, TypeOK, RunState
<1>2. /\ \A y \in Run \ {x} : tx'[y] = tx[y]
      /\ \A y \in Run : /\ tx'[y].at = tx[y].at /\ tx'[y].tab = tx[y].tab /\ tx'[y].session = tx[y].session
                        /\ tx'[y].done = tx[y].done
      /\ x \in Run => \/ run[r].told = "error" /\ tx'[x].failed /\ tx'[x].reported = tx[x].reported
                      \/ /\ run[r].told # "error" /\ tx'[x].aborted = tx[x].aborted /\ tx'[x].failed = tx[x].failed
                         /\ tx'[x].reported = tx[x].reported \cup {r}
  <2>1. CASE run[r].told = "error"
    BY <1>1, <2>1, FailIs DEF End
  <2>2. CASE run[r].told # "error"
    BY <1>1, <2>2, ReportIs DEF End
  <2> QED BY <2>1, <2>2
<1>3. TabRuns' /\ Begins' /\ NothingLeftOpen'
  BY <1>1, <1>2, OverTabs
<1>4. OnSessions' /\ Cancels' /\ \A y \in Run : Locking(y)' = Locking(y) \ {r}
  BY <1>1, <1>2, OverSessions DEF Held
<1>5. Exclusive'
  BY <1>1, <1>2, LetGoKeeps DEF Held
<1>6. run'[r].at = "over" /\ \A q \in Run \ {r} : run'[q] = run[q]
  BY <1>1, OverIs
<1>7. x \in Run => Locking(x) = {r}
  BY <1>1, NoRunIsNone DEF OnSessions
<1>8. run[r].told # "error" => run[r].told = "done"
  BY <1>1 DEF Remembered, TypeOK, RunState
<1>9. Truthful'
  <2> SUFFICES ASSUME NEW y \in Run PROVE tx'[y].reported \subseteq tx'[y].done
    BY DEF Truthful
  <2>1. CASE y = x
    <3>1. run[r].told = "done" => r \in tx[x].done
      BY <1>1, <2>1, NoRunIsNone DEF Remembered
    <3> QED BY <1>2, <1>8, <2>1, <3>1 DEF Truthful
  <2>2. CASE y # x
    BY <1>2, <2>2 DEF Truthful
  <2> QED BY <2>1, <2>2
<1>10. Remembered'
  <2>1. \A q \in Run : run[q].tx \in RunOrNone
    BY DEF TypeOK, RunState
  <2>2. \A q \in Run : run'[q].at = "outcome" =>
            /\ run'[q].told # "nothing"
            /\ run'[q].told = "done" /\ run'[q].tx # NoRun => q \in tx'[run'[q].tx].done
    BY <1>2, <1>6, <2>1 DEF Remembered, RunOrNone
  <2>3. ASSUME NEW y \in Run, tx'[y].aborted, ~tx'[y].failed
        PROVE  \E q \in Locking(y)' : run'[q].at = "outcome" /\ run'[q].told = "error"
    <3>1. CASE y = x
      <4>1. tx[x].aborted /\ ~tx[x].failed /\ run[r].told # "error"
        BY <1>2, <2>3, <3>1
      <4> QED BY <1>7, <3>1, <4>1 DEF Remembered
    <3>2. CASE y # x
      <4>1. PICK q \in Locking(y) : run[q].at = "outcome" /\ run[q].told = "error"
        BY <1>2, <2>3, <3>2 DEF Remembered
      <4>2. q # r /\ q \in Run
        BY <3>2 DEF Locking
      <4> QED BY <1>4, <1>6, <4>1, <4>2
    <3> QED BY <3>1, <3>2
  <2> QED BY <2>2, <2>3 DEF Remembered
<1> QED BY <1>3, <1>4, <1>5, <1>9, <1>10

LEMMA FinishKeeps ==
    ASSUME Inv, NEW x \in Run, Finish(x), TypeOK'
    PROVE  Inv'
<1> USE DEF Inv
<1>1. /\ tx[x].at \in {"commit", "rollback"} /\ Locking(x) = {} /\ UNCHANGED <<tab, run, cancel, hasty>>
      /\ free' = free \cup {tx[x].session} /\ Held(x) /\ tx[x].session # NoSession
  BY DEF Finish, Held, OnSessions
<1>2. \A y \in Run \ {x} : tx'[y] = tx[y]
  BY DEF Finish, TypeOK
<1>3. tx[x].aborted => tx[x].failed
  BY <1>1 DEF Remembered
<1>4. /\ tx'[x].at \in {"committed", "over"} /\ ~tx'[x].aborted
      /\ tx'[x].reported \subseteq tx'[x].done
  <2>1. CASE tx' = [tx EXCEPT ![x] = [NoTx EXCEPT !.at = "over"]]
    <3>1. tx'[x] = [NoTx EXCEPT !.at = "over"]
      BY <2>1 DEF TypeOK
    <3> QED BY <3>1 DEF NoTx
  <2>2. CASE /\ ~tx[x].failed
             /\ tx' = [tx EXCEPT ![x] = [NoTx EXCEPT !.at = "committed", !.reported = tx[x].reported,
                                              !.done = IF tx[x].aborted THEN {} ELSE tx[x].done]]
    <3>1. tx'[x] = [NoTx EXCEPT !.at = "committed", !.reported = tx[x].reported, !.done = tx[x].done]
      BY <1>3, <2>2 DEF TypeOK
    <3> QED BY <3>1 DEF NoTx, Truthful
  <2> QED BY <2>1, <2>2 DEF Finish
<1>5. ~Held(x)' /\ \A y \in Run \ {x} : Held(y)' = Held(y)
  BY <1>2, <1>4 DEF Held
<1>6. Exclusive'
  <2>1. Only(<<"tx", x>>)
    BY <1>1, <1>2, <1>5, OnlyTx DEF RunUses, TxUses, Registered
  <2>2. Uses(<<"tx", x>>)' = NoSession /\ Uses(<<"tx", x>>) = tx[x].session
    BY <1>1, <1>5, UsesAre DEF TxUses
  <2> QED BY <1>1, <2>1, <2>2, UsesAre, ExclusiveKept
<1>7. \A q \in Run : Registered(q) => run[q].tx # x
  BY <1>1 DEF Locking
<1>8. \A q \in Run : run[q].tx \in RunOrNone
  BY DEF TypeOK, RunState
<1>9. \A y \in Run : Locking(y)' = Locking(y)
  BY <1>1 DEF Locking, Registered
<1>10. OnSessions'
  <2>1. \A q \in Run : Registered(q)' = Registered(q) /\ run'[q] = run[q]
    BY <1>1 DEF Registered
  <2>2. \A y \in Run : Held(y)' => y # x /\ Held(y) /\ tx'[y] = tx[y]
    BY <1>2, <1>5
  <2>3. ASSUME NEW q \in Run, Registered(q), run[q].tx # NoRun
        PROVE  /\ Held(run[q].tx)' /\ run'[q].session = tx'[run[q].tx].session
               /\ Locking(run[q].tx)' = {q}
    <3>1. run[q].tx \in Run \ {x}
      BY <1>7, <1>8, <2>3 DEF RunOrNone
    <3>2. run'[q] = run[q] /\ tx'[run[q].tx] = tx[run[q].tx]
      BY <1>2, <2>1, <3>1
    <3>3. Held(run[q].tx)'
      BY <1>5, <2>1, <2>3, <3>1 DEF OnSessions
    <3>4. Locking(run[q].tx)' = {q}
      BY <1>9, <2>1, <2>3, <3>1 DEF OnSessions
    <3> QED BY <2>3, <3>2, <3>3, <3>4 DEF OnSessions
  <2> QED BY <1>1, <2>1, <2>2, <2>3 DEF OnSessions
<1>11. Cancels' /\ TabRuns'
  BY <1>1 DEF Cancels, TabRuns, Registered, InStatement
<1>12. Begins'
  <2>1. \A t \in Tab : tab[t].tx \in RunOrNone /\ tab[t].tx # x
    BY <1>1, NoRunIsNone DEF Begins, TypeOK, TabState
  <2>2. \A q \in Run : run[q].at \in {"none", "begin"} => q # x
    BY <1>1 DEF Begins
  <2> QED BY <1>1, <1>2, <2>1, <2>2 DEF Begins, RunOrNone
<1>13. Truthful' /\ NothingLeftOpen'
  BY <1>1, <1>2, <1>4 DEF Truthful, NothingLeftOpen
<1>14. Remembered'
  <2>1. \A q \in Run : run[q].at = "outcome" => run[q].tx # x
    BY <1>7 DEF Registered
  <2> QED BY <1>1, <1>2, <1>4, <1>8, <1>9, <2>1 DEF Remembered, RunOrNone
<1> QED BY <1>6, <1>10, <1>11, <1>12, <1>13, <1>14

-----------------------------------------------------------------------------
(* The steps of a Cancel. *)

\* A Cancel that signals finds no statement but its run's on the session it signals.
LEMMA SignalsItsOwn ==
    ASSUME Inv, NEW r \in Run, cancel[r].at = "signal", NEW q \in RunningThere(r)
    PROVE  q = r
<1> USE DEF Inv
<1>1. /\ q \in Run /\ run[q].session = cancel[r].pid /\ Registered(q)
      /\ Registered(r) /\ cancel[r].pid = run[r].session
  BY DEF RunningThere, Registered, Cancels, InStatement
<1>2. run[q].session = run[r].session /\ run[r].session # NoSession
  BY <1>1 DEF OnSessions
<1>3. run[q].tx \in RunOrNone /\ run[r].tx \in RunOrNone
  BY <1>1 DEF TypeOK, RunState
<1>4. \A p \in {q, r} : run[p].tx = NoRun => Uses(<<"run", p>>) = run[p].session
  BY <1>1, UsesAre DEF RunUses
<1>5. \A p \in {q, r} : run[p].tx \in Run => Uses(<<"tx", run[p].tx>>) = run[p].session
  <2> TAKE p \in {q, r}
  <2>1. ASSUME run[p].tx \in Run PROVE Held(run[p].tx) /\ run[p].session = tx[run[p].tx].session
    BY <1>1, <2>1, NoRunIsNone DEF OnSessions
  <2> QED BY <2>1, UsesAre DEF TxUses
<1>6. \A p \in Run : <<"run", p>> \in Users /\ <<"tx", p>> \in Users
  BY UsesAre
<1>7. CASE run[q].tx = NoRun /\ run[r].tx = NoRun
  <2>1. <<"run", q>> = <<"run", r>>
    BY <1>1, <1>2, <1>4, <1>6, <1>7 DEF Exclusive
  <2> QED BY <2>1
<1>8. CASE run[q].tx \in Run /\ run[r].tx \in Run
  <2>1. <<"tx", run[q].tx>> = <<"tx", run[r].tx>>
    BY <1>1, <1>2, <1>5, <1>6, <1>8 DEF Exclusive
  <2>2. run[q].tx = run[r].tx
    BY <2>1
  <2> QED BY <1>1, <1>8, <2>2, NoRunIsNone DEF OnSessions
<1>9. ASSUME NEW p \in {q, r}, NEW o \in {q, r}, run[p].tx = NoRun, run[o].tx \in Run PROVE FALSE
  <2>1. Uses(<<"run", p>>) = Uses(<<"tx", run[o].tx>>) /\ Uses(<<"run", p>>) # NoSession
    BY <1>2, <1>4, <1>5, <1>9
  <2>2. <<"run", p>> = <<"tx", run[o].tx>>
    BY <1>1, <1>6, <1>9, <2>1 DEF Exclusive
  <2> QED BY <2>2
<1> QED BY <1>3, <1>7, <1>8, <1>9 DEF RunOrNone

\* A step that leaves the runs where they are, and the transactions and tabs alone.
LEMMA RunsStay ==
    ASSUME Inv, UNCHANGED <<tab, tx, hasty>>,
           \A q \in Run : /\ run'[q].at = run[q].at /\ run'[q].tx = run[q].tx /\ run'[q].tab = run[q].tab
                          /\ run'[q].session = run[q].session /\ run'[q].told = run[q].told
    PROVE  /\ OnSessions' /\ TabRuns' /\ Begins' /\ Remembered' /\ Truthful' /\ NothingLeftOpen'
           /\ \A q \in Run : /\ RunUses(q)' = RunUses(q) /\ TxUses(q)' = TxUses(q)
                             /\ Registered(q)' = Registered(q) /\ InStatement(q)' = InStatement(q)
<1> USE DEF Inv
<1>1. \A q \in Run : Registered(q)' = Registered(q) /\ InStatement(q)' = InStatement(q)
  BY DEF Registered, InStatement
<1>2. \A x \in Run : Locking(x)' = Locking(x) /\ Held(x)' = Held(x)
  BY <1>1 DEF Locking, Held
<1>3. \A q \in Run : run[q].tx \in RunOrNone /\ run[q].tab \in Tab
  BY DEF TypeOK, RunState
<1>4. OnSessions'
  BY <1>1, <1>2, <1>3 DEF OnSessions, RunOrNone
<1>5. TabRuns' /\ Begins'
  BY DEF TabRuns, Begins
<1>6. Remembered'
  <2>1. \A x \in Run : \A q \in Locking(x) : run'[q].at = run[q].at /\ run'[q].told = run[q].told
    BY DEF Locking
  <2> QED BY <1>2, <2>1 DEF Remembered
<1>7. Truthful' /\ NothingLeftOpen'
  BY DEF Truthful, NothingLeftOpen
<1> QED BY <1>1, <1>2, <1>4, <1>5, <1>6, <1>7 DEF RunUses, TxUses

\* A Cancel goes on, or ends and lets its session go.
LEMMA CancelMoves ==
    ASSUME Inv, NEW r \in Run, cancel[r].at # "none",
           \A q \in Run : /\ RunUses(q)' = RunUses(q) /\ TxUses(q)' = TxUses(q)
                          /\ Registered(q)' = Registered(q) /\ (InStatement(q) => InStatement(q)')
                          /\ run'[q].session = run[q].session
                          /\ run[q].at = "over" => run'[q].at = "over",
           \/ StopCancel(r)
           \/ /\ free' = free
              /\ \E at \in {"check", "signal", "pause"} :
                    cancel' = [cancel EXCEPT ![r].at = at] /\ (at = "signal" => InStatement(r))
              /\ cancel[r].at # "acquire"
           \/ /\ Take
              /\ cancel' = [cancel EXCEPT ![r].at = "check", ![r].session = FreeSession]
    PROVE  Exclusive' /\ Cancels'
<1> USE DEF Inv
<1>1. CASE StopCancel(r)
  <2>1. /\ \A q \in Run \ {r} : cancel'[q] = cancel[q]
        /\ cancel'[r].at = "none" /\ cancel'[r].session = NoSession
    BY <1>1 DEF StopCancel, NoCancel, TypeOK
  <2>2. Only(<<"cancel", r>>)
    BY <2>1, OnlyCancel
  <2>3. Exclusive'
    BY <1>1, <2>1, <2>2, UsesAre, ExclusiveKept DEF StopCancel
  <2> QED BY <2>1, <2>3 DEF Cancels
<1>2. CASE /\ free' = free /\ cancel[r].at # "acquire"
           /\ \E at \in {"check", "signal", "pause"} :
                 cancel' = [cancel EXCEPT ![r].at = at] /\ (at = "signal" => InStatement(r))
  <2>1. /\ \A q \in Run \ {r} : cancel'[q] = cancel[q]
        /\ cancel'[r].at \in {"check", "signal", "pause"} /\ (cancel'[r].at = "signal" => InStatement(r))
        /\ cancel'[r].session = cancel[r].session /\ cancel'[r].pid = cancel[r].pid
    BY <1>2 DEF TypeOK, CancelState
  <2>2. Still
    BY <1>2, <2>1 DEF Still
  <2> QED BY <2>1, <2>2, ExclusiveStill DEF Cancels
<1>3. CASE Take /\ cancel' = [cancel EXCEPT ![r].at = "check", ![r].session = FreeSession]
  <2>1. /\ \A q \in Run \ {r} : cancel'[q] = cancel[q]
        /\ cancel'[r].at = "check" /\ cancel'[r].session = FreeSession /\ cancel'[r].pid = cancel[r].pid
    BY <1>3 DEF TypeOK, CancelState
  <2>2. Only(<<"cancel", r>>)
    BY <2>1, OnlyCancel
  <2>3. Exclusive'
    BY <1>3, <2>1, <2>2, UsesAre, ExclusiveKept DEF Take
  <2> QED BY <2>1, <2>3 DEF Cancels
<1> QED BY <1>1, <1>2, <1>3

\* The flag that a Cancel sets on its run leaves the run where it is.
LEMMA FlagStays ==
    ASSUME TypeOK, NEW r \in Run, NEW flag \in BOOLEAN,
           \/ run' = run
           \/ run' = [run EXCEPT ![r].cancelled = flag]
           \/ run' = [run EXCEPT ![r].unstoppable = flag]
    PROVE  \A q \in Run : /\ run'[q].at = run[q].at /\ run'[q].tx = run[q].tx /\ run'[q].tab = run[q].tab
                          /\ run'[q].session = run[q].session /\ run'[q].told = run[q].told
BY DEF TypeOK, RunState

LEMMA AcquireKeeps ==
    ASSUME Inv, NEW r \in Run, Acquire(r), TypeOK'
    PROVE  Inv'
<1>1. cancel[r].at # "none" /\ UNCHANGED <<tab, tx, hasty>> /\ TypeOK /\ Registered(r) \in BOOLEAN
  BY DEF Acquire, Inv, Registered
<1>2. \A q \in Run : /\ run'[q].at = run[q].at /\ run'[q].tx = run[q].tx /\ run'[q].tab = run[q].tab
                     /\ run'[q].session = run[q].session /\ run'[q].told = run[q].told
  BY <1>1, FlagStays DEF Acquire
<1>3. /\ OnSessions' /\ TabRuns' /\ Begins' /\ Remembered' /\ Truthful' /\ NothingLeftOpen'
      /\ \A q \in Run : /\ RunUses(q)' = RunUses(q) /\ TxUses(q)' = TxUses(q)
                        /\ Registered(q)' = Registered(q) /\ InStatement(q)' = InStatement(q)
  BY <1>1, <1>2, RunsStay
<1>4. Exclusive' /\ Cancels'
  BY <1>1, <1>2, <1>3, CancelMoves DEF Acquire
<1> QED BY <1>3, <1>4 DEF Inv

LEMMA CheckKeeps ==
    ASSUME Inv, NEW r \in Run, Check(r) \/ Pause(r), TypeOK'
    PROVE  Inv'
<1>1. /\ cancel[r].at \notin {"none", "acquire"} /\ UNCHANGED <<tab, run, tx, hasty>> /\ TypeOK
  BY DEF Check, Pause, Inv
<1>2. /\ OnSessions' /\ TabRuns' /\ Begins' /\ Remembered' /\ Truthful' /\ NothingLeftOpen'
      /\ \A q \in Run : /\ RunUses(q)' = RunUses(q) /\ TxUses(q)' = TxUses(q)
                        /\ Registered(q)' = Registered(q) /\ InStatement(q)' = InStatement(q)
  BY <1>1, RunsStay
<1>3. \/ StopCancel(r)
      \/ /\ free' = free
         /\ \E at \in {"check", "signal", "pause"} :
               cancel' = [cancel EXCEPT ![r].at = at] /\ (at = "signal" => InStatement(r))
  BY DEF Check, Pause
<1>4. Exclusive' /\ Cancels'
  BY <1>1, <1>2, <1>3, CancelMoves
<1> QED BY <1>2, <1>4 DEF Inv

LEMMA SignalKeeps ==
    ASSUME Inv, NEW r \in Run, Signal(r), TypeOK'
    PROVE  Inv'
<1>1. /\ cancel[r].at = "signal" /\ UNCHANGED <<tab, hasty>> /\ TypeOK
      /\ Registered(r) \in BOOLEAN /\ Registered(r) /\ InStatement(r)
  BY DEF Signal, Inv, Cancels, InStatement, Registered
<1>2. CASE /\ run' = [run EXCEPT ![r].unstoppable = Registered(r)] /\ UNCHANGED tx
           /\ \/ StopCancel(r)
              \/ cancel' = [cancel EXCEPT ![r].at = "pause"] /\ UNCHANGED free
  <2>1. \A q \in Run : /\ run'[q].at = run[q].at /\ run'[q].tx = run[q].tx /\ run'[q].tab = run[q].tab
                       /\ run'[q].session = run[q].session /\ run'[q].told = run[q].told
    BY <1>1, <1>2, FlagStays
  <2>2. /\ OnSessions' /\ TabRuns' /\ Begins' /\ Remembered' /\ Truthful' /\ NothingLeftOpen'
        /\ \A q \in Run : /\ RunUses(q)' = RunUses(q) /\ TxUses(q)' = TxUses(q)
                          /\ Registered(q)' = Registered(q) /\ InStatement(q)' = InStatement(q)
    BY <1>1, <1>2, <2>1, RunsStay
  <2>3. Exclusive' /\ Cancels'
    BY <1>1, <1>2, <2>1, <2>2, CancelMoves
  <2> QED BY <2>2, <2>3 DEF Inv
<1>3. CASE /\ run' = [q \in Run |-> IF q \in RunningThere(r)
                                    THEN [run[q] EXCEPT !.at = "outcome", !.told = "error"] ELSE run[q]]
           /\ tx' = [x \in Run |-> IF \E q \in RunningThere(r) : run[q].tx = x
                                   THEN [tx[x] EXCEPT !.aborted = TRUE] ELSE tx[x]]
           /\ cancel' = [cancel EXCEPT ![r].at = "pause"]
           /\ UNCHANGED free
  <2>1. \A q \in RunningThere(r) : q = r
    BY <1>1, SignalsItsOwn
  <2>2. CASE RunningThere(r) = {}
    <3>1. run' = run /\ tx' = tx
      BY <1>1, <1>3, <2>2 DEF TypeOK
    <3>2. /\ OnSessions' /\ TabRuns' /\ Begins' /\ Remembered' /\ Truthful' /\ NothingLeftOpen'
          /\ \A q \in Run : /\ RunUses(q)' = RunUses(q) /\ TxUses(q)' = TxUses(q)
                            /\ Registered(q)' = Registered(q) /\ InStatement(q)' = InStatement(q)
      BY <1>1, <3>1, RunsStay
    <3>3. Exclusive' /\ Cancels'
      BY <1>1, <1>3, <3>1, <3>2, CancelMoves
    <3> QED BY <3>2, <3>3 DEF Inv
  <2>3. CASE RunningThere(r) # {}
    <3> DEFINE x == run[r].tx
    <3>1. r \in RunningThere(r) /\ run[r].at = "executing"
      BY <2>1, <2>3 DEF RunningThere
    <3>2. /\ \A q \in Run \ {r} : run'[q] = run[q]
          /\ run'[r].at = "outcome" /\ run'[r].told = "error"
          /\ run'[r].tx = run[r].tx /\ run'[r].tab = run[r].tab /\ run'[r].session = run[r].session
      BY <1>1, <1>3, <2>1, <3>1 DEF TypeOK, RunState
    <3>3. /\ \A y \in Run \ {x} : tx'[y] = tx[y]
          /\ \A y \in Run : /\ tx'[y].at = tx[y].at /\ tx'[y].tab = tx[y].tab /\ tx'[y].session = tx[y].session
                            /\ tx'[y].failed = tx[y].failed /\ tx'[y].reported = tx[y].reported
                            /\ tx'[y].done = tx[y].done
      <4>1. \A y \in Run \ {x} : tx'[y] = tx[y]
        BY <1>3, <2>1
      <4>2. \A y \in Run : tx[y] \in TxState
        BY <1>1 DEF TypeOK
      <4>3. \A y \in Run : tx'[y] = tx[y] \/ tx'[y] = [tx[y] EXCEPT !.aborted = TRUE]
        BY <1>3
      <4>4. ASSUME NEW y \in Run
            PROVE  /\ tx'[y].at = tx[y].at /\ tx'[y].tab = tx[y].tab /\ tx'[y].session = tx[y].session
                   /\ tx'[y].failed = tx[y].failed /\ tx'[y].reported = tx[y].reported
                   /\ tx'[y].done = tx[y].done
        <5>1. CASE tx'[y] = [tx[y] EXCEPT !.aborted = TRUE]
          BY <4>2, <5>1 DEF TxState
        <5> QED BY <4>3, <5>1
      <4> QED BY <4>1, <4>4
    <3>4. GoesOn(r)
      BY <1>1, <3>1, <3>2, <3>3 DEF GoesOn, Registered, InStatement
    <3>5. /\ OnSessions' /\ TabRuns' /\ Begins' /\ NothingLeftOpen'
          /\ \A q \in Run : RunUses(q)' = RunUses(q) /\ TxUses(q)' = TxUses(q)
          /\ \A y \in Run : Locking(y)' = Locking(y)
      BY <3>4, GoesOnKeeps
    <3>6. \A q \in Run : /\ Registered(q)' = Registered(q) /\ (InStatement(q) => InStatement(q)')
                         /\ run'[q].session = run[q].session
                         /\ run[q].at = "over" => run'[q].at = "over"
      BY <3>1, <3>2 DEF Registered, InStatement
    <3>7. Exclusive' /\ Cancels'
      BY <1>1, <1>3, <3>5, <3>6, CancelMoves
    <3>8. Truthful'
      BY <3>3 DEF Truthful, Inv
    <3>9. Remembered'
      <4>1. \A q \in Run : run[q].tx \in RunOrNone
        BY <1>1 DEF TypeOK, RunState
      <4>2. \A q \in Run : run'[q].at = "outcome" =>
                /\ run'[q].told # "nothing"
                /\ run'[q].told = "done" /\ run'[q].tx # NoRun => q \in tx'[run'[q].tx].done
        BY <3>2, <3>3, <4>1 DEF Remembered, RunOrNone, Inv
      <4>3. ASSUME NEW y \in Run, tx'[y].aborted, ~tx'[y].failed
            PROVE  \E q \in Locking(y)' : run'[q].at = "outcome" /\ run'[q].told = "error"
        <5>1. CASE y = x
          BY <1>1, <3>2, <3>5, <5>1 DEF Locking
        <5>2. CASE y # x
          <6>1. PICK q \in Locking(y) : run[q].at = "outcome" /\ run[q].told = "error"
            BY <3>3, <4>3, <5>2 DEF Remembered, Inv
          <6>2. run'[q] = run[q]
            BY <3>2, <5>2 DEF Locking
          <6> QED BY <3>5, <6>1, <6>2
        <5> QED BY <5>1, <5>2
      <4> QED BY <4>2, <4>3 DEF Remembered
    <3> QED BY <3>5, <3>7, <3>8, <3>9 DEF Inv
  <2> QED BY <2>2, <2>3
<1> QED BY <1>2, <1>3 DEF Signal

-----------------------------------------------------------------------------
(* The invariant holds, and what follows from it. *)

LEMMA InvInit == Init => Inv
<1> SUFFICES ASSUME Init PROVE Inv
  OBVIOUS
<1>1. /\ \A r \in Run : run[r] = NewRun /\ tx[r] = NoTx /\ cancel[r] = NoCancel
      /\ \A t \in Tab : tab[t].tx = NoRun
  BY DEF Init
<1>2. /\ NewRun.at = "none" /\ NewRun.tx = NoRun /\ NoTx.at = "none" /\ ~NoTx.aborted
      /\ NoTx.reported = {} /\ NoTx.done = {} /\ NoCancel.at = "none" /\ NoCancel.session = NoSession
  BY DEF NewRun, NoTx, NoCancel
<1>3. Exclusive
  BY <1>1, <1>2 DEF Exclusive, Users, Uses, RunUses, TxUses, Registered, Held
<1>4. OnSessions /\ Cancels /\ TabRuns /\ Begins /\ Remembered /\ Truthful /\ NothingLeftOpen
  BY <1>1, <1>2 DEF OnSessions, Cancels, TabRuns, Begins, Remembered, Truthful, NothingLeftOpen,
                    Registered, Held
<1> QED BY <1>3, <1>4, TypeInit DEF Inv

LEMMA InvNext == Inv /\ [Next]_vars => Inv'
<1> SUFFICES ASSUME Inv, [Next]_vars PROVE Inv'
  OBVIOUS
<1>1. TypeOK /\ OnSessions
  BY DEF Inv
<1>2. ASSUME NEW t \in Tab, User(t) PROVE Inv'
  <2>1. TypeOK'
    BY <1>1, <1>2, TypeUser
  <2>2. CASE Switch(t)
    BY <2>1, <2>2, SwitchKeeps
  <2>3. CASE Close(t)
    BY <2>1, <2>3, CloseKeeps
  <2>4. ASSUME NEW end \in {"commit", "rollback"}, ClickEnd(t, end) PROVE Inv'
    BY <2>1, <2>4, ClickEndKeeps
  <2>5. ASSUME NEW r \in Run, ClickRun(t, r) PROVE Inv'
    BY <2>1, <2>5, ClickRunKeeps
  <2>6. ASSUME NEW r \in Run, ClickCancel(t, r) PROVE Inv'
    BY <2>1, <2>6, ClickCancelKeeps
  <2> QED BY <1>2, <2>2, <2>3, <2>4, <2>5, <2>6 DEF User
<1>3. ASSUME NEW r \in Run, RunStep(r) \/ Execute(r) \/ End(r) \/ Finish(r) PROVE Inv'
  <2>1. TypeOK'
    BY <1>1, <1>3, TypeRun
  <2>2. CASE Begin(r)
    BY <2>1, <2>2, BeginKeeps
  <2>3. CASE Call(r)
    BY <2>1, <2>3, CallKeeps
  <2>4. CASE CallFails(r)
    BY <2>1, <2>4, CallFailsKeeps
  <2>5. CASE Start(r)
    BY <2>1, <2>5, StartKeeps
  <2>6. CASE Reach(r)
    BY <2>1, <2>6, ReachKeeps
  <2>7. CASE Execute(r)
    BY <2>1, <2>7, ExecuteKeeps
  <2>8. CASE End(r)
    BY <2>1, <2>8, EndKeeps
  <2>9. CASE Finish(r)
    BY <2>1, <2>9, FinishKeeps
  <2> QED BY <1>3, <2>2, <2>3, <2>4, <2>5, <2>6, <2>7, <2>8, <2>9 DEF RunStep
<1>4. ASSUME NEW r \in Run, CancelStep(r) PROVE Inv'
  <2>1. TypeOK'
    BY <1>1, <1>4, TypeCancel
  <2>2. CASE Acquire(r)
    BY <2>1, <2>2, AcquireKeeps
  <2>3. CASE Check(r) \/ Pause(r)
    BY <2>1, <2>3, CheckKeeps
  <2>4. CASE Signal(r)
    BY <2>1, <2>4, SignalKeeps
  <2> QED BY <1>4, <2>2, <2>3, <2>4 DEF CancelStep
<1>5. CASE UNCHANGED vars
  <2>1. /\ UNCHANGED <<tab, tx, hasty, cancel, free, run>>
    BY <1>5 DEF vars
  <2>2. /\ OnSessions' /\ TabRuns' /\ Begins' /\ Remembered' /\ Truthful' /\ NothingLeftOpen'
        /\ \A q \in Run : /\ RunUses(q)' = RunUses(q) /\ TxUses(q)' = TxUses(q)
                          /\ Registered(q)' = Registered(q) /\ InStatement(q)' = InStatement(q)
    BY <2>1, RunsStay
  <2>3. Exclusive' /\ Cancels'
    BY <2>1, <2>2, ExclusiveStill DEF Inv, Cancels, Still
  <2>4. TypeOK'
    BY <1>1, <2>1 DEF TypeOK
  <2> QED BY <2>2, <2>3, <2>4 DEF Inv
<1> QED BY <1>2, <1>3, <1>4, <1>5 DEF Next

LEMMA InvHolds == Spec => []Inv
BY InvInit, InvNext, PTL DEF Spec

\* No step but its signal lets a Cancel's hold on its run's statement go.
LEMMA SignalStopsItsOwn ==
    ASSUME Inv, [Next]_vars, NEW r \in Run, NEW q \in Run, HoldsStatement(r), ~HoldsStatement(r)',
           q # r, run[q].at = "executing", run'[q].at = "outcome"
    PROVE  FALSE
<1>1. cancel[r].at = "signal" /\ TypeOK
  BY DEF HoldsStatement, Inv
<1>2. run'[q] # run[q] /\ cancel' # cancel
  BY DEF HoldsStatement
<1>3. ASSUME NEW t \in Tab, User(t) PROVE FALSE
  <2>1. cancel' = cancel \/ \E p \in Run : ClickRun(t, p) \/ ClickCancel(t, p)
    BY <1>3 DEF User, Switch, Close, ClickEnd
  <2>2. PICK p \in Run : ClickCancel(t, p)
    BY <1>2, <2>1 DEF ClickRun
  <2> QED BY <1>2, <2>2 DEF ClickCancel
<1>4. ASSUME NEW p \in Run, RunStep(p) \/ Execute(p) \/ End(p) \/ Finish(p) PROVE FALSE
  BY <1>2, <1>4 DEF RunStep, Begin, Call, CallFails, Start, Reach, Execute, End, Finish
<1>5. ASSUME NEW p \in Run, CancelStep(p) PROVE FALSE
  <2>1. cancel \in [Run -> CancelState] /\ run \in [Run -> RunState]
    BY <1>1 DEF TypeOK
  <2>2. p = r
    <3>1. ASSUME p # r PROVE cancel'[r] = cancel[r]
      BY <1>5, <2>1, <3>1 DEF CancelStep, Acquire, Check, Signal, Pause, StopCancel
    <3> QED BY <1>1, <3>1 DEF HoldsStatement
  <2>3. Signal(r)
    BY <1>1, <1>5, <2>2 DEF CancelStep, Acquire, Check, Pause
  <2>4. q \notin RunningThere(r)
    BY <1>1, SignalsItsOwn
  <2>5. \A flag : [run EXCEPT ![r].unstoppable = flag][q] = run[q]
    BY <2>1
  <2> QED BY <1>2, <2>3, <2>4, <2>5 DEF Signal
<1>6. CASE UNCHANGED vars
  BY <1>2, <1>6 DEF vars
<1> QED BY <1>3, <1>4, <1>5, <1>6 DEF Next

\* The tabs, runs, transactions and Cancels have their types, whatever fails (runSql.js,
\* transaction.rs, cancel.rs).
THEOREM TypeCorrect == Spec => []TypeOK
<1>1. Inv => TypeOK
  BY DEF Inv
<1> QED BY <1>1, InvHolds, PTL

\* A commit that is answered with success has made permanent every write its runs reported,
\* for any tabs, sessions and runs: a statement that failed, was cancelled or could not be
\* called is remembered before another can run (transaction.rs Held::failed, finish).
THEOREM CommitsTellTheTruth == Spec => []CommitTellsTheTruth
<1>1. Inv => CommitTellsTheTruth
  BY DEF Inv, Truthful, CommitTellsTheTruth
<1> QED BY <1>1, InvHolds, PTL

\* A transaction that is held has a tab that can end it, for any tabs and runs, unless its
\* user closed or switched the tab while it began (runSql.js abandonTransaction).
THEOREM NothingIsLeft == Spec => []NothingLeftOpen
<1>1. Inv => NothingLeftOpen
  BY DEF Inv
<1> QED BY <1>1, InvHolds, PTL

\* A Cancel stops no statement of another run, for any sessions, runs and Cancels at once:
\* the session it signals stays its run's until it has signalled (cancel.rs in_statement).
THEOREM CancelsItsOwn == Spec => CancelStopsItsOwnRun
<1>1. Inv /\ [Next]_vars =>
          [\A r, q \in Run : HoldsStatement(r) /\ ~HoldsStatement(r)' /\ q # r =>
              ~(run[q].at = "executing" /\ run'[q].at = "outcome")]_vars
  BY SignalStopsItsOwn
<1> QED BY <1>1, InvHolds, PTL DEF Spec, CancelStopsItsOwnRun
=============================================================================
