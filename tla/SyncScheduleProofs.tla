------------------------- MODULE SyncScheduleProofs -------------------------
(***************************************************************************)
(* What the schedule promises for every number of edits, requests, faults  *)
(* and runs, whatever the waits are (SyncSchedule).  The liveness of the   *)
(* schedule is not proved.                                                 *)
(***************************************************************************)
EXTENDS SyncSchedule, TLAPS

(* The inductive invariant. *)

\* The schedule never counts an edit it has not been told of, and the app is asked to
\* quit after some of them.
Counts == seen <= edits /\ closing <= edits

\* A running sync has seen the edits it stands for, outside any hold.
Running == phase = "syncing" => sending = seen /\ limited >= Hold

\* What is left of a hold is what is left of the minutes the server asked for.
Holding == limited + plan.held >= Hold

\* A request to quit is sent once, and a sync that answers it has been tried.
Asked ==
    /\ phase = "waiting" => batch = {}
    /\ "Close" \in batch => "Close" \notin triggers
    /\ "Close" \in batch \cup triggers => closing # Unset
    /\ phase = "syncing" /\ "Close" \in batch => tried

\* NoEditForgotten, while the schedule asks about Premium first, too.
Noticed ==
    phase \in {"waiting", "preparing"} /\ ~plan.off /\ Unsent /\ edits > excused =>
        seen # edits \/ plan.edit_in # Unset \/ plan.retry_in # Unset

Inv ==
    /\ TypeOK /\ Counts /\ Running /\ Holding /\ Asked
    /\ SentIsUploaded /\ OffIsQuiet /\ Noticed

-----------------------------------------------------------------------------
(* The plan after a sync. *)

\* Every retry has a wait of some minutes.
LEMMA RetryWaitIsNat ==
    ASSUME NEW n \in Nat
    PROVE  RetryWait(n) \in Nat
  BY ConstantsAssumption DEF RetryWait

\* A fresh plan waits for nothing.
LEMMA PlanOfFacts ==
    ASSUME NEW sent \in Nat, NEW off \in BOOLEAN
    PROVE  /\ PlanOf(sent, off) \in Plan
           /\ PlanOf(sent, off).sent = sent
           /\ PlanOf(sent, off).off = off
           /\ PlanOf(sent, off).held = 0
           /\ PlanOf(sent, off).edit_in = Unset
           /\ PlanOf(sent, off).retry_in = Unset
  BY DEF PlanOf, Plan, Timer

\* What plan_after makes of plan p: a plan that is off waits for nothing, one that is
\* on has a retry for what is unsent, or gave up for good; only a sync that sent
\* everything counts edits as sent.
GoodPlan(p, answer, count, q) ==
    /\ q \in Plan
    /\ q.off => q.edit_in = Unset /\ q.retry_in = Unset
    /\ q.sent = IF answer = "sent" THEN count ELSE p.sent
    /\ answer = "limited" => q.held = Hold
    /\ answer \in {"unreachable", "failed"} => q.held = p.held
    /\ answer = "received" => q.off
    /\ answer \in {"limited", "unreachable"} /\ ~q.off /\ edits > q.sent => q.retry_in # Unset

LEMMA PlanAfterFacts ==
    ASSUME NEW p \in Plan, NEW answer \in Answer, NEW count \in Nat, edits \in Nat,
           p.off => p.edit_in = Unset /\ p.retry_in = Unset
    PROVE  GoodPlan(p, answer, count, PlanAfter(p, answer, count))
  <1> DEFINE q == PlanAfter(p, answer, count)
  <1> SUFFICES GoodPlan(p, answer, count, q)
    OBVIOUS
  <1>1. CASE answer = "sent"
    <2>1. q = PlanOf(count, FALSE)
      BY <1>1 DEF PlanAfter, PlanSent
    <2> HIDE DEF q
    <2>2. q \in Plan /\ q.sent = count /\ q.off = FALSE
      BY <2>1, PlanOfFacts
    <2> QED
      BY <1>1, <2>2 DEF GoodPlan
  <1>2. CASE answer = "received"
    <2>1. q = PlanOf(p.sent, TRUE)
      BY <1>2 DEF PlanAfter
    <2> HIDE DEF q
    <2>2. p.sent \in Nat
      BY DEF Plan
    <2>3. /\ q \in Plan /\ q.sent = p.sent /\ q.off = TRUE
          /\ q.edit_in = Unset /\ q.retry_in = Unset
      BY <2>1, <2>2, PlanOfFacts
    <2> QED
      BY <1>2, <2>3 DEF GoodPlan
  <1>3. CASE answer = "limited"
    <2>1. q = [p EXCEPT !.held = Hold, !.retry_in = IF Retries(p) THEN Hold ELSE p.retry_in]
      BY <1>3 DEF PlanAfter, PlanHeld
    <2> HIDE DEF q
    <2>2. q \in Plan
      BY <2>1, ConstantsAssumption DEF Plan, Timer
    <2>3. /\ q.off = p.off /\ q.sent = p.sent /\ q.edit_in = p.edit_in /\ q.held = Hold
          /\ q.retry_in = IF Retries(p) THEN Hold ELSE p.retry_in
      BY <2>1 DEF Plan
    <2> QED
      BY <1>3, <2>2, <2>3, ConstantsAssumption DEF GoodPlan, Unset, Retries
  <1>4. CASE answer = "unreachable"
    <2>1. CASE Retries(p)
      <3>1. q = [p EXCEPT !.retry_in = RetryWait(p.retries), !.retries = p.retries + 1]
        BY <1>4, <2>1 DEF PlanAfter
      <3> HIDE DEF q
      <3>2. p.retries \in Nat /\ p.retries + 1 \in Nat /\ RetryWait(p.retries) \in Nat
        BY RetryWaitIsNat DEF Plan
      <3>3. q \in Plan
        BY <3>1, <3>2 DEF Plan, Timer
      <3>4. /\ q.off = p.off /\ q.sent = p.sent /\ q.held = p.held
            /\ q.retry_in = RetryWait(p.retries)
        BY <3>1 DEF Plan
      <3> QED
        BY <1>4, <2>1, <3>2, <3>3, <3>4 DEF GoodPlan, Unset, Retries
    <2>2. CASE ~Retries(p)
      <3>1. q = p
        BY <1>4, <2>2 DEF PlanAfter
      <3> HIDE DEF q
      <3> QED
        BY <1>4, <2>2, <3>1 DEF GoodPlan, Retries
    <2> QED
      BY <2>1, <2>2
  <1>5. CASE answer = "failed"
    <2>1. q = p
      BY <1>5 DEF PlanAfter
    <2> HIDE DEF q
    <2> QED
      BY <1>5, <2>1 DEF GoodPlan
  <1> HIDE DEF q
  <1> QED
    BY <1>1, <1>2, <1>3, <1>4, <1>5 DEF Answer

-----------------------------------------------------------------------------
(* The invariant is inductive. *)

LEMMA InvInitially == Init => Inv
  <1> SUFFICES ASSUME Init PROVE Inv
    OBVIOUS
  <1>1. /\ plan \in Plan /\ plan.sent = 0 /\ plan.off = FALSE /\ plan.held = 0
        /\ plan.edit_in = Unset /\ plan.retry_in = Unset
    BY PlanOfFacts DEF Init
  <1>2. TypeOK
    BY <1>1, ConstantsAssumption DEF Init, PlanOf, TypeOK, Timer, Unset
  <1>3. Counts /\ Running /\ Holding /\ Asked
    BY <1>1, ConstantsAssumption DEF Init, PlanOf, Counts, Running, Holding, Asked, Unset
  <1>4. SentIsUploaded /\ OffIsQuiet /\ Noticed
    BY <1>1 DEF Init, PlanOf, SentIsUploaded, OffIsQuiet, Noticed, Unsent
  <1> QED
    BY <1>2, <1>3, <1>4 DEF Inv

\* Time takes the waits of a plan with it, and starts or forgets none.
LEMMA LessIsTimer ==
    ASSUME NEW t \in Timer
    PROVE  Less(t) \in Timer /\ (Less(t) = Unset <=> t = Unset)
  BY DEF Less, Timer, Unset

\* The schedule's steps that start a sync or find that they need none.
Starts(b) ==
    /\ plan.held = 0 /\ ready
    /\ phase' = "syncing" /\ batch' = b
    /\ sending' = edits /\ seen' = edits /\ tried' = TRUE

Rests(b) ==
    /\ IF "Close" \in b THEN phase' = "closed" ELSE phase' = "waiting"
    /\ batch' = {}
    /\ sending' = sending /\ seen' = seen /\ tried' = tried

LEMMA TrySyncFacts ==
    ASSUME NEW b, TrySync(b), plan.held \in Nat
    PROVE  Starts(b) \/ (Rests(b) /\ (plan.held > 0 \/ ~ready))
  BY DEF TrySync, BeginSync, Answered, Starts, Rests

LEMMA AnswerBatchFacts ==
    ASSUME NEW b, AnswerBatch(b), plan.held \in Nat
    PROVE  \/ Starts(b)
           \/ Rests(b) /\ (plan.held > 0 \/ ~ready \/ plan.off \/ ~Unsent)
  BY TrySyncFacts DEF AnswerBatch, Answered, Rests

\* What the environment does, the schedule's task aside.
LEMMA WorldKeepsInv ==
    ASSUME Inv, Edit \/ SyncNow \/ GetUnready \/ SetUp \/ Refresh \/ Tick \/ Quit \/ Stop
    PROVE  Inv'
  <1> USE DEF Inv, Counts, Running, Holding, Asked, SentIsUploaded, OffIsQuiet, Noticed, Unsent
  <1>1. CASE Edit
    BY <1>1 DEF Edit, ghosts, bounds, TypeOK, Timer, Unset
  <1>2. CASE SyncNow
    BY <1>2 DEF SyncNow, ghosts, TypeOK
  <1>3. CASE GetUnready
    <2>1. TypeOK'
      <3>1. ready' \in BOOLEAN
        BY <1>3, Zenon DEF GetUnready, Flip
      <3>2. flips' \in Nat
        BY <1>3 DEF GetUnready, Flip, TypeOK
      <3>3. triggers' \subseteq {"Start", "Now", "Close"}
        BY <1>3, Zenon DEF GetUnready, Flip, TypeOK
      <3>4. UNCHANGED <<edits, seen, plan, phase, batch, sending, ghosts, asks, faults, runs>>
        BY <1>3, Zenon DEF GetUnready, Flip
      <3> QED
        BY <3>1, <3>2, <3>3, <3>4 DEF ghosts, TypeOK
    <2>2. Asked' /\ Counts' /\ Running' /\ Holding'
      BY <1>3 DEF GetUnready, Flip, ghosts
    <2>3. SentIsUploaded' /\ OffIsQuiet' /\ Noticed'
      BY <1>3 DEF GetUnready, Flip, ghosts
    <2> QED
      BY <2>1, <2>2, <2>3
  <1>4. CASE SetUp
    BY <1>4 DEF SetUp, Flip, ghosts, TypeOK
  <1>5. CASE Refresh
    BY <1>5 DEF Refresh, ghosts, TypeOK
  <1>6. CASE Tick
    <2>1. /\ plan' \in Plan
          /\ plan'.sent = plan.sent /\ plan'.off = plan.off
          /\ plan'.edit_in = Unset <=> plan.edit_in = Unset
          /\ plan'.retry_in = Unset <=> plan.retry_in = Unset
          /\ plan'.held = Less(plan.held)
      BY <1>6, LessIsTimer DEF Tick, TypeOK, Plan, Timer, Less
    <2>2. plan.held \in Nat /\ limited \in Nat /\ Hold \in Nat
      BY ConstantsAssumption DEF TypeOK, Plan
    <2>3. limited' \in Nat /\ limited' >= limited /\ limited' + plan'.held >= Hold
      BY <1>6, <2>1, <2>2 DEF Tick, Less
    <2> QED
      BY <1>6, <2>1, <2>2, <2>3 DEF Tick, bounds, TypeOK
  <1>7. CASE Quit
    <2>1. TypeOK'
      BY <1>7 DEF Quit, bounds, TypeOK, Timer
    <2>2. Asked'
      BY <1>7 DEF Quit, bounds, TypeOK, Unset
    <2>3. Counts' /\ Running' /\ Holding'
      BY <1>7 DEF Quit, bounds, TypeOK
    <2>4. SentIsUploaded' /\ OffIsQuiet' /\ Noticed'
      BY <1>7 DEF Quit, bounds
    <2> QED
      BY <2>1, <2>2, <2>3, <2>4
  <1>8. CASE Stop
    BY <1>8 DEF Stop, ghosts, bounds, TypeOK
  <1> QED
    BY <1>1, <1>2, <1>3, <1>4, <1>5, <1>6, <1>7, <1>8

LEMMA StartAgainKeepsInv ==
    ASSUME Inv, StartAgain
    PROVE  Inv'
  <1>1. /\ plan' \in Plan /\ plan'.sent = 0 /\ plan'.off = FALSE /\ plan'.held = 0
        /\ plan'.edit_in = Unset /\ plan'.retry_in = Unset
    BY PlanOfFacts DEF StartAgain
  <1>2. TypeOK'
    <2>1. earlier' \in BOOLEAN
      BY Zenon DEF StartAgain
    <2>2. /\ edits' = 0 /\ seen' = 0 /\ sending' = 0 /\ uploaded' = 0 /\ excused' = 0
          /\ triggers' = {"Start"} /\ batch' = {} /\ tried' = FALSE /\ ready' = ready
          /\ phase' = "waiting" /\ limited' = Hold /\ closing' = Unset
          /\ asks' = 0 /\ faults' = faults /\ flips' = flips /\ runs' = runs + 1
      BY Zenon DEF StartAgain
    <2>3. /\ ready \in BOOLEAN /\ faults \in Nat /\ flips \in Nat /\ runs \in Nat
          /\ Unset \in Timer /\ Hold \in Nat
      BY ConstantsAssumption DEF Inv, TypeOK, Timer
    <2>4. ready' \in BOOLEAN /\ tried' \in BOOLEAN
      BY <2>2, <2>3, Zenon
    <2>5. /\ triggers' \subseteq {"Start", "Now", "Close"}
          /\ batch' \subseteq {"Start", "Now", "Close"}
          /\ phase' \in {"waiting", "preparing", "syncing", "closed"}
      BY <2>2, Zenon
    <2>6. /\ limited' \in Nat /\ closing' \in Timer
          /\ edits' \in Nat /\ seen' \in Nat /\ sending' \in Nat /\ uploaded' \in Nat
          /\ excused' \in Nat /\ asks' \in Nat /\ faults' \in Nat /\ flips' \in Nat
          /\ runs' \in Nat
      BY <2>2, <2>3
    <2> QED
      BY <1>1, <2>1, <2>4, <2>5, <2>6, Zenon DEF TypeOK
  <1>3. Counts' /\ Running' /\ Holding' /\ Asked'
    BY <1>1, ConstantsAssumption DEF StartAgain, PlanOf, Counts, Running, Holding, Asked, Unset
  <1>4. SentIsUploaded' /\ OffIsQuiet' /\ Noticed'
    BY <1>1 DEF StartAgain, PlanOf, SentIsUploaded, OffIsQuiet, Noticed, Unsent
  <1> QED
    BY <1>2, <1>3, <1>4 DEF Inv

\* The schedule's own steps, until a sync ends.
LEMMA ScheduleKeepsInv ==
    ASSUME Inv, TakeTriggers \/ Prepared \/ Wake \/ Due
    PROVE  Inv'
  <1> USE DEF Inv, Counts, Running, Holding, Asked, SentIsUploaded, OffIsQuiet, Noticed, Unsent
  <1>0. plan.held \in Nat /\ limited \in Nat /\ Hold \in Nat
    BY ConstantsAssumption DEF TypeOK, Plan
  <1>1. CASE TakeTriggers
    <2>1. CASE "Start" \in triggers
      BY <1>1, <2>1 DEF TakeTriggers, bounds, TypeOK
    <2>2. CASE "Start" \notin triggers
      <3>1. Starts(triggers) \/ Rests(triggers)
        BY <1>0, <1>1, <2>2, AnswerBatchFacts DEF TakeTriggers
      <3>2. TypeOK'
        BY <1>1, <3>1 DEF TakeTriggers, Starts, Rests, bounds, TypeOK
      <3>3. Counts' /\ Running' /\ Holding' /\ SentIsUploaded' /\ OffIsQuiet'
        BY <1>0, <1>1, <3>1 DEF TakeTriggers, Starts, Rests, bounds, TypeOK
      <3>4. Asked'
        BY <1>1, <3>1 DEF TakeTriggers, Starts, Rests, bounds
      <3>5. Noticed'
        BY <1>1, <3>1 DEF TakeTriggers, Starts, Rests, bounds
      <3> QED
        BY <3>2, <3>3, <3>4, <3>5
    <2> QED
      BY <2>1, <2>2
  <1>2. CASE Prepared
    <2>1. Starts(batch) \/ Rests(batch)
      BY <1>0, <1>2, AnswerBatchFacts DEF Prepared
    <2>2. TypeOK'
      BY <1>2, <2>1 DEF Prepared, Starts, Rests, bounds, TypeOK
    <2>3. Counts' /\ Running' /\ Holding' /\ SentIsUploaded' /\ OffIsQuiet'
      BY <1>0, <1>2, <2>1 DEF Prepared, Starts, Rests, bounds, TypeOK
    <2>4. Asked'
      BY <1>2, <2>1 DEF Prepared, Starts, Rests, bounds
    <2>5. Noticed'
      BY <1>2, <2>1 DEF Prepared, Starts, Rests, bounds
    <2> QED
      BY <2>2, <2>3, <2>4, <2>5
  <1>3. CASE Wake
    <2>1. /\ plan' \in Plan /\ plan'.sent = plan.sent /\ plan'.off = plan.off
          /\ plan'.held = plan.held /\ plan'.retry_in = plan.retry_in
          /\ IF plan.off THEN plan'.edit_in = plan.edit_in ELSE plan'.edit_in # Unset
      <3>1. CASE plan.off
        BY <1>3, <3>1 DEF Wake, TypeOK
      <3>2. CASE ~plan.off
        <4>1. plan' = [plan EXCEPT !.edit_in = EditWait]
          BY <1>3, <3>2 DEF Wake
        <4>2. plan \in Plan /\ EditWait \in Nat
          BY ConstantsAssumption DEF TypeOK
        <4> QED
          BY <3>2, <4>1, <4>2 DEF Plan, Timer, Unset
      <3> QED
        BY <3>1, <3>2
    <2> QED
      BY <1>3, <2>1 DEF Wake, ghosts, bounds, TypeOK
  <1>4. CASE Due
    <2>1. /\ plan' \in Plan /\ plan'.sent = plan.sent /\ plan'.off = plan.off
          /\ plan'.held = plan.held /\ plan'.edit_in = Unset /\ plan'.retry_in = Unset
      BY <1>4 DEF Due, TypeOK, Plan, Timer
    <2>2. plan.held = 0
      BY <1>4 DEF Due, IsDue
    <2>3. Starts({}) \/ (Rests({}) /\ ~ready)
      BY <1>0, <1>4, <2>2, TrySyncFacts DEF Due
    <2>4. TypeOK'
      BY <1>4, <2>1, <2>3 DEF Due, Starts, Rests, bounds, TypeOK
    <2>5. Counts' /\ Running' /\ Holding' /\ SentIsUploaded' /\ OffIsQuiet'
      BY <1>0, <1>4, <2>1, <2>2, <2>3 DEF Due, Starts, Rests, bounds, TypeOK
    <2>6. Asked'
      BY <1>4, <2>3 DEF Due, Starts, Rests, bounds
    <2>7. Noticed'
      <3>1. CASE Starts({})
        BY <3>1 DEF Starts
      <3>2. CASE ~ready
        <4>1. excused' = edits /\ edits' = edits
          BY <1>4, <3>2 DEF Due
        <4> QED
          BY <4>1 DEF TypeOK
      <3> QED
        BY <2>3, <3>1, <3>2
    <2> QED
      BY <2>4, <2>5, <2>6, <2>7
  <1> QED
    BY <1>1, <1>2, <1>3, <1>4

\* The end of a sync, whatever its answer.
LEMMA SyncEndsKeepsInv ==
    ASSUME Inv, NEW answer \in Answer, SyncEnds(answer)
    PROVE  Inv'
  <1> USE DEF Inv, Counts, Running, Holding, Asked, SentIsUploaded, OffIsQuiet, Noticed, Unsent
  <1>1. GoodPlan(plan, answer, sending, plan')
    BY PlanAfterFacts DEF SyncEnds, TypeOK
  <1>2. plan.held \in Nat /\ plan'.held \in Nat /\ limited \in Nat /\ Hold \in Nat
    BY <1>1, ConstantsAssumption DEF GoodPlan, TypeOK, Plan
  <1>3. limited' \in Nat /\ limited' + plan'.held >= Hold
    BY <1>1, <1>2 DEF GoodPlan, SyncEnds
  <1>4. uploaded' \in Nat /\ plan'.sent <= uploaded'
    BY <1>1 DEF GoodPlan, SyncEnds, Uploads, TypeOK
  <1>5. TypeOK'
    BY <1>1, <1>3, <1>4 DEF GoodPlan, SyncEnds, Answered, TypeOK
  <1>6. Noticed'
    BY <1>1 DEF GoodPlan, SyncEnds, Answered, TypeOK, Answer
  <1> QED
    BY <1>1, <1>3, <1>4, <1>5, <1>6 DEF GoodPlan, SyncEnds, Answered

LEMMA InvIsInductive == Inv /\ [Next]_vars => Inv'
  <1> SUFFICES ASSUME Inv, [Next]_vars PROVE Inv'
    OBVIOUS
  <1>1. CASE UNCHANGED vars
    BY <1>1 DEF vars, app, ghosts, bounds, Inv, TypeOK, Counts, Running, Holding, Asked,
        SentIsUploaded, OffIsQuiet, Noticed, Unsent
  <1>2. CASE Next
    BY <1>2, WorldKeepsInv, StartAgainKeepsInv, ScheduleKeepsInv, SyncEndsKeepsInv
    DEF Next, ScheduleStep
  <1> QED
    BY <1>1, <1>2

THEOREM Invariance == Spec => []Inv
  <1> QED
    BY InvInitially, InvIsInductive, PTL DEF Spec

-----------------------------------------------------------------------------
(* What the schedule promises. *)

\* The type invariant (schedule.rs Plan and Schedule).
THEOREM TypeCorrect == Spec => []TypeOK
  BY Invariance, PTL DEF Inv

\* An edit counts as sent only once the server has it (schedule.rs Plan::sent).
THEOREM SentIsSent == Spec => []SentIsUploaded
  BY Invariance, PTL DEF Inv

\* Once the server refuses uploads, nothing comes due by itself (Plan::off).
THEOREM OffStaysQuiet == Spec => []OffIsQuiet
  BY Invariance, PTL DEF Inv

\* No edit is forgotten while the schedule waits (schedule.rs plan_after).
THEOREM NothingForgotten == Spec => []NoEditForgotten
  <1>1. Inv => NoEditForgotten
    BY DEF Inv, Noticed, NoEditForgotten
  <1> QED
    BY <1>1, Invariance, PTL

\* No sync starts within the hold the server asked for (RATE_LIMIT_HOLD).
THEOREM HoldKept == Spec => HoldIsKept
  <1>1. ASSUME Inv, [Next]_vars
        PROVE  [phase # "syncing" /\ phase' = "syncing" => limited >= Hold]_vars
    <2> SUFFICES ASSUME Inv', phase # "syncing", phase' = "syncing"
                 PROVE  limited >= Hold
      BY <1>1, InvIsInductive
    <2>1. limited' >= Hold
      BY DEF Inv, Running
    <2>2. limited' = limited
      BY <1>1 DEF Next, ScheduleStep, Edit, SyncNow, GetUnready, SetUp, Flip, Refresh, Tick, Quit,
          Stop, StartAgain, TakeTriggers, Prepared, Wake, Due, SyncEnds, Answered, vars, app,
          ghosts, bounds
    <2> QED
      BY <2>1, <2>2
  <1> QED
    BY <1>1, Invariance, PTL DEF Spec, HoldIsKept

\* The app that is told it may quit has tried to send what was edited before it was
\* asked to, or needed or could send nothing (schedule.rs close, answer).
THEOREM QuitTried == Spec => QuitTriesToSend
  <1> DEFINE Excused == closing <= plan'.sent \/ tried \/ plan.off \/ plan.held > 0 \/ ~ready
  <1>1. ASSUME Inv, [Next]_vars
        PROVE  [Told => Excused]_vars
    <2> SUFFICES ASSUME Next, Told PROVE Excused
      BY <1>1
    <2>1. phase' = "closed" /\ "Close" \in batch \cup triggers /\ "Close" \notin batch' \cup triggers'
      BY DEF Told
    <2>2. plan.held \in Nat /\ edits \in Nat /\ plan.sent \in Nat /\ closing \in Int
          /\ closing <= edits
      BY <1>1 DEF Inv, TypeOK, Counts, Plan, Timer, Unset
    <2>3. CASE Edit \/ SyncNow \/ GetUnready \/ SetUp \/ Refresh \/ Tick \/ Quit \/ Stop
      BY <2>1, <2>3, Zenon DEF Edit, SyncNow, GetUnready, SetUp, Flip, Refresh, Tick, Quit, Stop
    <2>4. CASE StartAgain \/ Wake
      BY <2>1, <2>4 DEF StartAgain, Wake
    <2>5. CASE TakeTriggers
      <3>1. /\ AnswerBatch(triggers) /\ plan' = plan
        BY <2>1, <2>5 DEF TakeTriggers
      <3>2. plan.held > 0 \/ ~ready \/ plan.off \/ ~Unsent
        BY <2>1, <2>2, <3>1, AnswerBatchFacts DEF Starts
      <3> QED
        BY <2>2, <3>1, <3>2 DEF Unsent
    <2>6. CASE Prepared
      <3>1. /\ AnswerBatch(batch) /\ plan' = plan
        BY <2>6 DEF Prepared
      <3>2. plan.held > 0 \/ ~ready \/ plan.off \/ ~Unsent
        BY <2>1, <2>2, <3>1, AnswerBatchFacts DEF Starts
      <3> QED
        BY <2>2, <3>1, <3>2 DEF Unsent
    <2>7. CASE Due
      <3>1. TrySync({})
        BY <2>7 DEF Due
      <3> QED
        BY <2>1, <2>2, <3>1, TrySyncFacts DEF Starts, Rests
    <2>8. CASE \E answer \in Answer : SyncEnds(answer)
      <3>1. phase = "syncing" /\ "Close" \in batch
        BY <2>1, <2>8 DEF SyncEnds, Answered
      <3> QED
        BY <1>1, <3>1 DEF Inv, Asked
    <2> QED
      BY <2>3, <2>4, <2>5, <2>6, <2>7, <2>8 DEF Next, ScheduleStep
  <1> QED
    BY <1>1, Invariance, PTL DEF Spec, QuitTriesToSend
=============================================================================
