---------------------------- MODULE SyncSchedule ----------------------------
(***************************************************************************)
(* When a device syncs (src-tauri/src/sync/schedule.rs): one task answers  *)
(* the triggers it is sent, wakes on edits, and runs every sync itself.    *)
(* What a sync does is SyncPass's; here it is an interval in which edits   *)
(* are made and triggers arrive, and an answer.                            *)
(*                                                                         *)
(* Time is counted in minutes and only as what is left of each wait, which *)
(* Tick counts down; a wait that ended may still be found late.  The       *)
(* bounds MaxEdits, MaxAsks, MaxFaults, MaxFlips and MaxRuns are the       *)
(* model's; they cap the edits and the requests of one run of the app, the *)
(* syncs that do not send everything, the changes of readiness, and the    *)
(* runs of the app.                                                        *)
(***************************************************************************)
EXTENDS Integers, Sequences

CONSTANTS
    EditWait,       \* EDIT_WAIT
    Hold,           \* RATE_LIMIT_HOLD
    RetryWaits,     \* the waits before the first retries of an unreachable server
    LongestWait,    \* the wait before each of the others
    Failures,       \* the answers a sync can get other than "sent"
    MaxEdits, MaxAsks, MaxFaults, MaxFlips, MaxRuns

\* Ok, Ok that only received (or Premium or the format refused), rate limited,
\* unreachable or failing on its side, and every other error.
Answer == {"sent", "received", "limited", "unreachable", "failed"}

ASSUME ConstantsAssumption ==
    /\ EditWait \in Nat /\ Hold \in Nat /\ LongestWait \in Nat
    /\ RetryWaits \in Seq(Nat)
    /\ Failures \subseteq Answer \ {"sent"}
    /\ MaxEdits \in Nat /\ MaxAsks \in Nat /\ MaxFaults \in Nat
    /\ MaxFlips \in Nat /\ MaxRuns \in Nat

VARIABLES
    edits,      \* the edit counter of this run of the app (edits.rs EDITS)
    seen,       \* its value the schedule has last seen
    triggers,   \* the triggers sent and not yet taken
    ready,      \* whether a sync can run: signed in, with Premium, set up
    plan,       \* the schedule's Plan
    phase,         \* "waiting", "preparing", "syncing", or "closed" once the app quit
    batch,      \* the triggers being answered
    sending     \* the edit count as of the start of the running sync

\* What the properties compare with; the code keeps none of it.
VARIABLES
    uploaded,   \* the edits of this run the server has
    earlier,    \* whether edits of an earlier run have not reached the server
    excused,    \* the edits a sync took up that failed for good, or found impossible
    limited,    \* minutes since the server last asked for no more syncs, up to Hold
    closing,    \* the edits made when the app was asked to quit, if it was
    tried,      \* whether a sync started since
    asks, faults, flips, runs   \* how much of each bound is used

app    == <<edits, seen, triggers, ready, plan, phase, batch, sending>>
ghosts == <<uploaded, earlier, excused, limited, closing, tried>>
bounds == <<asks, faults, flips, runs>>
vars   == <<app, ghosts, bounds>>

-----------------------------------------------------------------------------
Unset == -1
Timer == Nat \cup {Unset}

Plan == [edit_in : Timer, retry_in : Timer, retries : Nat, held : Nat,
         sent : Nat, off : BOOLEAN]

PlanOf(sent, off) ==
    [edit_in |-> Unset, retry_in |-> Unset, retries |-> 0, held |-> 0,
     sent |-> sent, off |-> off]

\* retry_wait: the growing waits, then always the longest.
RetryWait(retries) ==
    IF retries < Len(RetryWaits) THEN RetryWaits[retries + 1] ELSE LongestWait

Unsent == edits > plan.sent

\* A mistake the checks must catch: a retry that never comes due.
IsDueForEdits == plan.held = 0 /\ plan.edit_in = 0

\* due(): a set wait has ended, and so has any hold.
IsDue == plan.held = 0 /\ (plan.edit_in = 0 \/ plan.retry_in = 0)

\* Only unsent edits are worth a retry.
Retries(p) == ~p.off /\ edits > p.sent

PlanSent(count) == PlanOf(count, FALSE)

PlanHeld(p) == [p EXCEPT !.held = Hold, !.retry_in = IF Retries(p) THEN Hold ELSE @]

\* plan_after's arms.
PlanAfter(p, answer, count) ==
    CASE answer = "sent"        -> PlanSent(count)
      [] answer = "received"    -> PlanOf(p.sent, TRUE)
      [] answer = "limited"     -> PlanHeld(p)
      [] answer = "unreachable" /\ Retries(p) ->
            [p EXCEPT !.retry_in = RetryWait(p.retries), !.retries = @ + 1]
      [] OTHER                  -> p

-----------------------------------------------------------------------------
\* lib.rs starts the schedule and asks for a sync at once.
Init ==
    /\ edits = 0 /\ seen = 0
    /\ triggers = {"Start"}
    /\ ready \in BOOLEAN
    /\ plan = PlanOf(0, FALSE)
    /\ phase = "waiting"
    /\ batch = {}
    /\ sending = 0
    /\ uploaded = 0 /\ earlier = FALSE /\ excused = 0 /\ limited = Hold
    /\ closing = Unset /\ tried = FALSE
    /\ asks = 0 /\ faults = 0 /\ flips = 0 /\ runs = 1

(* What the schedule does not decide. *)

Edit ==
    /\ phase # "closed" /\ edits < MaxEdits
    /\ edits' = edits + 1
    /\ UNCHANGED <<seen, triggers, ready, plan, phase, batch, sending, ghosts, bounds>>

\* sync_now(), and the requests that follow each other before they are taken.
SyncNow ==
    /\ phase # "closed" /\ asks < MaxAsks
    /\ triggers' = triggers \cup {"Now"}
    /\ asks' = asks + 1
    /\ UNCHANGED <<edits, seen, ready, plan, phase, batch, sending, ghosts, faults, flips, runs>>

\* Signed out, sync turned off, no Premium any more; or sync set up here, which asks
\* for a sync at once.
Flip(to, sent) ==
    /\ phase # "closed" /\ flips < MaxFlips
    /\ ready = ~to
    /\ ready' = to
    /\ triggers' = triggers \cup sent
    /\ flips' = flips + 1
    /\ UNCHANGED <<edits, seen, plan, phase, batch, sending, ghosts, asks, faults, runs>>

GetUnready == Flip(FALSE, {})
SetUp      == Flip(TRUE, {"Now"})

Less(t) == IF t > 0 THEN t - 1 ELSE t

Tick ==
    /\ phase # "closed"
    /\ plan' = [plan EXCEPT !.edit_in = Less(@), !.retry_in = Less(@), !.held = Less(@)]
    /\ limited' = IF limited < Hold THEN limited + 1 ELSE limited
    /\ UNCHANGED <<edits, seen, triggers, ready, phase, batch, sending, uploaded, earlier,
                   excused, closing, tried, bounds>>

\* before_quitting: only the first request to quit is held.
Quit ==
    /\ phase # "closed" /\ closing = Unset
    /\ triggers' = triggers \cup {"Close"}
    /\ closing' = edits /\ tried' = FALSE
    /\ UNCHANGED <<edits, seen, ready, plan, phase, batch, sending, uploaded, earlier,
                   excused, limited, bounds>>

\* CLOSE_WAIT is over before the sync is, or the app stops at once.
Stop ==
    /\ phase # "closed" /\ runs < MaxRuns
    /\ phase' = "closed"
    /\ UNCHANGED <<edits, seen, triggers, ready, plan, batch, sending, ghosts, bounds>>

\* The app starts again: its counter and its plan are not kept.
StartAgain ==
    /\ phase = "closed" /\ runs < MaxRuns
    /\ runs' = runs + 1
    /\ earlier' = (earlier \/ edits > uploaded)
    /\ edits' = 0 /\ seen' = 0
    /\ triggers' = {"Start"}
    /\ plan' = PlanOf(0, FALSE)
    /\ phase' = "waiting"
    /\ batch' = {}
    /\ sending' = 0
    /\ uploaded' = 0 /\ excused' = 0 /\ limited' = Hold
    /\ closing' = Unset /\ tried' = FALSE
    /\ asks' = 0
    /\ UNCHANGED <<ready, faults, flips>>

-----------------------------------------------------------------------------
(* The schedule. *)

\* Once the batch has its sync, or needs none, whoever waits to quit is told.
Answered(b) ==
    /\ phase' = IF "Close" \in b THEN "closed" ELSE "waiting"
    /\ batch' = {}

BeginSync(b) ==
    /\ phase' = "syncing"
    /\ batch' = b
    /\ sending' = edits
    /\ seen' = edits
    /\ tried' = TRUE

\* sync(): nothing runs during a hold or while no sync can.
TrySync(b) ==
    IF plan.held = 0 /\ ready THEN BeginSync(b)
    ELSE Answered(b) /\ UNCHANGED <<sending, seen, tried>>

\* A mistake the checks must catch: only a running wait counts as something to send.
AnswerIfWaiting(b) ==
    IF "Start" \in b \/ "Now" \in b \/ plan.edit_in # Unset
    THEN TrySync(b)
    ELSE Answered(b) /\ UNCHANGED <<sending, seen, tried>>

\* answer(), after prepare(): one sync for all of the batch.
AnswerBatch(b) ==
    IF "Start" \in b \/ "Now" \in b \/ (~plan.off /\ Unsent)
    THEN TrySync(b)
    ELSE Answered(b) /\ UNCHANGED <<sending, seen, tried>>

\* run() takes every trigger there is; a start prepares first.
TakeTriggers ==
    /\ phase = "waiting" /\ triggers # {}
    /\ triggers' = {}
    /\ IF "Start" \in triggers
       THEN phase' = "preparing" /\ batch' = triggers /\ UNCHANGED <<sending, seen, tried>>
       ELSE AnswerBatch(triggers)
    /\ UNCHANGED <<edits, ready, plan, uploaded, earlier, excused, limited, closing, bounds>>

\* prepare() asks the server about Premium, and its answer can change readiness.
Prepared ==
    /\ phase = "preparing"
    /\ AnswerBatch(batch)
    /\ UNCHANGED <<edits, triggers, ready, plan, uploaded, earlier, excused, limited,
                   closing, bounds>>

Refresh ==
    /\ phase = "preparing" /\ flips < MaxFlips
    /\ ready' = ~ready /\ flips' = flips + 1
    /\ UNCHANGED <<edits, seen, triggers, plan, phase, batch, sending, ghosts, asks, faults, runs>>

\* edits.changed(): every edit restarts the wait.
Wake ==
    /\ phase = "waiting" /\ seen # edits
    /\ seen' = edits
    /\ plan' = IF plan.off THEN plan ELSE [plan EXCEPT !.edit_in = EditWait]
    /\ UNCHANGED <<edits, triggers, ready, phase, batch, sending, ghosts, bounds>>

\* until(due): the waits are over, and the sync that runs now stands for both.
Due ==
    /\ phase = "waiting" /\ IsDue
    /\ plan' = [plan EXCEPT !.edit_in = Unset, !.retry_in = Unset]
    /\ TrySync({})
    /\ excused' = IF ready THEN excused ELSE edits
    /\ UNCHANGED <<edits, triggers, ready, uploaded, earlier, limited, closing, bounds>>

\* What a sync that sent everything sent: at least the edits made before it started,
\* and whichever of the others it still read.
Uploads(answer) == IF answer = "sent" THEN sending..edits ELSE {uploaded}

\* A mistake the checks must catch: plan_after marks the edits it looks at as seen.
SyncEndsAndSees(answer) ==
    /\ phase = "syncing"
    /\ answer = "sent" \/ (answer \in Failures /\ faults < MaxFaults)
    /\ plan' = PlanAfter(plan, answer, sending)
    /\ seen' = edits
    /\ uploaded' \in Uploads(answer)
    /\ Answered(batch)
    /\ UNCHANGED <<edits, triggers, ready, sending, earlier, excused, limited, closing,
                   tried, bounds>>

SyncEnds(answer) ==
    /\ phase = "syncing"
    /\ answer = "sent" \/ (answer \in Failures /\ faults < MaxFaults)
    /\ plan' = PlanAfter(plan, answer, sending)
    /\ uploaded' \in Uploads(answer)
    /\ earlier' = (earlier /\ answer # "sent")
    /\ excused' = IF answer = "failed" THEN sending ELSE excused
    /\ limited' = IF answer = "limited" THEN 0 ELSE limited
    /\ faults' = IF answer = "sent" THEN faults ELSE faults + 1
    /\ Answered(batch)
    /\ UNCHANGED <<edits, seen, triggers, ready, sending, closing, tried, asks, flips, runs>>

ScheduleStep ==
    \/ TakeTriggers \/ Prepared \/ Wake \/ Due
    \/ \E answer \in Answer : SyncEnds(answer)

Next ==
    \/ Edit \/ SyncNow \/ GetUnready \/ SetUp \/ Refresh
    \/ Tick \/ Quit \/ Stop \/ StartAgain
    \/ ScheduleStep

Spec == Init /\ [][Next]_vars

\* Time passes, and the schedule's task is polled while it can do something.
FairSpec == Spec /\ WF_vars(Tick) /\ WF_vars(ScheduleStep)

-----------------------------------------------------------------------------
\* The type invariant.
TypeOK ==
    /\ edits \in Nat /\ seen \in Nat /\ sending \in Nat /\ uploaded \in Nat /\ excused \in Nat
    /\ triggers \subseteq {"Start", "Now", "Close"}
    /\ batch \subseteq {"Start", "Now", "Close"}
    /\ ready \in BOOLEAN /\ earlier \in BOOLEAN /\ tried \in BOOLEAN
    /\ plan \in Plan
    /\ phase \in {"waiting", "preparing", "syncing", "closed"}
    /\ limited \in Nat /\ closing \in Timer
    /\ asks \in Nat /\ faults \in Nat /\ flips \in Nat /\ runs \in Nat

\* No edit is forgotten: while the schedule waits, an edit the server does not have
\* is one the schedule has yet to notice or one a wait is running for, unless the
\* server refuses uploads, or the sync that took it up failed for a reason no
\* retry is planned for, or could not run at all (schedule.rs plan_after).
NoEditForgotten ==
    phase = "waiting" /\ ~plan.off /\ Unsent /\ edits > excused =>
        seen # edits \/ plan.edit_in # Unset \/ plan.retry_in # Unset

\* An edit counts as sent only once the server has it, the edits made while the sync
\* that sent the others ran included (schedule.rs Plan::sent).
SentIsUploaded == plan.sent <= uploaded

\* Once the server refuses uploads, nothing comes due by itself (Plan::off).
OffIsQuiet == plan.off => plan.edit_in = Unset /\ plan.retry_in = Unset

\* No sync starts within the hold the server asked for, whoever asks for it
\* (RATE_LIMIT_HOLD).
HoldIsKept == [][phase # "syncing" /\ phase' = "syncing" => limited >= Hold]_vars

\* Whoever waits to quit is told in this step.
Told == "Close" \in batch \cup triggers /\ "Close" \notin batch' \cup triggers' /\ phase' = "closed"

\* The app that is told it may quit has tried to send what was edited before it was
\* asked to: a sync started since then, unless everything is sent already, or none
\* could run (schedule.rs close, answer).
QuitTriesToSend ==
    [][Told => closing <= plan'.sent \/ tried \/ plan.off \/ plan.held > 0 \/ ~ready]_vars

\* An edit reaches the server some time, however often the server could not be reached
\* or asked for a pause, unless the app quits first, the server refuses uploads, this
\* device cannot sync at all, or the sync that took it up failed for good
\* (schedule.rs run, plan_after).
EditsReachServer ==
    edits > uploaded ~>
        edits = uploaded \/ plan.off \/ ~ready \/ phase = "closed" \/ edits <= excused

=============================================================================
