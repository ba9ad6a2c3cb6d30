------------------------------ MODULE MCSyncing ------------------------------
(* Instances for TLC of the schedule of one device, and of two devices of one account     *)
(* that are synced at any time.  They share no state, so each behaviour is of one.        *)
EXTENDS SyncSchedule

CONSTANTS
    d1, d2, Device, Stores, SettingStores, Id, Content, MarkerLifetime, MaxPasses, SyncTakesTime,
    MaxTime, MaxChanges, MaxLost, MaxLapses

VARIABLES
    part, now, changes, lost, lapses, premium, server, reached, live, last_sync, kept, pc, pass

passVars == <<now, changes, lost, lapses, premium, server, reached, live, last_sync, kept, pc, pass>>

\* The code's waits of 5 and 2 minutes, and its first growing waits, kept short.
Growing == <<1, 2>>

OneAhead == [d \in {d1, d2} |-> IF d = d2 THEN 1 ELSE 0]

\* Every device holds every record since time 0, and every setting is at its default.
AtZero == [updated_at |-> 0, deleted |-> FALSE, uploaded_at |-> -1, content |-> 1]

P == INSTANCE SyncPass
     WITH edits <- changes, faults <- lost, MaxEdits <- MaxChanges, MaxFaults <- MaxLost,
          Skew <- OneAhead, SyncedStart <- {[s \in 1..Stores |-> [i \in Id |-> AtZero]]}

ASSUME PassesAssumption == P!ConstantsAssumption

OfSchedule(A) == part = "schedule" /\ A /\ UNCHANGED <<part, passVars>>
OfPasses(A)   == part = "passes" /\ A /\ UNCHANGED <<part, vars>>

\* Edits and faults are as many together as edits may be alone.
Few == changes' + lost' <= MaxChanges

InitPart ==
    /\ part \in {"schedule", "passes"}
    /\ Init /\ P!Init /\ (part = "passes" => ready)

NextPart ==
    \/ OfSchedule(Edit) \/ OfSchedule(SyncNow) \/ OfSchedule(GetUnready) \/ OfSchedule(SetUp)
    \/ OfSchedule(Refresh) \/ OfSchedule(Tick) \/ OfSchedule(Quit) \/ OfSchedule(Stop)
    \/ OfSchedule(StartAgain) \/ OfSchedule(ScheduleStep)
    \/ OfPasses(P!Tick) \/ OfPasses(P!PremiumLapses) \/ OfPasses(P!PremiumRenewed)
    \/ \E d \in Device : OfPasses(P!UserEdits(d) /\ Few) \/ OfPasses(P!SyncStep(d)) \/ OfPasses(P!Fault(d) /\ Few)

\* A sync takes finitely many steps, MaxPasses passes at most: that each goes on while it is
\* under way (SyncPass!FairSpec) is that each ends, which TLC evaluates faster.
SyncsEnd == \A d \in Device : []<>(pc[d] = "idle")

SpecPart ==
    /\ InitPart /\ [][NextPart]_<<part, vars, passVars>>
    /\ WF_vars(OfSchedule(Tick)) /\ WF_vars(OfSchedule(ScheduleStep)) /\ SyncsEnd

\* Devices that keep being synced come to agree (sync/pass.rs, merge.rs), as SyncPass
\* states it.
DevicesConverge == P!DevicesConverge
=============================================================================
