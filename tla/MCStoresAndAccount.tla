------------------------- MODULE MCStoresAndAccount --------------------------
(* Instances for TLC of how a sync reads and saves the stores one after another, and of   *)
(* what the commands of the account keep while they race.  SyncPass takes one account for *)
(* granted and SyncAccount looks at no record, so each behaviour is of one of the two.    *)
EXTENDS SyncPass, AccountData, TLC

CONSTANTS d1, d2, a1, a2, s1, s2, Session, Owner, Key, MaxAtOnce, MaxFails

VARIABLES
    part, session, data_key, wrapped, entitlement, state, pending, running, valid, given, fails

accountVars ==
    <<session, data_key, wrapped, entitlement, state, pending, running, valid, given, sealed,
      made, raced, torn, fails>>

A == INSTANCE SyncAccount

ASSUME AccountAssumption == A!ConstantsAssumption

NoSkew == [d \in {d1, d2} |-> 0]

NoStart == {}

TwoOwners == (s1 :> a1) @@ (s2 :> a2)

Alike == Permutations(Device) \cup Permutations(Key)

OfSync(X)    == part = "sync" /\ X /\ UNCHANGED <<part, accountVars>>
OfAccount(X) == part = "account" /\ X /\ UNCHANGED <<part, vars>>

\* What SyncPass keeps is nothing where only the account is looked at.
NoStores ==
    /\ now = 0 /\ edits = 0 /\ faults = 0 /\ lapses = 0 /\ premium = FALSE
    /\ server = {} /\ reached = {} /\ live = {} /\ kept = {} /\ pc = {} /\ pass = {}
    /\ last_sync = [d \in Device |-> Never]

InitPart == A!Init /\ ((part = "sync" /\ Init) \/ (part = "account" /\ NoStores))

\* Calls fail and Premium lapses in MCSyncedRecords.
NextSync ==
    \/ OfSync(Tick)
    \/ \E d \in Device : OfSync(UserEdits(d)) \/ OfSync(SyncStep(d))

NextAccount ==
    \/ \E r \in A!Role :
        \/ OfAccount(A!Forgetting(r)) \/ OfAccount(A!RecordAccount(r))
        \/ OfAccount(A!Download(r)) \/ OfAccount(A!Upload(r))
        \/ OfAccount(A!SaveState(r)) \/ OfAccount(A!Interrupted(r))
    \/ OfAccount(A!SignIn) \/ OfAccount(A!NotPickedUp) \/ OfAccount(A!KeepSession)
    \/ OfAccount(A!Refresh) \/ OfAccount(A!SignOut) \/ OfAccount(A!EndSession)
    \/ OfAccount(A!DeleteAccount) \/ OfAccount(A!DeletedAccount)
    \/ OfAccount(A!StartPass) \/ OfAccount(A!CreateKeys) \/ OfAccount(A!FinishSetup)
    \/ OfAccount(A!HoldAgain) \/ OfAccount(A!KeepDataKey) \/ OfAccount(A!KeepWrapped) \/ OfAccount(A!Unlock)
    \/ OfAccount(A!FetchKeys) \/ OfAccount(A!Relock) \/ OfAccount(A!PutLock)
    \/ OfAccount(A!TurnOff)
    \/ \E s \in Session : OfAccount(A!PickUp(s)) \/ OfAccount(A!SessionEnds(s))
    \/ \E k \in Key :
        OfAccount(A!HoldNewKeys(k)) \/ \E a \in Account : OfAccount(A!SetUpElsewhere(a, k))
    \/ \E a \in Account : OfAccount(A!DataRemoved(a))

NextPart == NextSync \/ NextAccount

SpecPart == InitPart /\ [][NextPart]_<<part, vars, accountVars>>

=============================================================================
