---------------------------- MODULE SyncAccount -----------------------------
(***************************************************************************)
(* What a device keeps of the account it is signed in to, and the commands *)
(* that change it (src-tauri/src/sync/account.rs, setup.rs, keys.rs,       *)
(* state.rs, entitlement.rs, commands/sync_setup.rs, commands/account.rs): *)
(* the session and the data key in the keychain, and in files the key's    *)
(* wrapped copies, the Premium answer and what is known of the server's    *)
(* copy.  No lock covers them together: a command waits for the server, or *)
(* for Argon2id, between what it read and what it writes.                  *)
(*                                                                         *)
(* Three roles run commands, each one at a time: "sync", the schedule;     *)
(* "sign", the account dialog; "setup", the sync dialog.  A key is a data  *)
(* key; its wrapped copies are named after the key they hold.  What the    *)
(* stores hold is SyncPass's.  MaxFails is the model's bound on the writes *)
(* and calls that fail.                                                    *)
(***************************************************************************)
EXTENDS AccountData, Naturals, FiniteSets

CONSTANTS
    Session,    \* the sessions the server can give out
    Owner,      \* Owner[s]: the account session s is for
    Key,        \* the data keys that can be made
    MaxAtOnce,  \* bound: the commands that run at once
    MaxFails

Role == {"sync", "sign", "setup"}

ConstantsAssumption ==
    /\ Owner \in [Session -> Account]
    /\ None \notin Account \cup Session \cup Key
    /\ MaxAtOnce \in Nat /\ MaxFails \in Nat

VARIABLES
    session,        \* the session in the keychain
    data_key,       \* the data key in the keychain
    wrapped,        \* the key whose wrapped copies the keys file holds
    entitlement,    \* the account the last Premium answer was about
    state,          \* the account whose copy SyncState describes
    pending,        \* PendingSetup: the keys made and the session they were made under
    running,        \* running[r]: the command role r runs
    valid,          \* the sessions the server takes
    given,          \* the sessions it has given out
    fails           \* the writes and calls that failed

keys      == <<data_key, wrapped, torn>>
device    == <<session, keys, entitlement, state, pending>>
world     == <<valid, given, sealed, made>>
vars      == <<device, running, world, raced, fails>>

(* A command is at "pickup", "forget session", "forget keys", "forget file", "forget       *)
(* entitlement", "forget state", "keep session", "me", "end session", "download",          *)
(* "upload", "save state", "keep keys", "keep file", "hold" or "fetch".  It holds in       *)
(* memory its session and key, the key its wrapped copies hold (lock), what it downloaded, *)
(* and whether every step of forgetting went well so far.                                  *)
Idle == [cmd |-> "idle", at |-> "", session |-> None, key |-> None, lock |-> None,
         got |-> None, ok |-> TRUE]

Nothing == [data |-> None, lock |-> None]
NoPending == [session |-> None, key |-> None]

Init ==
    /\ session = None /\ data_key = None /\ wrapped = None
    /\ entitlement = None /\ state = None
    /\ pending = NoPending
    /\ running = [r \in Role |-> Idle]
    /\ valid = {} /\ given = {}
    /\ sealed = [a \in Account |-> Nothing]
    /\ made = [k \in Key |-> None]
    /\ raced = FALSE /\ torn = FALSE
    /\ fails = 0

-----------------------------------------------------------------------------
\* SyncKeysStorage::keys: both halves, or sync is not set up here.
SetUp == data_key # None /\ wrapped # None

AllIdle == \A r \in Role : running[r] = Idle

Begin(r, command) ==
    /\ running[r] = Idle /\ Cardinality({q \in Role : running[q] # Idle}) < MaxAtOnce
    /\ running' = [running EXCEPT ![r] = command]
    /\ raced' = (raced \/ ~AllIdle)

GoTo(r, where) == running' = [running EXCEPT ![r].at = where]
Done(r)        == running' = [running EXCEPT ![r] = Idle]
At(r, where)   == running[r].at = where

Works == UNCHANGED <<raced, fails>>
Fails == fails < MaxFails /\ fails' = fails + 1 /\ UNCHANGED raced

\* The account a command's calls reach.
Its(r) == Owner[running[r].session]

-----------------------------------------------------------------------------
(* Forgetting: Device::forget writes four things one after another. *)

ForgetSession(r) ==
    /\ At(r, "forget session")
    /\ \/ Works /\ session' = None /\ GoTo(r, "forget keys")
       \/ /\ Fails /\ UNCHANGED session
          /\ running' = [running EXCEPT ![r].at = "forget keys", ![r].ok = FALSE]
    /\ UNCHANGED <<keys, entitlement, state, pending, world>>

\* keys.forget: the keychain first, then the file, which is cleared even when the keychain
\* refuses.
ForgetDataKey(r) ==
    /\ At(r, "forget keys")
    /\ \/ Works /\ data_key' = None /\ GoTo(r, "forget file")
       \/ /\ Fails /\ UNCHANGED data_key
          /\ running' = [running EXCEPT ![r].at = "forget file", ![r].ok = FALSE]
    /\ UNCHANGED <<session, wrapped, torn, entitlement, state, pending, world>>

ForgetWrapped(r) ==
    /\ At(r, "forget file")
    /\ LET next == IF running[r].cmd = "turn off" THEN "forget state" ELSE "forget entitlement"
       IN  \/ Works /\ wrapped' = None /\ GoTo(r, next)
           \/ /\ Fails /\ UNCHANGED wrapped
              /\ running' = [running EXCEPT ![r].at = next, ![r].ok = FALSE]
    /\ UNCHANGED <<session, data_key, torn, entitlement, state, pending, world>>

\* A command whose forget() failed: finish_sync_setup still holds its keys again.
Failed(r) == IF running[r].cmd = "finish" THEN GoTo(r, "hold") ELSE Done(r)

ForgetEntitlement(r) ==
    /\ At(r, "forget entitlement")
    /\ \/ Works /\ entitlement' = None /\ GoTo(r, "forget state")
       \/ Fails /\ UNCHANGED entitlement /\ Failed(r)
    /\ UNCHANGED <<session, keys, state, pending, world>>

\* What a command does once everything is forgotten.
Forgotten(r) ==
    CASE running[r].cmd = "sign in" /\ running[r].ok  -> GoTo(r, "keep session")
      [] running[r].cmd = "sign out" /\ running[r].ok /\ running[r].session # None
                                                      -> GoTo(r, "end session")
      [] running[r].cmd = "finish"                    -> GoTo(r, "hold")
      [] OTHER                                        -> Done(r)

ForgetState(r) ==
    /\ At(r, "forget state")
    /\ \/ Works /\ state' = None /\ Forgotten(r)
       \/ Fails /\ UNCHANGED state /\ Failed(r)
    /\ UNCHANGED <<session, keys, entitlement, pending, world>>

-----------------------------------------------------------------------------
(* Signing in and out, and the account. *)

SignIn ==
    /\ Begin("sign", [Idle EXCEPT !.cmd = "sign in", !.at = "pickup"])
    /\ UNCHANGED <<device, world, fails>>

\* The server gives out the session of an approved sign-in.
PickUp(s) ==
    /\ At("sign", "pickup")
    /\ s \in Session \ given
    /\ given' = given \cup {s} /\ valid' = valid \cup {s}
    /\ running' = [running EXCEPT !["sign"].session = s, !["sign"].at = "forget session"]
    /\ UNCHANGED <<device, sealed, made, raced, fails>>

\* Nobody has approved it yet, or it expired: the dialog asks again or gives up.
NotPickedUp ==
    /\ At("sign", "pickup")
    /\ Done("sign")
    /\ UNCHANGED <<device, world, raced, fails>>

KeepSession ==
    /\ At("sign", "keep session")
    /\ \/ Works /\ session' = running["sign"].session /\ GoTo("sign", "me")
       \/ Fails /\ UNCHANGED session /\ Done("sign")
    /\ UNCHANGED <<keys, entitlement, state, pending, world>>

\* prepare() of the schedule.
Refresh ==
    /\ session # None
    /\ Begin("sync", [Idle EXCEPT !.cmd = "refresh", !.at = "me", !.session = session])
    /\ UNCHANGED <<device, world, fails>>

\* record_account: GET /me, and its answer recorded.
RecordAccount(r) ==
    /\ At(r, "me")
    /\ \/ /\ running[r].session \in valid
          /\ Works /\ entitlement' = Its(r) /\ Done(r)
       \/ /\ running[r].session \notin valid
          /\ Works /\ UNCHANGED entitlement
          /\ running' = [running EXCEPT ![r].cmd = "refresh", ![r].at = "forget session"]
       \/ Fails /\ UNCHANGED entitlement /\ Done(r)
    /\ UNCHANGED <<session, keys, state, pending, world>>

SignOut ==
    /\ Begin("sign", [Idle EXCEPT !.cmd = "sign out", !.at = "forget session", !.session = session])
    /\ UNCHANGED <<device, world, fails>>

\* Signing out on the server, when it can be reached.
EndSession ==
    /\ At("sign", "end session") /\ running["sign"].cmd = "sign out"
    /\ \/ Works /\ valid' = valid \ {running["sign"].session}
       \/ Fails /\ UNCHANGED valid
    /\ Done("sign")
    /\ UNCHANGED <<device, given, sealed, made>>

DeleteAccount ==
    /\ session # None
    /\ Begin("sign", [Idle EXCEPT !.cmd = "delete", !.at = "end session", !.session = session])
    /\ UNCHANGED <<device, world, fails>>

\* The server deletes the account and everything it holds about it, or refuses.
DeletedAccount ==
    /\ At("sign", "end session") /\ running["sign"].cmd = "delete"
    /\ \/ /\ running["sign"].session \in valid
          /\ Works
          /\ valid' = {s \in valid : Owner[s] # Its("sign")}
          /\ sealed' = [sealed EXCEPT ![Its("sign")] = Nothing]
          /\ GoTo("sign", "forget session")
       \/ /\ running["sign"].session \notin valid
          /\ Works /\ UNCHANGED <<valid, sealed>> /\ GoTo("sign", "forget session")
       \/ Fails /\ UNCHANGED <<valid, sealed>> /\ Done("sign")
    /\ UNCHANGED <<device, given, made>>

-----------------------------------------------------------------------------
(* The sync, of the schedule or the first one of a setup. *)

\* readiness: signed in, Premium heard of, set up.
StartPass ==
    /\ session # None /\ entitlement # None /\ SetUp
    /\ Begin("sync", [Idle EXCEPT !.cmd = "pass", !.at = "download", !.session = session,
                                  !.key = data_key, !.lock = wrapped])
    /\ UNCHANGED <<device, world, fails>>

Download(r) ==
    /\ At(r, "download")
    /\ running[r].session \in valid
    /\ LET data == sealed[Its(r)].data
       IN  \/ /\ data \in {None, running[r].key}
              /\ Works /\ running' = [running EXCEPT ![r].at = "upload", ![r].got = data]
           \* Sealed with other keys, which a setup tells from any other failure by the
           \* wrapped keys it then asks for, if it gets them.
           \/ /\ data \notin {None, running[r].key}
              /\ (Works /\ Done(r)) \/ (Fails /\ Failed(r))
    /\ UNCHANGED <<device, world>>

\* Only a first upload sends this device's wrapped keys; another device's upload that
\* came first has the pass run again.
Upload(r) ==
    /\ At(r, "upload")
    /\ running[r].session \in valid
    /\ IF sealed[Its(r)].data # running[r].got
       THEN GoTo(r, "download") /\ UNCHANGED sealed
       ELSE /\ sealed' = IF running[r].got # None THEN sealed
                         ELSE [sealed EXCEPT ![Its(r)] = [data |-> running[r].key,
                                                          lock |-> running[r].lock]]
            /\ GoTo(r, "save state")
    /\ UNCHANGED <<device, valid, given, made, raced, fails>>

SaveState(r) ==
    /\ At(r, "save state")
    /\ \/ /\ Works /\ state' = Its(r)
          /\ IF running[r].cmd = "finish" THEN GoTo(r, "keep keys") ELSE Done(r)
       \/ Fails /\ UNCHANGED state /\ Failed(r)
    /\ UNCHANGED <<session, keys, entitlement, pending, world>>

\* A call of a sync fails, or the session is gone (settle).  A setup then looks
\* whether another device has set sync up first, whose keys it must unlock instead.
Interrupted(r) ==
    /\ running[r].at \in {"download", "upload"}
    /\ \/ Works /\ running[r].session \notin valid /\ GoTo(r, "forget session")
       \/ Fails /\ IF sealed[Its(r)].lock \in {None, running[r].key} THEN Failed(r) ELSE Done(r)
    /\ UNCHANGED <<device, world>>

-----------------------------------------------------------------------------
(* Setting sync up. *)

\* create_sync_keys reads the session, then makes keys; made for its account.
CreateKeys ==
    /\ session # None
    /\ Begin("setup", [Idle EXCEPT !.cmd = "create", !.at = "hold", !.session = session])
    /\ UNCHANGED <<device, world, fails>>

HoldNewKeys(k) ==
    /\ At("setup", "hold") /\ running["setup"].cmd = "create"
    /\ made[k] = None
    /\ made' = [made EXCEPT ![k] = Its("setup")]
    /\ pending' = [session |-> running["setup"].session, key |-> k]
    /\ Done("setup")
    /\ UNCHANGED <<session, keys, entitlement, state, valid, given, sealed, raced, fails>>

\* A mistake the checks must catch: held keys handed to whoever is signed in.
TakesAny == pending.key # None

\* PendingSetup::take: only keys made under this session.
Takes == pending.key # None /\ pending.session = session

FinishSetup ==
    /\ session # None
    /\ IF Takes
       THEN Begin("setup", [Idle EXCEPT !.cmd = "finish", !.at = "download", !.session = session,
                                        !.key = pending.key, !.lock = pending.key])
       ELSE Begin("setup", Idle)
    /\ pending' = NoPending
    /\ UNCHANGED <<session, keys, entitlement, state, world, fails>>

\* On failure the keys stay held, so trying again shows no new recovery key.
HoldAgain ==
    /\ At("setup", "hold") /\ running["setup"].cmd = "finish"
    /\ pending' = [session |-> running["setup"].session, key |-> running["setup"].key]
    /\ Done("setup")
    /\ UNCHANGED <<session, keys, entitlement, state, world, raced, fails>>

\* keys.save: the keychain first, then the file.
KeepDataKey ==
    /\ At("setup", "keep keys")
    /\ \/ /\ Works /\ data_key' = running["setup"].key /\ GoTo("setup", "keep file")
          /\ torn' = (torn \/ wrapped \notin {None, running["setup"].key})
       \/ Fails /\ UNCHANGED <<data_key, torn>> /\ Done("setup")
    /\ UNCHANGED <<session, wrapped, entitlement, state, pending, world>>

KeepWrapped ==
    /\ At("setup", "keep file")
    /\ (Works /\ wrapped' = running["setup"].lock) \/ (Fails /\ UNCHANGED wrapped)
    /\ Done("setup")
    /\ UNCHANGED <<session, data_key, torn, entitlement, state, pending, world>>

Unlock ==
    /\ session # None
    /\ Begin("setup", [Idle EXCEPT !.cmd = "unlock", !.at = "fetch", !.session = session])
    /\ UNCHANGED <<device, world, fails>>

\* The server's wrapped copies, unlocked with the password the user knows.
FetchKeys ==
    /\ At("setup", "fetch") /\ running["setup"].cmd = "unlock"
    /\ LET held == sealed[Its("setup")]
       IN  \/ Done("setup")    \* a wrong password, no data, or no answer
           \/ /\ running["setup"].session \in valid /\ held # Nothing
              /\ running' = [running EXCEPT !["setup"].at = "keep keys",
                                              !["setup"].key = held.lock,
                                              !["setup"].lock = held.lock]
    /\ UNCHANGED <<device, world, raced, fails>>

\* change_sync_password and replace_recovery_key wrap the key they read first, and
\* only then look up the session to call the server with.
Relock ==
    /\ SetUp
    /\ Begin("setup", [Idle EXCEPT !.cmd = "relock", !.at = "fetch", !.key = data_key,
                                   !.lock = wrapped])
    /\ UNCHANGED <<device, world, fails>>

\* A mistake the checks must catch: data under another key locked with this one.
FitsAny(held) == held # Nothing

\* relock refuses data its key does not decrypt.
Fits(held) == held # Nothing /\ held.data = running["setup"].key

\* Download, check and upload; overtaken, it starts over, so one step stands for all.
PutLock ==
    /\ At("setup", "fetch") /\ running["setup"].cmd = "relock"
    /\ IF session \in valid /\ Fits(sealed[Owner[session]])
       THEN /\ sealed' = [sealed EXCEPT ![Owner[session]].lock = running["setup"].key]
            /\ running' = [running EXCEPT !["setup"].at = "keep keys",
                                          !["setup"].lock = running["setup"].key]
       ELSE Done("setup") /\ UNCHANGED sealed
    /\ UNCHANGED <<device, valid, given, made, raced, fails>>

TurnOff ==
    /\ Begin("setup", [Idle EXCEPT !.cmd = "turn off", !.at = "forget keys"])
    /\ UNCHANGED <<device, world, fails>>

-----------------------------------------------------------------------------
(* The server's doing. *)

\* A session ends: unused for 90 days, or ended from elsewhere.
SessionEnds(s) ==
    /\ s \in valid
    /\ Fails
    /\ valid' = valid \ {s}
    /\ UNCHANGED <<device, running, given, sealed, made>>

\* Another device of the account sets sync up first.
SetUpElsewhere(a, k) ==
    /\ sealed[a] = Nothing
    /\ made[k] = None
    /\ made' = [made EXCEPT ![k] = a]
    /\ sealed' = [sealed EXCEPT ![a] = [data |-> k, lock |-> k]]
    /\ UNCHANGED <<device, running, valid, given, raced, fails>>

\* The account's sync data is removed, as when it is set up anew on another device.
DataRemoved(a) ==
    /\ sealed[a] # Nothing
    /\ Fails
    /\ sealed' = [sealed EXCEPT ![a] = Nothing]
    /\ UNCHANGED <<device, running, valid, given, made>>

-----------------------------------------------------------------------------
Forgetting(r) ==
    ForgetSession(r) \/ ForgetDataKey(r) \/ ForgetWrapped(r) \/ ForgetEntitlement(r) \/ ForgetState(r)

Next ==
    \/ \E r \in Role : \/ Forgetting(r) \/ RecordAccount(r)
                       \/ Download(r) \/ Upload(r) \/ SaveState(r) \/ Interrupted(r)
    \/ SignIn \/ NotPickedUp \/ KeepSession \/ Refresh \/ SignOut \/ EndSession
    \/ DeleteAccount \/ DeletedAccount
    \/ StartPass \/ CreateKeys \/ FinishSetup \/ HoldAgain \/ KeepDataKey \/ KeepWrapped
    \/ Unlock \/ FetchKeys \/ Relock \/ PutLock \/ TurnOff
    \/ \E s \in Session : PickUp(s) \/ SessionEnds(s)
    \/ \E k \in Key : HoldNewKeys(k) \/ \E a \in Account : SetUpElsewhere(a, k)
    \/ \E a \in Account : DataRemoved(a)

Spec == Init /\ [][Next]_vars

=============================================================================
