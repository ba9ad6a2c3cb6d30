---------------------------- MODULE Connections -----------------------------
(***************************************************************************)
(* The saved connections of one device: the records (storage/mod.rs, a     *)
(* file with a cache in front), the keychain that holds their secrets      *)
(* (keychain.rs), the commands that change the two (commands/connection.rs *)
(* and folders.rs) and the sync that carries both (sync/snapshot.rs and    *)
(* secrets.rs), all at once on one device, while other devices change the  *)
(* server's copy.  The three secrets of a connection are one here.         *)
(*                                                                         *)
(* A stamp is read off one clock that every stamped change moves on, so a  *)
(* stamp also stands for what the change left in the record: SyncPass and  *)
(* Merge have equal stamps and clocks apart.  MaxTime and MaxFaults are    *)
(* the model's bounds.                                                     *)
(***************************************************************************)
EXTENDS ConnectionSecrets, Integers, FiniteSets

CONSTANTS
    Id, Folder, Secret,
    Thread,         \* the commands that run at once
    Unknown,        \* passwords_unknown: read without a keyring service
    Sync,           \* the sync, as a holder of the secrets lock
    MaxTime, MaxFaults

NamesAssumption ==
    /\ Sync \notin Thread \cup {None} /\ None \notin Thread \cup Secret \cup Folder
    /\ Unknown \notin Secret \cup {None}
    /\ MaxTime \in Nat /\ MaxFaults \in Nat

VARIABLES
    now,
    keyring,        \* whether there is a keyring service
    server, version,
    task,           \* what each command is doing
    sync            \* what the running sync holds in memory

storeVars == <<disk, cache>>
watched   == <<typed, torn>>
cmdVars   == <<task, secrets_lock>>
vars == <<now, disk, cache, ring, keyring, server, version, task, sync, secrets_lock, failures, typed, torn>>

-----------------------------------------------------------------------------
(* A record, and a record as it travels in a snapshot with its secrets.    *)

Absent == [updated_at |-> -1, deleted |-> FALSE, auth |-> FALSE, folder_id |-> None, open |-> FALSE]

NothingTyped == [updated_at |-> -2, secret |-> None]

Empty    == [i \in Id |-> [config |-> Absent, secrets |-> None]]

IsLive(r)     == r # Absent /\ ~r.deleted
Emptied(time) == [Absent EXCEPT !.updated_at = time, !.deleted = TRUE]
SharedPart(r) == [r EXCEPT !.open = FALSE]
Configs(s)    == [i \in Id |-> s[i].config]
Shared(recs)  == [i \in Id |-> SharedPart(recs[i])]

\* SyncedConnection::collect: a deleted record carries no secrets.
Collect(r, secret) ==
    [config |-> r,
     secrets |-> IF r.deleted \/ r = Absent THEN None ELSE IF ~keyring THEN Unknown ELSE secret]

\* Merge::connections: the newer record, opened or not as it is here.
Wins(mine, theirs) ==
    IF theirs.updated_at > mine.updated_at
    THEN [theirs EXCEPT !.open = IsLive(mine) /\ mine.open /\ ~theirs.deleted] ELSE mine

\* with_winning_secrets and with_config.
WinningSecrets(config, mine, theirs) ==
    LET won   == IF SharedPart(theirs.config) = SharedPart(config) THEN theirs ELSE mine
        other == IF won = mine THEN theirs ELSE mine
    IN  IF config.deleted THEN None
        ELSE IF won.secrets = Unknown /\ other.config # Absent THEN other.secrets ELSE won.secrets

Merged(mine, theirs) ==
    [i \in Id |-> LET config == Wins(mine[i].config, theirs[i].config)
                  IN  [config |-> config, secrets |-> WinningSecrets(config, mine[i], theirs[i])]]

\* Unknown secrets are stored as none, and agree with any.
Held(c) == IF c.secrets = Unknown THEN None ELSE c.secrets
SecretsAgree(a, b) == Unknown \in {a.secrets, b.secrets} \/ a.secrets = b.secrets

SameAs(a, b) == Shared(Configs(a)) = Shared(Configs(b)) /\ \A i \in Id : SecretsAgree(a[i], b[i])

-----------------------------------------------------------------------------
(* What each thread holds. *)

Idle    == [at |-> "idle"]
NoSync  == [at |-> "idle", remote |-> Empty, version |-> 0, before |-> Empty, merged |-> Empty, todo |-> {}]

Init ==
    /\ now = 0
    /\ disk \in [Id -> {Absent, [Absent EXCEPT !.updated_at = 0, !.auth = TRUE]}]
    /\ cache = Uncached
    /\ keyring \in BOOLEAN
    /\ ring \in [Id -> Secret \cup {None}]
    /\ \A i \in Id : ring[i] # None => keyring /\ disk[i].auth
    /\ server = Empty /\ version = 0
    /\ task = [t \in Thread |-> Idle]
    /\ sync = NoSync /\ secrets_lock = None
    /\ failures = 0
    /\ typed = [i \in Id |-> NothingTyped]
    /\ torn = FALSE

Does(t, step) == task' = [task EXCEPT ![t] = step]
Fault == failures < MaxFaults /\ failures' = failures + 1

\* The clock moves with every stamped change.
Stamps == now < MaxTime /\ now' = now + 1

\* with_secrets_locked, taken and let go.
LockSecrets(who)   == secrets_lock = None /\ secrets_lock' = who
UnlockSecrets(who) == secrets_lock = who /\ secrets_lock' = None

\* update_if: the file first, then the cache; or no write, and no cache.
Write(recs)  == disk' = recs /\ cache' = recs /\ UNCHANGED failures
Refuse(recs) == Fault /\ cache' = Uncached /\ UNCHANGED disk

\* A change here that leaves a connection's secret as it is.
StaysTyped(which) ==
    typed' = [i \in Id |-> IF i \in which /\ typed[i].updated_at = Current[i].updated_at
                           THEN [typed[i] EXCEPT !.updated_at = now'] ELSE typed[i]]

Load ==
    /\ cache = Uncached /\ cache' = disk
    /\ UNCHANGED <<now, disk, ring, keyring, server, version, cmdVars, sync, failures, watched>>

-----------------------------------------------------------------------------
(* A new connection: save_connection, duplicate_connection and             *)
(* import_connections.  The secrets first, then the record; ids are new.   *)

\* Secrets copied from another connection, typed into the form, or none.
SecretsFrom(i) == {ring[j] : j \in {j \in Id : j # i /\ IsLive(Current[j])}} \cup Secret \cup {None}

NewSecrets(t, i) ==
    /\ task[t] = Idle
    /\ Current[i] = Absent /\ ring[i] = None /\ \A u \in Thread : task[u] # Idle => task[u].id # i
    /\ \E secret \in SecretsFrom(i) :
           /\ secret # None => keyring
           /\ ring' = [ring EXCEPT ![i] = secret]
           /\ Does(t, [at |-> "add", id |-> i, auth |-> TRUE])
    /\ UNCHANGED <<now, storeVars, keyring, server, version, sync, secrets_lock, failures, watched>>

\* Storage::add.  Whether the client opened afterwards fails changes nothing here.
Add(t) ==
    /\ task[t].at = "add" /\ Stamps
    /\ \E open \in BOOLEAN : LET recs == [Current EXCEPT ![task[t].id] = [Absent EXCEPT
                                              !.updated_at = now', !.auth = TRUE, !.open = open]]
                             IN  Write(recs) \/ Refuse(recs)
    /\ Does(t, Idle)
    /\ UNCHANGED <<ring, keyring, server, version, sync, secrets_lock, watched>>

-----------------------------------------------------------------------------
(* update_connection: what the form does not carry is read before the edit. *)

FindForEdit(t, i) ==
    /\ task[t] = Idle /\ Current[i] # Absent
    /\ \E auth \in BOOLEAN : \E secret \in IF auth THEN Secret \cup {None} ELSE {None} :
           LET found == Current[i]
           IN  Does(t, [at |-> "edit", id |-> i, auth |-> auth, secret |-> secret,
                        folder_id |-> found.folder_id, open |-> found.open \/ found.deleted, stamp |-> 0])
    /\ cache' = Current
    /\ UNCHANGED <<now, disk, ring, keyring, server, version, sync, secrets_lock, failures, watched>>

Edited(k, time) ==
    [updated_at |-> time, deleted |-> FALSE, auth |-> k.auth, folder_id |-> k.folder_id, open |-> k.open]

\* save_edit: the record, under the secrets lock, unless it is gone meanwhile.
UpdateRecord(t) ==
    LET k == task[t] recs == [Current EXCEPT ![k.id] = Edited(k, now')]
    IN  /\ k.at = "edit" /\ secrets_lock = None
        /\ IF IsLive(Current[k.id])
           THEN /\ Stamps
                /\ \/ /\ Write(recs) /\ Does(t, [k EXCEPT !.at = "secret", !.stamp = now']) /\ secrets_lock' = t
                      /\ IF k.auth /\ k.secret = None THEN StaysTyped({k.id}) ELSE UNCHANGED typed
                   \/ Refuse(recs) /\ Does(t, Idle) /\ UNCHANGED <<secrets_lock, typed>>
           ELSE Does(t, Idle) /\ UNCHANGED <<now, storeVars, secrets_lock, failures, typed>>
        /\ UNCHANGED <<ring, keyring, server, version, sync, torn>>

\* save_edit: a secret no longer usable is removed if it can be, a typed one written.
UpdateSecret(t) ==
    LET k == task[t] new == IF ~k.auth THEN None ELSE IF k.secret = None THEN ring[k.id] ELSE k.secret
    IN  /\ k.at = "secret"
        /\ \/ /\ (k.auth /\ k.secret # None) => keyring
              /\ ring' = [ring EXCEPT ![k.id] = IF keyring THEN new ELSE @] /\ UNCHANGED failures
              /\ typed' = IF k.auth /\ k.secret = None THEN typed
                          ELSE [typed EXCEPT ![k.id] = [updated_at |-> Current[k.id].updated_at, secret |-> new]]
           \/ Fault /\ UNCHANGED <<ring, typed>>
        /\ UnlockSecrets(t) /\ Does(t, Idle)
        /\ UNCHANGED <<now, storeVars, keyring, server, version, sync, torn>>

-----------------------------------------------------------------------------
(* delete_connection: the record and its secrets under the secrets lock.   *)

\* A mistake the checks must catch: the record is removed without the lock.
DeleteUnlocked(t, i) ==
    /\ task[t] = Idle /\ IsLive(Current[i]) /\ Stamps
    /\ Write([Current EXCEPT ![i] = Emptied(now')])
    /\ ring' = [ring EXCEPT ![i] = None]
    /\ UNCHANGED <<keyring, server, version, cmdVars, sync, watched>>

DeleteRecord(t, i) ==
    /\ task[t] = Idle /\ IsLive(Current[i]) /\ Stamps
    /\ LET recs == [Current EXCEPT ![i] = Emptied(now')]
       IN  \/ Write(recs) /\ LockSecrets(t) /\ Does(t, [at |-> "forget", id |-> i])
           \/ secrets_lock = None /\ Refuse(recs) /\ UNCHANGED cmdVars
    /\ UNCHANGED <<ring, keyring, server, version, sync, watched>>

\* keychain::delete, which tells nobody when it fails.
DeleteSecrets(t) ==
    /\ task[t].at = "forget"
    /\ \/ ring' = [ring EXCEPT ![task[t].id] = None] /\ UNCHANGED failures
       \/ Fault /\ UNCHANGED ring
    /\ UnlockSecrets(t) /\ Does(t, Idle)
    /\ UNCHANGED <<now, storeVars, keyring, server, version, sync, watched>>

-----------------------------------------------------------------------------
(* Changes of one field, and of the folders. *)

\* edit_device_only: set_connection_open and update_last_accessed stamp nothing.
SetOpen(i) ==
    /\ IsLive(Current[i])
    /\ LET recs == [Current EXCEPT ![i].open = ~@] IN Write(recs) \/ Refuse(recs)
    /\ UNCHANGED <<now, ring, keyring, server, version, cmdVars, sync, watched>>

\* edit_where: move_connection_to_folder, set_connection_tag and, for every
\* connection in the folder, delete_folder.
EditWhere(which, folder) ==
    /\ which # {} /\ \A i \in which : IsLive(Current[i])
    /\ Stamps
    /\ LET recs == [i \in Id |-> IF i \in which THEN [Current[i] EXCEPT !.updated_at = now', !.folder_id = folder]
                                 ELSE Current[i]]
       IN  \/ Write(recs) /\ StaysTyped(which)
           \/ Refuse(recs) /\ UNCHANGED typed
    /\ UNCHANGED <<ring, keyring, server, version, cmdVars, sync, torn>>

Move(i, folder)      == EditWhere({i}, folder)
DetachFolder(folder) == EditWhere({i \in Id : Current[i].folder_id = folder}, None)

-----------------------------------------------------------------------------
(* A sync of the connections (SyncPass has its other stores and its retries). *)

Syncs(step) == sync' = step

\* The download, then Storage::records.
SyncRecords ==
    /\ sync.at = "idle"
    /\ Syncs([NoSync EXCEPT !.at = "secrets", !.remote = server, !.version = version,
                            !.before = [i \in Id |-> [config |-> Current[i], secrets |-> None]]])
    /\ cache' = Current
    /\ UNCHANGED <<now, disk, ring, keyring, server, version, cmdVars, failures, watched>>

\* The edit is in the record, or a later change of it here, and its secret not in the keychain.
ReadWithoutSecret(t) ==
    task[t].at = "secret" /\ sync.before[task[t].id].config.updated_at >= task[t].stamp

\* Snapshot::read collects the secrets of those records, without the secrets lock.
SyncSecrets ==
    /\ sync.at = "secrets"
    /\ LET before == [i \in Id |-> Collect(sync.before[i].config, ring[i])]
       IN  \/ /\ Syncs([sync EXCEPT !.at = "upload", !.before = before, !.merged = Merged(before, sync.remote)])
              /\ torn' = (torn \/ \E t \in Thread : ReadWithoutSecret(t))
              /\ UNCHANGED failures
           \/ Fault /\ Syncs(NoSync) /\ UNCHANGED torn
    /\ UNCHANGED <<now, storeVars, ring, keyring, server, version, cmdVars, typed>>

\* The upload is left out when the server holds the same, and refused when it has
\* changed since the download; then the pass starts again.
SyncUpload ==
    /\ sync.at = "upload"
    /\ \/ /\ sync.version > 0 /\ SameAs(sync.merged, sync.remote)
          /\ Syncs([sync EXCEPT !.at = "write", !.remote = Empty]) /\ UNCHANGED <<server, version>>
       \/ /\ ~(sync.version > 0 /\ SameAs(sync.merged, sync.remote)) /\ sync.version = version
          /\ Syncs([sync EXCEPT !.at = "write", !.remote = Empty])
          /\ server' = sync.merged /\ version' = version + 1
       \/ /\ ~(sync.version > 0 /\ SameAs(sync.merged, sync.remote)) /\ sync.version # version
          /\ Syncs(NoSync) /\ UNCHANGED <<server, version>>
    /\ UNCHANGED <<now, storeVars, ring, keyring, cmdVars, failures, watched>>

\* replace_synced_if_unchanged: opened or not as they are by now.
MergedKeepingOpen(current) ==
    [i \in Id |-> LET r == sync.merged[i].config
                  IN  IF IsLive(r) /\ current[i] # Absent THEN [r EXCEPT !.open = current[i].open] ELSE r]

\* The connections whose secrets write_connections has to save.
ToSave ==
    {i \in Id : LET b == sync.before[i] c == sync.merged[i]
                IN  /\ SharedPart(b.config) # SharedPart(c.config) \/ ~SecretsAgree(b, c)
                    /\ Held(b) # Held(c)}

\* A mistake the checks must catch: the merged records are written over any edit.
SyncWriteBlindly ==
    /\ sync.at = "write" /\ LockSecrets(Sync)
    /\ Write(MergedKeepingOpen(Current))
    /\ Syncs([sync EXCEPT !.at = "save", !.before = Empty, !.todo = ToSave])
    /\ UNCHANGED <<now, ring, keyring, server, version, task, watched>>

\* write_connections, under the secrets lock: the records, unless they changed.
SyncWrite ==
    /\ sync.at = "write" /\ LockSecrets(Sync)
    /\ \/ /\ Shared(Current) # Shared(Configs(sync.before))
          /\ cache' = Current
          /\ Syncs([NoSync EXCEPT !.at = "save"]) /\ UNCHANGED <<disk, failures>>
       \/ /\ Shared(Current) = Shared(Configs(sync.before))
          /\ LET recs == MergedKeepingOpen(Current)
             IN  \/ Write(recs) /\ Syncs([sync EXCEPT !.at = "save", !.before = Empty, !.todo = ToSave])
                 \/ Refuse(recs) /\ Syncs([NoSync EXCEPT !.at = "save"])
    /\ UNCHANGED <<now, ring, keyring, server, version, task, watched>>

\* save_secrets of one connection; a refusal does not stop the others.
SyncSaveSecret(i) ==
    /\ sync.at = "save" /\ i \in sync.todo
    /\ Syncs([sync EXCEPT !.todo = @ \ {i}])
    /\ \/ sync.merged[i].secrets # Unknown /\ keyring
          /\ ring' = [ring EXCEPT ![i] = sync.merged[i].secrets] /\ UNCHANGED failures
       \/ ~keyring /\ UNCHANGED <<ring, failures>>
       \/ Fault /\ UNCHANGED ring
    /\ UNCHANGED <<now, storeVars, keyring, server, version, cmdVars, watched>>

SyncEnds ==
    /\ sync.at = "save" /\ sync.todo = {}
    /\ UnlockSecrets(Sync) /\ Syncs(NoSync)
    /\ UNCHANGED <<now, storeVars, ring, keyring, server, version, task, failures, watched>>

-----------------------------------------------------------------------------
\* Another device's sync brings an edit of its own, or a deletion, to the server.
OtherDevice(i) ==
    /\ version > 0 /\ server[i].config # Absent /\ Stamps
    /\ \E deleted \in BOOLEAN, secret \in Secret \cup {None, Unknown} :
           server' = [server EXCEPT ![i] =
               IF deleted THEN [config |-> Emptied(now'), secrets |-> None]
               ELSE [config |-> [Absent EXCEPT !.updated_at = now', !.auth = TRUE], secrets |-> secret]]
    /\ version' = version + 1
    /\ UNCHANGED <<storeVars, ring, keyring, cmdVars, sync, failures, watched>>

\* The app ends, or is killed, anywhere.
Crash ==
    /\ Fault
    /\ cache' = Uncached /\ task' = [t \in Thread |-> Idle]
    /\ sync' = NoSync /\ secrets_lock' = None
    /\ UNCHANGED <<now, disk, ring, keyring, server, version, watched>>

SyncStep == SyncRecords \/ SyncSecrets \/ SyncUpload \/ SyncWrite \/ SyncEnds
            \/ \E i \in Id : SyncSaveSecret(i)

CommandStep(t) == Add(t) \/ UpdateRecord(t) \/ UpdateSecret(t) \/ DeleteSecrets(t)

Next ==
    \/ Load \/ Crash \/ SyncStep
    \/ \E t \in Thread : CommandStep(t) \/ \E i \in Id : NewSecrets(t, i) \/ FindForEdit(t, i) \/ DeleteRecord(t, i)
    \/ \E i \in Id : SetOpen(i) \/ OtherDevice(i) \/ \E f \in Folder \cup {None} : Move(i, f)
    \/ \E f \in Folder : DetachFolder(f)

Spec == Init /\ [][Next]_vars

\* A command that has begun goes on by itself, and a sync is always started again (at
\* every start, edit and window focus).
FairSpec == Spec /\ WF_vars(SyncStep) /\ \A t \in Thread : WF_vars(CommandStep(t))

=============================================================================
