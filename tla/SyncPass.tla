------------------------------ MODULE SyncPass ------------------------------
(***************************************************************************)
(* Devices of one account syncing their stores through the server           *)
(* (src-tauri/src/sync/pass.rs, snapshot.rs, state.rs): one sync downloads *)
(* the server's copy, reads the stores, merges, uploads, and only then     *)
(* saves, store by store; every step of it interleaves with the edits made *)
(* on the same device and with the other devices' syncs.                   *)
(*                                                                         *)
(* Time is one clock, now, which a device reads with its own constant      *)
(* error Skew[d].  The bounds MaxTime, MaxEdits, MaxFaults and MaxLapses   *)
(* are the model's; they cap the clock, the edits made on all devices, the *)
(* calls that fail or syncs that are cut short, and the times Premium      *)
(* lapses.                                                                 *)
(***************************************************************************)
EXTENDS Merge

CONSTANTS
    Device,         \* the devices signed in to the account
    Stores,         \* the number of synced stores, read and written as 1..Stores
    SettingStores,  \* those of them whose entries merge as settings do
    Id,             \* the record ids (map keys, setting names) of a store
    Content,        \* what an edit can leave in a record
    Skew,           \* how far each device's clock is ahead of the server's
    MaxPasses,      \* MAX_PASSES
    SyncTakesTime,  \* whether the clock may move on while a sync runs
    SyncedStart,    \* the snapshots every device may hold in common at the start, if any
    MaxTime, MaxEdits, MaxFaults, MaxLapses

Store    == 1..Stores
Snapshot == [Store -> [Id -> Slot]]
Nothing  == [s \in Store |-> [i \in Id |-> Absent]]

ASSUME ConstantsAssumption ==
    /\ Stores \in Nat \ {0}
    /\ SettingStores \subseteq Store
    /\ Content \subseteq Nat
    /\ Skew \in [Device -> Nat]
    /\ MaxPasses \in Nat \ {0}
    /\ SyncTakesTime \in BOOLEAN
    /\ SyncedStart \subseteq Snapshot
    /\ MaxTime \in Nat /\ MaxEdits \in Nat /\ MaxFaults \in Nat /\ MaxLapses \in Nat

\* A copy the server holds under a version, or held.  Version 0 is no copy at all.
Copy   == [version : Nat, data : Snapshot]
NoCopy == [version |-> 0, data |-> Nothing]

VARIABLES
    now,        \* the server's clock
    edits,      \* edits made so far
    faults,     \* calls failed and syncs cut short so far
    lapses,     \* times Premium has lapsed so far
    premium,    \* whether the server accepts this account's uploads
    server,     \* the copy the server holds
    reached,    \* per record, the newest deletion that ever reached the server
    live,       \* live[d]: what device d's stores hold
    last_sync,  \* last_sync[d], kept[d]: device d's SyncState on disk
    kept,
    pc,         \* where device d's sync is, "idle" between syncs
    pass        \* pass[d]: what the running pass holds in memory

bounds     == <<edits, faults, lapses>>
serverVars == <<server, reached, premium>>
diskVars   == <<live, last_sync, kept>>
vars       == <<now, bounds, serverVars, diskVars, pc, pass>>

-----------------------------------------------------------------------------
(* What a pass holds: the sync's start time, which of the MAX_PASSES it is, *)
(* the copy it downloaded, the stores as it read them, the merged snapshot, *)
(* the store it reads or writes next, whether every store so far was        *)
(* replaced, and the server's copy it will keep.                            *)

Pass == [started : Nat, number : 1..MaxPasses, remote : Copy, before : Snapshot,
         merged : Snapshot, next : Nat, complete : BOOLEAN, copy : Copy]

PassAt(started, number) ==
    [started |-> started, number |-> number, remote |-> NoCopy, before |-> Nothing,
     merged |-> Nothing, next |-> 1, complete |-> TRUE, copy |-> NoCopy]

NoPass == PassAt(0, 1)

Clock(d) == now + Skew[d]

\* Snapshot::merged, store by store and id by id.
Merged(m, mine, theirs) ==
    [s \in Store |-> [i \in Id |->
        IF s \in SettingStores THEN MergeSetting(m, mine[s][i], theirs[s][i])
                               ELSE MergeRecord(m, mine[s][i], theirs[s][i])]]

\* With nothing on the server, last_sync does not count: there is nothing there
\* to take this device's data's place.
MergeFor(d, remote) ==
    Merging(pass[d].started, IF remote = NoCopy THEN Never ELSE last_sync[d])

\* A record's deletion reaches the server with the snapshot that holds its marker.
MarkersReached(data) ==
    [s \in Store |-> [i \in Id |->
        IF IsMarker(data[s][i]) /\ data[s][i].updated_at > reached[s][i]
        THEN data[s][i].updated_at ELSE reached[s][i]]]

-----------------------------------------------------------------------------
FreshStart ==
    /\ server = NoCopy
    /\ \E mine \in [Device -> [SettingStores -> [Id -> Content \cup {Default}]]] :
           live = [d \in Device |-> [s \in Store |-> [i \in Id |->
                     IF s \in SettingStores THEN PutAt(0, mine[d][s][i]) ELSE Absent]]]
    /\ last_sync = [d \in Device |-> Never]
    /\ kept = [d \in Device |-> NoCopy]

AlreadySynced ==
    \E data \in SyncedStart :
        /\ server = [version |-> 1, data |-> data]
        /\ live = [d \in Device |-> data]
        /\ last_sync = Skew     \* every device last synced at time 0, by its own clock
        /\ kept = [d \in Device |-> [version |-> 1, data |-> data]]

Init ==
    /\ IF SyncedStart = {} THEN FreshStart ELSE AlreadySynced
    /\ now = 0
    /\ edits = 0 /\ faults = 0 /\ lapses = 0
    /\ premium = TRUE
    /\ reached = [s \in Store |-> [i \in Id |-> Never]]
    /\ pc = [d \in Device |-> "idle"]
    /\ pass = [d \in Device |-> NoPass]

-----------------------------------------------------------------------------
(* The world around a sync. *)

Tick ==
    /\ now < MaxTime
    /\ SyncTakesTime \/ \A d \in Device : pc[d] = "idle"
    /\ now' = now + 1
    /\ UNCHANGED <<bounds, serverVars, diskVars, pc, pass>>

\* The server's doing: uploads are refused while Premium has lapsed.
PremiumLapses ==
    /\ premium /\ lapses < MaxLapses
    /\ premium' = FALSE /\ lapses' = lapses + 1
    /\ UNCHANGED <<now, edits, faults, server, reached, diskVars, pc, pass>>

PremiumRenewed ==
    /\ ~premium
    /\ premium' = TRUE
    /\ UNCHANGED <<now, bounds, server, reached, diskVars, pc, pass>>

\* A store's slot changes under the store's lock, whatever the device's sync does.
Edit(d, s, i, slot) ==
    /\ edits < MaxEdits
    /\ live' = [live EXCEPT ![d][s][i] = slot]
    /\ edits' = edits + 1
    /\ UNCHANGED <<now, faults, lapses, serverVars, last_sync, kept, pc, pass>>

\* RecordList::put and edit_where, RecordMap::put.
Put(d, s, i, content) ==
    /\ s \notin SettingStores
    /\ Edit(d, s, i, PutAt(Clock(d), content))

\* RecordList::delete_where and RecordMap::delete_where: only what is live is marked.
Delete(d, s, i) ==
    /\ s \notin SettingStores
    /\ IsLive(live[d][s][i])
    /\ Edit(d, s, i, MarkerAt(Clock(d)))

\* StampedSettings::changed_to: only a setting whose value differs is stamped.
ChangeSetting(d, s, i, content) ==
    /\ s \in SettingStores
    /\ content # live[d][s][i].content
    /\ Edit(d, s, i, PutAt(Clock(d), content))

-----------------------------------------------------------------------------
(* One sync of device d. *)

GoTo(d, where, p) ==
    /\ pc' = [pc EXCEPT ![d] = where]
    /\ pass' = [pass EXCEPT ![d] = p]

Ended(d) == GoTo(d, "idle", NoPass)

\* pass() returned false: the loop of sync() runs it again, MAX_PASSES times in all.
Again(d) ==
    IF pass[d].number < MaxPasses
    THEN GoTo(d, "download", PassAt(pass[d].started, pass[d].number + 1))
    ELSE Ended(d)

StartSync(d) ==
    /\ pc[d] = "idle"
    /\ GoTo(d, "download", PassAt(Clock(d), 1))
    /\ UNCHANGED <<now, bounds, serverVars, diskVars>>

\* A mistake the checks must catch: the kept copy answers whatever the server holds.
DownloadOnce(d) ==
    /\ pc[d] = "download"
    /\ GoTo(d, "read", [pass[d] EXCEPT !.remote = IF kept[d] # NoCopy THEN kept[d] ELSE server])
    /\ UNCHANGED <<now, bounds, serverVars, diskVars>>

\* The server's copy; "not modified" is answered from the copy kept here.
Download(d) ==
    /\ pc[d] = "download"
    /\ LET unchanged == kept[d] # NoCopy /\ kept[d].version = server.version
       IN  GoTo(d, "read", [pass[d] EXCEPT !.remote = IF unchanged THEN kept[d] ELSE server])
    /\ UNCHANGED <<now, bounds, serverVars, diskVars>>

\* Snapshot::read takes the stores one after another, so an edit can fall between two.
ReadStore(d) ==
    /\ pc[d] = "read"
    /\ pass[d].next < Stores
    /\ GoTo(d, "read", [pass[d] EXCEPT !.before[pass[d].next] = live[d][pass[d].next],
                                       !.next = pass[d].next + 1])
    /\ UNCHANGED <<now, bounds, serverVars, diskVars>>

\* The last store read, the pass merges and sees whether there is anything to upload.
ReadLastStore(d) ==
    /\ pc[d] = "read"
    /\ pass[d].next = Stores
    /\ LET remote == pass[d].remote
           before == [pass[d].before EXCEPT ![Stores] = live[d][Stores]]
           merged == Merged(MergeFor(d, remote), before, remote.data)
           upload == remote = NoCopy \/ merged # remote.data
       IN  GoTo(d, IF upload THEN "upload" ELSE "save",
                [pass[d] EXCEPT !.before = before, !.merged = merged, !.next = 1,
                                !.copy = remote])
    /\ UNCHANGED <<now, bounds, serverVars, diskVars>>

\* The server stores the merged snapshot in place of the version the pass downloaded.
Stored(d) ==
    /\ pc[d] = "upload"
    /\ premium
    /\ server.version = pass[d].remote.version
    /\ server' = [version |-> server.version + 1, data |-> pass[d].merged]
    /\ reached' = MarkersReached(pass[d].merged)
    /\ UNCHANGED <<now, edits, lapses, premium, diskVars>>

Upload(d) ==
    /\ Stored(d)
    /\ GoTo(d, "save", [pass[d] EXCEPT !.copy = server'])
    /\ UNCHANGED faults

\* The server stored it and its answer never came: the sync fails.
UploadUnanswered(d) ==
    /\ faults < MaxFaults
    /\ Stored(d)
    /\ Ended(d)
    /\ faults' = faults + 1

\* Another device stored a newer version first.
UploadOvertaken(d) ==
    /\ pc[d] = "upload"
    /\ premium
    /\ server.version # pass[d].remote.version
    /\ Again(d)
    /\ UNCHANGED <<now, bounds, serverVars, diskVars>>

\* receive_only: what was downloaded is merged and saved, and nothing goes up.
UploadRefused(d) ==
    /\ pc[d] = "upload"
    /\ ~premium
    /\ IF pass[d].remote = NoCopy THEN Ended(d)
       ELSE GoTo(d, "save",
                [pass[d] EXCEPT !.merged = Merged(Receiving(pass[d].started, last_sync[d]),
                                                  pass[d].before, pass[d].remote.data)])
    /\ UNCHANGED <<now, bounds, serverVars, diskVars>>

\* A mistake the checks must catch: every store is replaced, edited meanwhile or not.
SaveStoreBlindly(d) ==
    /\ pc[d] = "save"
    /\ live' = [live EXCEPT ![d][pass[d].next] = pass[d].merged[pass[d].next]]
    /\ GoTo(d, IF pass[d].next = Stores THEN "finish" ELSE "save",
            [pass[d] EXCEPT !.next = IF pass[d].next = Stores THEN Stores ELSE pass[d].next + 1])
    /\ UNCHANGED <<now, bounds, serverVars, last_sync, kept>>

\* replace_if_unchanged: a store is replaced only if it holds what the pass read.
SaveStore(d) ==
    /\ pc[d] = "save"
    /\ LET s == pass[d].next
           unchanged == live[d][s] = pass[d].before[s]
       IN  /\ live' = IF unchanged THEN [live EXCEPT ![d][s] = pass[d].merged[s]] ELSE live
           /\ GoTo(d, IF s = Stores THEN "finish" ELSE "save",
                   [pass[d] EXCEPT !.next = IF s = Stores THEN s ELSE s + 1,
                                   !.complete = pass[d].complete /\ unchanged])
    /\ UNCHANGED <<now, bounds, serverVars, last_sync, kept>>

\* Mistakes the checks must catch: the merged records kept as the server's copy, and
\* last_sync moved on when a store was left alone.
SaveMergedAsCopy(d) ==
    /\ pc[d] = "finish"
    /\ last_sync' = IF pass[d].complete THEN [last_sync EXCEPT ![d] = pass[d].started]
                                        ELSE last_sync
    /\ kept' = [kept EXCEPT ![d] = [version |-> pass[d].copy.version, data |-> pass[d].merged]]
    /\ IF pass[d].complete THEN Ended(d) ELSE Again(d)
    /\ UNCHANGED <<now, bounds, serverVars, live>>

SaveTimeAlways(d) ==
    /\ pc[d] = "finish"
    /\ last_sync' = [last_sync EXCEPT ![d] = pass[d].started]
    /\ kept' = [kept EXCEPT ![d] = pass[d].copy]
    /\ IF pass[d].complete THEN Ended(d) ELSE Again(d)
    /\ UNCHANGED <<now, bounds, serverVars, live>>

\* The last step of save(): a store left alone is not synced, so last_sync stays.
SaveState(d) ==
    /\ pc[d] = "finish"
    /\ last_sync' = IF pass[d].complete THEN [last_sync EXCEPT ![d] = pass[d].started]
                                        ELSE last_sync
    /\ kept' = [kept EXCEPT ![d] = pass[d].copy]
    /\ IF pass[d].complete THEN Ended(d) ELSE Again(d)
    /\ UNCHANGED <<now, bounds, serverVars, live>>

\* A call or a write that fails, or the app quitting: what was written stays.
CutShort(d) ==
    /\ pc[d] # "idle"
    /\ faults < MaxFaults
    /\ faults' = faults + 1
    /\ Ended(d)
    /\ UNCHANGED <<now, edits, lapses, serverVars, diskVars>>

-----------------------------------------------------------------------------
UserEdits(d) ==
    \E s \in Store, i \in Id :
        \/ \E content \in Content : Put(d, s, i, content) \/ ChangeSetting(d, s, i, content)
        \/ Delete(d, s, i)

SyncStep(d) ==
    \/ StartSync(d) \/ Download(d) \/ ReadStore(d) \/ ReadLastStore(d)
    \/ Upload(d) \/ UploadOvertaken(d) \/ UploadRefused(d)
    \/ SaveStore(d) \/ SaveState(d)

Fault(d) == UploadUnanswered(d) \/ CutShort(d)

Next ==
    \/ Tick \/ PremiumLapses \/ PremiumRenewed
    \/ \E d \in Device : UserEdits(d) \/ SyncStep(d) \/ Fault(d)

Spec == Init /\ [][Next]_vars

\* A sync under way takes its next step: its reads, merges and writes wait for nobody,
\* and a call is answered or fails within REQUEST_TIMEOUT (http.rs).  Nothing makes a
\* device sync again (schedule.rs: "There is no periodic sync") or Premium be renewed;
\* the user, the clock and the network's faults owe nothing either.
SyncGoesOn(d) == pc[d] # "idle" /\ SyncStep(d)

FairSpec == Spec /\ \A d \in Device : WF_vars(SyncGoesOn(d))

-----------------------------------------------------------------------------
(* What the sync must never do. *)

\* The type invariant: every store holds slots, every pass what Pass says.
TypeOK ==
    /\ now \in Nat /\ edits \in Nat /\ faults \in Nat /\ lapses \in Nat
    /\ premium \in BOOLEAN
    /\ server \in Copy
    /\ reached \in [Store -> [Id -> Nat \cup {Never}]]
    /\ live \in [Device -> Snapshot]
    /\ last_sync \in [Device -> Nat \cup {Never}]
    /\ kept \in [Device -> Copy]
    /\ pc \in [Device -> {"idle", "download", "read", "upload", "save", "finish"}]
    /\ pass \in [Device -> Pass]
    /\ \A d \in Device : pass[d].next \in Store

\* Whether slot a of store s beats slot b.
Beats(s, a, b) == IF s \in SettingStores THEN SettingOutranks(a, b) ELSE Outranks(a, b)

\* A device away for longer than a marker lives takes the server's copy outright.
TakesOver(d) ==
    /\ pass[d].remote # NoCopy
    /\ Stale(Merging(pass[d].started, last_sync[d]))

\* A sync never undoes an edit: what it writes over a slot is never beaten by what
\* the slot held at that moment, an edit made since the pass read the store
\* included (snapshot.rs write_if_unchanged).  Only an old marker is erased, with
\* the record it deletes here, and only a device away for longer than a marker
\* lives gives up its own records.
SyncNeverUndoesAnEdit ==
    [][edits' = edits =>
        \A d \in Device, s \in Store, i \in Id :
            LET old == live[d][s][i]
                new == live'[d][s][i]
            IN  \/ ~Beats(s, old, new)
                \/ new = Absent /\ (IsMarker(old) \/ IsMarker(pass[d].remote.data[s][i]))
                \/ TakesOver(d)]_vars

\* No upload takes the server back: the copy it stores never loses a record to an
\* older one, whatever the other devices uploaded since it was downloaded (pass.rs,
\* the version an upload replaces).  A record leaves the server only with the old
\* marker that deletes it.
UploadsNeverRollBack ==
    [][\A s \in Store, i \in Id :
            LET old == server.data[s][i]
                new == server'.data[s][i]
            IN  \/ ~Beats(s, old, new)
                \/ /\ new = Absent
                   /\ \/ IsMarker(old)
                      \/ \E d \in Device : pc[d] = "upload" /\ IsMarker(pass[d].before[s][i])]_vars

\* The copy a device keeps under a version is the one the server holds under it, so
\* "not modified" may be answered from it (pass.rs download).
KeptCopyMatchesServer ==
    \A d \in Device : kept[d].version = server.version => kept[d].data = server.data

\* A record deleted on one device does not come back: once its deletion has reached
\* the server, the server never again holds a version of it from before, not even
\* after the marker is erased (merge.rs MARKER_LIFETIME_MS and stale).
DeletedStaysDeleted ==
    \A s \in Store, i \in Id :
        IsLive(server.data[s][i]) => server.data[s][i].updated_at > reached[s][i]

\* last_sync moves on only when every store took in the copy the device keeps: the
\* device holds nothing older than that copy (pass.rs save).
LastSyncMeansSaved ==
    [][\A d \in Device : last_sync'[d] # last_sync[d] =>
        \A s \in Store, i \in Id :
            \/ live'[d][s][i].updated_at >= kept'[d].data[s][i].updated_at
            \/ IsMarker(kept'[d].data[s][i]) /\ live'[d][s][i] = Absent]_vars

\* What the schedule and the account owe for the devices to agree, and the code does
\* not promise: every device is made to sync again and again (started, edited or asked
\* with Sync now), and Premium does not stay lapsed.
SyncedAgain   == \A d \in Device : []<><<StartSync(d)>>_vars
PremiumStands == <>[]premium

\* Once the edits and the failures stop, devices that keep being synced end up with the
\* server's records, whatever the order of the syncs, the calls that failed and the
\* clocks of the devices (pass.rs, merge.rs).
DevicesConverge ==
    SyncedAgain /\ PremiumStands => <>[](\A d \in Device : live[d] = server.data)
=============================================================================
