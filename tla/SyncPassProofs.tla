--------------------------- MODULE SyncPassProofs ---------------------------
(***************************************************************************)
(* Safety of SyncPass for any number of devices, stores, records and       *)
(* passes, whatever the clocks, faults and lapses.                         *)
(*                                                                         *)
(* The inductive invariant Inv joins the types, what versions say about    *)
(* the copies a device holds, and what a merged snapshot still holds of    *)
(* the two it was merged from while it waits to be uploaded and saved.     *)
(* Before it come the laws of Merge, for every two or three slots, which   *)
(* make the order in which devices sync irrelevant.                        *)
(***************************************************************************)
EXTENDS SyncPass, TLAPS

-----------------------------------------------------------------------------
(* The merge rules. *)

\* What stores hold: a marker is blank, and only a marker has an upload time.
StoredSlot == {slot \in Slot : IF slot.deleted THEN slot.content = Blank
                                               ELSE slot.uploaded_at = Never}

-----------------------------------------------------------------------------
(* Types. *)

\* The slots a device writes, and the one it erases, are slots.
LEMMA SlotsMade ==
    /\ Absent \in Slot
    /\ \A t \in Nat, c \in Nat : PutAt(t, c) \in Slot
    /\ \A t \in Nat : MarkerAt(t) \in Slot
BY DEF Absent, PutAt, MarkerAt, Slot, Never, Blank

\* The winner of two slots is a slot.
LEMMA WinnerType ==
    ASSUME NEW mine \in Slot, NEW theirs \in Slot
    PROVE  Winner(mine, theirs) \in Slot
BY DEF Winner, EarliestUpload, Slot, Never

\* A merge gives back a slot.
LEMMA MergeType ==
    ASSUME NEW m \in MergeRun, NEW mine \in Slot, NEW theirs \in Slot
    PROVE  /\ MergeRecord(m, mine, theirs) \in Slot
           /\ MergeSetting(m, mine, theirs) \in Slot
<1> DEFINE left == IF Stale(m) THEN Absent ELSE mine
           won  == Winner(left, theirs)
<1>1. won \in Slot
  BY SlotsMade, WinnerType
<1>2. UploadTime(m, won) \in Nat \cup {Never}
  BY <1>1 DEF UploadTime, MergeRun, Slot
<1>3. Uploaded(m, won) \in Slot
  BY <1>1, <1>2, SlotsMade DEF Uploaded, Slot
<1>4. MergeSetting(m, mine, theirs) \in Slot
  BY DEF MergeSetting
<1> QED
  BY <1>3, <1>4 DEF MergeRecord

-----------------------------------------------------------------------------
(* The order. *)

\* An upload time does not change how a slot ranks.
LEMMA RankIgnoresUploadTime ==
    ASSUME NEW a \in Slot, NEW b \in Slot, NEW t \in Nat \cup {Never}
    PROVE  /\ Outranks(a, [b EXCEPT !.uploaded_at = t]) <=> Outranks(a, b)
           /\ Outranks([b EXCEPT !.uploaded_at = t], a) <=> Outranks(b, a)
BY DEF Outranks, Slot, Never

\* Neither copy outranks the winner: a merge never loses a newer change, nor a
\* deletion to a tie (merge.rs rank).
THEOREM WinnerIsNotOutranked ==
    ASSUME NEW mine \in Slot, NEW theirs \in Slot
    PROVE  /\ ~Outranks(mine, Winner(mine, theirs))
           /\ ~Outranks(theirs, Winner(mine, theirs))
BY DEF Winner, Outranks, SameMarker, EarliestUpload, Slot, Never

\* Which device merges makes no difference: both sides name the same winner.
THEOREM WinnerCommutes ==
    ASSUME NEW a \in StoredSlot, NEW b \in StoredSlot
    PROVE  Winner(a, b) = Winner(b, a)
<1>1. CASE SameMarker(a, b)
  <2>1. EarliestUpload(a.uploaded_at, b.uploaded_at) = EarliestUpload(b.uploaded_at, a.uploaded_at)
    BY DEF EarliestUpload, StoredSlot, Slot, Never
  <2> QED
    BY <1>1, <2>1 DEF Winner, Outranks, SameMarker, StoredSlot, Slot, Blank
<1>2. CASE ~SameMarker(a, b)
  <2>1. Outranks(a, b) \/ Outranks(b, a) \/ a = b
    BY <1>2 DEF Outranks, SameMarker, StoredSlot, Slot, Never
  <2>2. ~(Outranks(a, b) /\ Outranks(b, a))
    BY DEF Outranks, StoredSlot, Slot, Never
  <2> QED
    BY <1>2, <2>1, <2>2 DEF Winner, SameMarker
<1> QED
  BY <1>1, <1>2

\* Merging the same copy again changes nothing: a sync that runs twice is harmless.
THEOREM WinnerIdempotent ==
    ASSUME NEW a \in StoredSlot, NEW b \in StoredSlot
    PROVE  Winner(Winner(a, b), b) = Winner(a, b)
BY DEF Winner, Outranks, SameMarker, EarliestUpload, StoredSlot, Slot, Never, Blank

\* The order copies arrive in makes no difference: three copies merged in either
\* order leave the same one.
THEOREM WinnerAssociates ==
    ASSUME NEW a \in StoredSlot, NEW b \in StoredSlot, NEW c \in StoredSlot
    PROVE  Winner(Winner(a, b), c) = Winner(a, Winner(b, c))
BY SMTT(60) DEF Winner, Outranks, SameMarker, EarliestUpload, StoredSlot, Slot, Never, Blank

-----------------------------------------------------------------------------
(* What a merge keeps of both sides. *)

\* The merged slot is outranked by neither side, unless a marker's time is over and
\* takes the record with it, or the device is so stale that it takes the remote copy.
LEMMA MergeKeepsRecords ==
    ASSUME NEW m \in MergeRun, NEW mine \in Slot, NEW theirs \in Slot
    PROVE  LET merged == MergeRecord(m, mine, theirs)
               erased == merged = Absent /\ (IsMarker(mine) \/ IsMarker(theirs))
           IN  /\ Stale(m) \/ ~Outranks(mine, merged) \/ erased
               /\ ~Outranks(theirs, merged) \/ erased
<1> DEFINE left == IF Stale(m) THEN Absent ELSE mine
           won  == Winner(left, theirs)
<1>1. left \in Slot
  BY SlotsMade
<1>2. won \in Slot
  BY <1>1, WinnerType
<1>3. IsMarker(won) => IsMarker(mine) \/ IsMarker(theirs)
  BY DEF IsMarker, Winner, Absent, Slot
<1>4. ~Outranks(left, won) /\ ~Outranks(theirs, won)
  BY <1>1, WinnerIsNotOutranked
<1>5. UploadTime(m, won) \in Nat \cup {Never}
  BY <1>2 DEF UploadTime, MergeRun, Slot
<1>6. CASE Expired(m, won)
  BY <1>3, <1>6 DEF MergeRecord, Uploaded, Expired
<1>7. CASE ~Expired(m, won)
  <2>1. /\ ~Outranks(left, Uploaded(m, won))
        /\ ~Outranks(theirs, Uploaded(m, won))
    BY <1>1, <1>2, <1>4, <1>5, <1>7, RankIgnoresUploadTime DEF Uploaded
  <2> QED
    BY <2>1 DEF MergeRecord
<1> QED
  BY <1>6, <1>7

\* The merged setting is outranked by neither side, unless the device is stale.
LEMMA MergeKeepsSettings ==
    ASSUME NEW m \in MergeRun, NEW mine \in Slot, NEW theirs \in Slot
    PROVE  LET merged == MergeSetting(m, mine, theirs)
           IN  /\ Stale(m) \/ ~SettingOutranks(mine, merged)
               /\ ~SettingOutranks(theirs, merged)
BY DEF MergeSetting, SettingOutranks, CustomisedAtZero, Absent, Slot, Never, Blank, Default

-----------------------------------------------------------------------------
(* The inductive invariant of syncing. *)

\* A copy taken from the server is of a version it has held, and of the data it
\* holds now when that version is the current one.
FromServer(copy) ==
    /\ copy.version <= server.version
    /\ copy.version = server.version => copy.data = server.data

CopiesInv ==
    /\ FromServer(NoCopy)
    /\ \A d \in Device :
           FromServer(kept[d]) /\ FromServer(pass[d].remote) /\ FromServer(pass[d].copy)

\* What merging before with theirs may leave of a slot: nothing that is outranked by
\* either, unless a marker took the record with it.
KeepsLocal(s, before, merged, theirs) ==
    \/ ~Beats(s, before, merged)
    \/ merged = Absent /\ (IsMarker(before) \/ IsMarker(theirs))

MergedKeepsLocal(d) ==
    pc[d] \in {"upload", "save"} =>
        \/ TakesOver(d)
        \/ \A s \in Store, i \in Id :
               KeepsLocal(s, pass[d].before[s][i], pass[d].merged[s][i], pass[d].remote.data[s][i])

MergedKeepsRemote(d) ==
    pc[d] = "upload" =>
        \A s \in Store, i \in Id :
            KeepsLocal(s, pass[d].remote.data[s][i], pass[d].merged[s][i], pass[d].before[s][i])

MergedInv == \A d \in Device : MergedKeepsLocal(d) /\ MergedKeepsRemote(d)

Inv == TypeOK /\ CopiesInv /\ MergedInv

USE DEF Store

-----------------------------------------------------------------------------
(* Types. *)

LEMMA NothingType == Nothing \in Snapshot /\ NoCopy \in Copy
BY SlotsMade DEF Nothing, Snapshot, NoCopy, Copy

LEMMA PassAtType ==
    ASSUME NEW t \in Nat, NEW n \in 1..MaxPasses
    PROVE  PassAt(t, n) \in Pass /\ PassAt(t, n).next \in Store
BY NothingType, ConstantsAssumption DEF PassAt, Pass

LEMMA NoPassType == NoPass \in Pass /\ NoPass.next \in Store
BY PassAtType, ConstantsAssumption DEF NoPass

\* Merging two snapshots gives a snapshot.
LEMMA MergedType ==
    ASSUME NEW m \in MergeRun, NEW mine \in Snapshot, NEW theirs \in Snapshot
    PROVE  Merged(m, mine, theirs) \in Snapshot
<1>1. ASSUME NEW s \in Store, NEW i \in Id
      PROVE  /\ MergeSetting(m, mine[s][i], theirs[s][i]) \in Slot
             /\ MergeRecord(m, mine[s][i], theirs[s][i]) \in Slot
  BY MergeType DEF Snapshot
<1> QED
  BY <1>1 DEF Merged, Snapshot

\* Going anywhere with a pass keeps the control and the passes in their types.
LEMMA GoToType ==
    ASSUME TypeOK, NEW d \in Device, NEW p \in Pass, p.next \in Store,
           NEW where \in {"idle", "download", "read", "upload", "save", "finish"},
           GoTo(d, where, p)
    PROVE  /\ pc' \in [Device -> {"idle", "download", "read", "upload", "save", "finish"}]
           /\ pass' \in [Device -> Pass]
           /\ \A e \in Device : pass'[e].next \in Store
           /\ \A e \in Device : pass'[e] = IF e = d THEN p ELSE pass[e]
           /\ \A e \in Device : pc'[e] = IF e = d THEN where ELSE pc[e]
BY DEF TypeOK, GoTo

LEMMA ClockType ==
    ASSUME TypeOK, NEW d \in Device
    PROVE  Clock(d) \in Nat
BY ConstantsAssumption DEF TypeOK, Clock

LEMMA InitType == Init => TypeOK
<1> SUFFICES ASSUME Init PROVE TypeOK
  OBVIOUS
<1>1. CASE FreshStart
  <2>1. server \in Copy /\ kept \in [Device -> Copy] /\ last_sync \in [Device -> Nat \cup {Never}]
    BY <1>1, NothingType DEF FreshStart, Never
  <2>2. live \in [Device -> Snapshot]
    <3>1. PICK mine \in [Device -> [SettingStores -> [Id -> Content \cup {Default}]]] :
            live = [d \in Device |-> [s \in Store |-> [i \in Id |->
                     IF s \in SettingStores THEN PutAt(0, mine[d][s][i]) ELSE Absent]]]
      BY <1>1 DEF FreshStart
    <3>2. ASSUME NEW d \in Device, NEW s \in Store, NEW i \in Id, s \in SettingStores
          PROVE  PutAt(0, mine[d][s][i]) \in Slot
      <4>1. mine[d][s][i] \in Content \cup {Default}
        BY <3>2
      <4>2. Content \cup {Default} \subseteq Nat
        BY ConstantsAssumption DEF Default
      <4>3. mine[d][s][i] \in Nat
        BY <4>1, <4>2
      <4> QED
        BY <4>3, SlotsMade
    <3> QED
      BY <3>1, <3>2, SlotsMade DEF Snapshot
  <2> QED
    BY <2>1, <2>2, NoPassType DEF Init, TypeOK, Never
<1>2. CASE AlreadySynced
  <2>1. PICK data \in SyncedStart :
            /\ server = [version |-> 1, data |-> data]
            /\ live = [d \in Device |-> data]
            /\ last_sync = Skew
            /\ kept = [d \in Device |-> [version |-> 1, data |-> data]]
    BY <1>2 DEF AlreadySynced
  <2>2. data \in Snapshot
    BY ConstantsAssumption
  <2>3. server \in Copy /\ kept \in [Device -> Copy] /\ live \in [Device -> Snapshot]
    BY <2>1, <2>2 DEF Copy
  <2>4. last_sync \in [Device -> Nat \cup {Never}]
    BY <2>1, ConstantsAssumption
  <2> QED
    BY <2>3, <2>4, NoPassType DEF Init, TypeOK, Never
<1> QED
  BY <1>1, <1>2 DEF Init

\* An edit writes a slot.
LEMMA EditType ==
    ASSUME TypeOK, NEW d \in Device, UserEdits(d)
    PROVE  TypeOK'
<1>1. PICK s \in Store, i \in Id, slot \in Slot : Edit(d, s, i, slot)
  <2>1. Clock(d) \in Nat
    BY ClockType
  <2> QED
    BY <2>1, SlotsMade, ConstantsAssumption DEF UserEdits, Put, Delete, ChangeSetting
<1>2. live' \in [Device -> Snapshot]
  BY <1>1 DEF Edit, TypeOK, Snapshot
<1> QED
  BY <1>1, <1>2 DEF Edit, TypeOK, serverVars

\* Every step of a sync keeps the types.
LEMMA SyncType ==
    ASSUME TypeOK, NEW d \in Device, SyncStep(d) \/ Fault(d)
    PROVE  TypeOK'
<1> USE DEF TypeOK
<1>0. /\ pass[d] \in Pass /\ pass[d].next \in Store /\ pass[d].number \in 1..MaxPasses
      /\ pass[d].started \in Nat /\ pass[d].remote \in Copy /\ pass[d].copy \in Copy
      /\ pass[d].before \in Snapshot /\ pass[d].merged \in Snapshot
      /\ pass[d].complete \in BOOLEAN
  BY DEF Pass
<1>1. ASSUME Ended(d)
      PROVE  /\ pc' \in [Device -> {"idle", "download", "read", "upload", "save", "finish"}]
             /\ pass' \in [Device -> Pass] /\ \A e \in Device : pass'[e].next \in Store
  BY <1>1, NoPassType, GoToType DEF Ended
<1>2. ASSUME Again(d)
      PROVE  /\ pc' \in [Device -> {"idle", "download", "read", "upload", "save", "finish"}]
             /\ pass' \in [Device -> Pass] /\ \A e \in Device : pass'[e].next \in Store
  <2>1. CASE pass[d].number < MaxPasses
    <3>1. pass[d].number + 1 \in 1..MaxPasses
      BY <1>0, <2>1, ConstantsAssumption
    <3> QED
      BY <1>0, <1>2, <2>1, <3>1, PassAtType, GoToType DEF Again
  <2> QED
    BY <1>1, <1>2, <2>1 DEF Again
<1>3. CASE StartSync(d)
  <2>1. 1 \in 1..MaxPasses
    BY ConstantsAssumption
  <2> QED
    BY <1>3, <2>1, PassAtType, ClockType, GoToType DEF StartSync, bounds, serverVars, diskVars
<1>4. CASE Download(d)
  <2> DEFINE from == IF kept[d] # NoCopy /\ kept[d].version = server.version THEN kept[d] ELSE server
  <2>1. [pass[d] EXCEPT !.remote = from] \in Pass /\ [pass[d] EXCEPT !.remote = from].next \in Store
    BY <1>0 DEF Pass
  <2> QED
    BY <1>4, <2>1, GoToType DEF Download, bounds, serverVars, diskVars
<1>5. CASE ReadStore(d)
  <2> DEFINE before == [pass[d].before EXCEPT ![pass[d].next] = live[d][pass[d].next]]
             next == pass[d].next + 1
             p == [pass[d] EXCEPT !.before = before, !.next = next]
  <2>1. before \in Snapshot
    BY <1>0 DEF Snapshot
  <2>2. next \in Store
    BY <1>0, <1>5, ConstantsAssumption DEF ReadStore
  <2>3. next \in Nat
    BY <2>2, ConstantsAssumption
  <2> HIDE DEF before, next
  <2>4. p \in Pass /\ p.next = next
    BY <1>0, <2>1, <2>3 DEF Pass
  <2>5. GoTo(d, "read", p)
    BY <1>0, <1>5 DEF ReadStore, Pass, before, next
  <2> QED
    BY <1>5, <2>2, <2>4, <2>5, GoToType DEF ReadStore, bounds, serverVars, diskVars
<1>6. CASE ReadLastStore(d)
  <2> DEFINE remote == pass[d].remote
             before == [pass[d].before EXCEPT ![Stores] = live[d][Stores]]
             merged == Merged(MergeFor(d, remote), before, remote.data)
             upload == remote = NoCopy \/ merged # remote.data
             p      == [pass[d] EXCEPT !.before = before, !.merged = merged, !.next = 1,
                                       !.copy = remote]
  <2>1. Stores \in Store /\ 1 \in Store
    BY ConstantsAssumption
  <2>2. before \in Snapshot
    BY <1>0, <2>1 DEF Snapshot
  <2>3. MergeFor(d, remote) \in MergeRun
    BY <1>0 DEF MergeFor, Merging, MergeRun
  <2>4. remote \in Copy /\ remote.data \in Snapshot
    BY <1>0 DEF Copy
  <2>5. merged \in Snapshot
    BY <2>2, <2>3, <2>4, MergedType
  <2> HIDE DEF before, merged
  <2>6. p \in Pass /\ p.next \in Store
    BY <1>0, <2>1, <2>2, <2>4, <2>5 DEF Pass
  <2>7. GoTo(d, IF upload THEN "upload" ELSE "save", p)
    BY <1>6 DEF ReadLastStore, before, merged
  <2> QED
    BY <1>6, <2>6, <2>7, GoToType DEF ReadLastStore, bounds, serverVars, diskVars
<1>7. ASSUME Stored(d)
      PROVE  server' \in Copy /\ reached' \in [Store -> [Id -> Nat \cup {Never}]]
  <2>1. server' \in Copy
    BY <1>0, <1>7 DEF Stored, Copy
  <2>2. reached' \in [Store -> [Id -> Nat \cup {Never}]]
    <3>1. ASSUME NEW s \in Store, NEW i \in Id
          PROVE  pass[d].merged[s][i].updated_at \in Nat \cup {Never}
                 /\ reached[s][i] \in Nat \cup {Never}
      BY <1>0 DEF Snapshot, Slot
    <3> QED
      BY <1>7, <3>1 DEF Stored, MarkersReached
  <2> QED
    BY <2>1, <2>2
<1>8. CASE Upload(d)
  <2>1. [pass[d] EXCEPT !.copy = server'] \in Pass /\ [pass[d] EXCEPT !.copy = server'].next \in Store
    BY <1>0, <1>7, <1>8 DEF Pass, Upload
  <2> QED
    BY <1>7, <1>8, <2>1, GoToType DEF Upload, Stored, diskVars
<1>9. CASE UploadUnanswered(d)
  BY <1>1, <1>7, <1>9, ConstantsAssumption DEF UploadUnanswered, Stored, diskVars
<1>10. CASE UploadOvertaken(d)
  BY <1>2, <1>10 DEF UploadOvertaken, bounds, serverVars, diskVars
<1>11. CASE UploadRefused(d)
  <2> DEFINE merged == Merged(Receiving(pass[d].started, last_sync[d]), pass[d].before, pass[d].remote.data)
             p      == [pass[d] EXCEPT !.merged = merged]
  <2>1. Receiving(pass[d].started, last_sync[d]) \in MergeRun
    BY <1>0 DEF Receiving, MergeRun
  <2>2. merged \in Snapshot
    BY <1>0, <2>1, MergedType DEF Copy
  <2> HIDE DEF merged
  <2>3. p \in Pass /\ p.next \in Store
    BY <1>0, <2>2 DEF Pass
  <2>4. Ended(d) \/ GoTo(d, "save", p)
    BY <1>11 DEF UploadRefused, merged
  <2> QED
    BY <1>1, <1>11, <2>3, <2>4, GoToType DEF UploadRefused, bounds, serverVars, diskVars
<1>12. CASE SaveStore(d)
  <2> DEFINE s == pass[d].next
             next == IF s = Stores THEN s ELSE s + 1
             complete == pass[d].complete /\ live[d][s] = pass[d].before[s]
             p == [pass[d] EXCEPT !.next = next, !.complete = complete]
  <2>1. live' \in [Device -> Snapshot]
    BY <1>0, <1>12 DEF SaveStore, Snapshot
  <2>2. p \in Pass /\ p.next \in Store
    <3>1. next \in Store
      BY <1>0, ConstantsAssumption
    <3>2. complete \in BOOLEAN
      OBVIOUS
    <3>3. next \in Nat
      BY <3>1, ConstantsAssumption
    <3> HIDE DEF next, complete
    <3>4. p \in Pass /\ p.next = next
      BY <1>0, <3>2, <3>3 DEF Pass
    <3> QED
      BY <3>1, <3>4
  <2> HIDE DEF p
  <2>3. GoTo(d, IF s = Stores THEN "finish" ELSE "save", p)
    BY <1>12 DEF SaveStore, p
  <2> QED
    BY <1>12, <2>1, <2>2, <2>3, GoToType DEF SaveStore, bounds, serverVars
<1>13. CASE SaveState(d)
  <2>1. last_sync' \in [Device -> Nat \cup {Never}] /\ kept' \in [Device -> Copy]
    BY <1>0, <1>13 DEF SaveState
  <2> QED
    BY <1>1, <1>2, <1>13, <2>1 DEF SaveState, bounds, serverVars
<1>14. CASE CutShort(d)
  BY <1>1, <1>14 DEF CutShort, serverVars, diskVars
<1> HIDE DEF TypeOK
<1> QED
  BY <1>3, <1>4, <1>5, <1>6, <1>8, <1>9, <1>10, <1>11, <1>12, <1>13, <1>14, Zenon DEF SyncStep, Fault

LEMMA TypeInductive == TypeOK /\ [Next]_vars => TypeOK'
<1> SUFFICES ASSUME TypeOK, [Next]_vars PROVE TypeOK'
  OBVIOUS
<1>1. CASE Tick
  BY <1>1 DEF Tick, TypeOK, bounds, serverVars, diskVars
<1>2. CASE PremiumLapses
  <2>1. premium' \in BOOLEAN
    BY <1>2, Zenon DEF PremiumLapses
  <2>2. lapses' \in Nat
    BY <1>2 DEF PremiumLapses, TypeOK
  <2> QED
    BY <1>2, <2>1, <2>2 DEF PremiumLapses, TypeOK, diskVars
<1>3. CASE PremiumRenewed
  BY <1>3 DEF PremiumRenewed, TypeOK, bounds, diskVars
<1>4. CASE UNCHANGED vars
  BY <1>4 DEF vars, TypeOK, bounds, serverVars, diskVars
<1> QED
  BY <1>1, <1>2, <1>3, <1>4, EditType, SyncType DEF Next

-----------------------------------------------------------------------------
(* Copies and versions. *)

LEMMA InitCopies == Init => CopiesInv
<1> SUFFICES ASSUME Init PROVE CopiesInv
  OBVIOUS
<1>1. \A d \in Device : pass[d].remote = NoCopy /\ pass[d].copy = NoCopy
  BY DEF Init, NoPass, PassAt
<1>2. CASE FreshStart
  BY <1>1, <1>2 DEF FreshStart, CopiesInv, FromServer, NoCopy
<1>3. CASE AlreadySynced
  BY <1>1, <1>3 DEF AlreadySynced, CopiesInv, FromServer, NoCopy
<1> QED
  BY <1>2, <1>3 DEF Init

\* A copy stays the server's when the server stores a newer version.
LEMMA CopyAges ==
    ASSUME TypeOK, NEW copy \in Copy, FromServer(copy),
           UNCHANGED server \/ \E d \in Device : Stored(d)
    PROVE  copy.version <= server'.version /\ (copy.version = server'.version => copy.data = server'.data)
BY DEF FromServer, Stored, TypeOK, Copy

\* Only an upload changes what the server holds.
LEMMA ServerChanges ==
    ASSUME [Next]_vars
    PROVE  UNCHANGED server \/ \E d \in Device : Stored(d)
<1>1. ASSUME NEW d \in Device, UserEdits(d) PROVE UNCHANGED server
  BY <1>1 DEF UserEdits, Put, Delete, ChangeSetting, Edit, serverVars
<1>2. ASSUME NEW d \in Device, SyncStep(d) \/ Fault(d) PROVE UNCHANGED server \/ Stored(d)
  BY <1>2 DEF SyncStep, Fault, StartSync, Download, ReadStore, ReadLastStore, Upload, UploadUnanswered,
              UploadOvertaken, UploadRefused, SaveStore, SaveState, CutShort, serverVars
<1> QED
  BY <1>1, <1>2 DEF Next, Tick, PremiumLapses, PremiumRenewed, vars, serverVars

\* Where the copies a device holds after a step come from.
LEMMA CopiesMove ==
    ASSUME TypeOK, [Next]_vars, NEW e \in Device
    PROVE  /\ kept'[e] \in {kept[e], pass[e].copy}
           /\ pass'[e].remote \in {pass[e].remote, NoCopy, kept[e], server'}
           /\ pass'[e].copy \in {pass[e].copy, NoCopy, pass[e].remote, server'}
<1> DEFINE Goal == /\ kept'[e] \in {kept[e], pass[e].copy}
                   /\ pass'[e].remote \in {pass[e].remote, NoCopy, kept[e], server'}
                   /\ pass'[e].copy \in {pass[e].copy, NoCopy, pass[e].remote, server'}
<1>0. /\ pass[e] \in Pass /\ pass \in [Device -> Pass] /\ kept \in [Device -> Copy]
      /\ pc \in [Device -> {"idle", "download", "read", "upload", "save", "finish"}]
  BY DEF TypeOK
<1>1. CASE UNCHANGED <<kept, pass>>
  BY <1>1
<1>2. ASSUME NEW d \in Device, Ended(d) \/ Again(d)
      PROVE  /\ pass'[e].remote \in {pass[e].remote, NoCopy}
             /\ pass'[e].copy \in {pass[e].copy, NoCopy}
  BY <1>0, <1>2 DEF Ended, Again, GoTo, NoPass, PassAt
<1>3. ASSUME NEW d \in Device, SyncStep(d) \/ Fault(d)
      PROVE  Goal
  <2>1. CASE StartSync(d)
    BY <1>0, <2>1 DEF StartSync, GoTo, Pass, PassAt, diskVars
  <2>2. CASE Download(d)
    <3> DEFINE from == IF kept[d] # NoCopy /\ kept[d].version = server.version THEN kept[d] ELSE server
    <3>1. /\ pass' = [pass EXCEPT ![d] = [pass[d] EXCEPT !.remote = from]]
          /\ kept' = kept /\ server' = server
      BY <2>2 DEF Download, GoTo, diskVars, serverVars
    <3>2. from \in {kept[d], server'}
      BY <3>1
    <3> HIDE DEF from
    <3> QED
      BY <1>0, <3>1, <3>2 DEF Pass
  <2>3. CASE ReadStore(d)
    BY <1>0, <2>3 DEF ReadStore, GoTo, Pass, diskVars
  <2>4. CASE ReadLastStore(d)
    BY <1>0, <2>4 DEF ReadLastStore, GoTo, Pass, diskVars
  <2>5. CASE UploadOvertaken(d)
    BY <1>0, <1>2, <2>5 DEF UploadOvertaken, diskVars
  <2>6. CASE UploadRefused(d)
    BY <1>0, <2>6 DEF UploadRefused, GoTo, Pass, diskVars, Ended, NoPass, PassAt
  <2>7. CASE Upload(d)
    BY <1>0, <2>7 DEF Upload, GoTo, Pass, Stored, diskVars
  <2>8. CASE UploadUnanswered(d)
    BY <1>0, <1>2, <2>8 DEF UploadUnanswered, Stored, diskVars
  <2>9. CASE SaveStore(d)
    BY <1>0, <2>9 DEF SaveStore, GoTo, Pass
  <2>10. CASE SaveState(d)
    BY <1>0, <1>2, <2>10 DEF SaveState
  <2>11. CASE CutShort(d)
    BY <1>0, <1>2, <2>11 DEF CutShort, diskVars
  <2> HIDE DEF Goal
  <2> QED
    BY <1>3, <2>1, <2>2, <2>3, <2>4, <2>5, <2>6, <2>7, <2>8, <2>9, <2>10, <2>11, Zenon DEF SyncStep, Fault
<1> QED
  BY <1>1, <1>3 DEF Next, UserEdits, Put, Delete, ChangeSetting, Edit, Tick, PremiumLapses,
                    PremiumRenewed, vars, diskVars

LEMMA CopiesInductive == TypeOK /\ CopiesInv /\ [Next]_vars => CopiesInv'
<1> SUFFICES ASSUME TypeOK, CopiesInv, [Next]_vars
             PROVE  CopiesInv'
  OBVIOUS
<1> DEFINE Now(copy) == copy.version <= server'.version
                        /\ (copy.version = server'.version => copy.data = server'.data)
<1>1. TypeOK'
  BY TypeInductive
<1>2. Now(server') /\ Now(NoCopy)
  BY <1>1, NothingType, ServerChanges, CopyAges DEF CopiesInv, TypeOK, Copy
<1>3. ASSUME NEW e \in Device
      PROVE  Now(kept[e]) /\ Now(pass[e].remote) /\ Now(pass[e].copy)
  <2>1. kept[e] \in Copy /\ pass[e].remote \in Copy /\ pass[e].copy \in Copy
    BY DEF TypeOK, Pass
  <2> QED
    BY <2>1, ServerChanges, CopyAges DEF CopiesInv
<1>4. ASSUME NEW e \in Device
      PROVE  Now(kept'[e]) /\ Now(pass'[e].remote) /\ Now(pass'[e].copy)
  <2> HIDE DEF Now
  <2> QED
    BY <1>2, <1>3, CopiesMove
<1> QED
  BY <1>2, <1>4 DEF CopiesInv, FromServer, NoCopy

-----------------------------------------------------------------------------
(* What a merged snapshot keeps. *)

LEMMA BeatsIrreflexive ==
    ASSUME NEW s, NEW a \in Slot
    PROVE  ~Beats(s, a, a)
BY DEF Beats, Outranks, SettingOutranks, Slot, Never

\* A merged snapshot keeps both sides, the local one unless the device is stale.
LEMMA MergedKeeps ==
    ASSUME NEW m \in MergeRun, NEW before \in Snapshot, NEW remote \in Snapshot,
           NEW s \in Store, NEW i \in Id
    PROVE  LET merged == Merged(m, before, remote)
           IN  /\ Stale(m) \/ KeepsLocal(s, before[s][i], merged[s][i], remote[s][i])
               /\ KeepsLocal(s, remote[s][i], merged[s][i], before[s][i])
<1>1. before[s][i] \in Slot /\ remote[s][i] \in Slot
  BY DEF Snapshot
<1>2. CASE s \in SettingStores
  <2>1. Merged(m, before, remote)[s][i] = MergeSetting(m, before[s][i], remote[s][i])
    BY <1>2 DEF Merged
  <2> QED
    BY <1>1, <1>2, <2>1, MergeKeepsSettings DEF KeepsLocal, Beats
<1>3. CASE s \notin SettingStores
  <2>1. Merged(m, before, remote)[s][i] = MergeRecord(m, before[s][i], remote[s][i])
    BY <1>3 DEF Merged
  <2> QED
    BY <1>1, <1>3, <2>1, MergeKeepsRecords DEF KeepsLocal, Beats
<1> QED
  BY <1>2, <1>3

LEMMA MergedInductive == TypeOK /\ MergedInv /\ [Next]_vars => MergedInv'
<1> SUFFICES ASSUME TypeOK, MergedInv, [Next]_vars, NEW e \in Device
             PROVE  MergedKeepsLocal(e)' /\ MergedKeepsRemote(e)'
  BY DEF MergedInv
<1>0. /\ pass \in [Device -> Pass] /\ pc \in [Device -> {"idle", "download", "read", "upload", "save", "finish"}]
      /\ live \in [Device -> Snapshot] /\ last_sync \in [Device -> Nat \cup {Never}]
      /\ pass[e] \in Pass /\ pass[e].started \in Nat /\ pass[e].before \in Snapshot
      /\ pass[e].remote.data \in Snapshot /\ last_sync[e] \in Nat \cup {Never}
  BY DEF TypeOK, Pass, Copy
<1>1. MergedKeepsLocal(e) /\ MergedKeepsRemote(e)
  BY DEF MergedInv
<1>2. CASE UNCHANGED <<pc[e], pass[e], last_sync[e]>>
  BY <1>1, <1>2 DEF MergedKeepsLocal, MergedKeepsRemote, TakesOver, Stale, Merging
<1>3. CASE pc'[e] \notin {"upload", "save"}
  BY <1>3 DEF MergedKeepsLocal, MergedKeepsRemote
<1>4. CASE ReadLastStore(e)
  <2> DEFINE remote == pass[e].remote
             before == [pass[e].before EXCEPT ![Stores] = live[e][Stores]]
             m      == MergeFor(e, remote)
             merged == Merged(m, before, remote.data)
  <2>1. before \in Snapshot
    BY <1>0, ConstantsAssumption DEF Snapshot
  <2>2. m \in MergeRun
    BY <1>0 DEF MergeFor, Merging, MergeRun
  <2>3. /\ pass'[e].before = before /\ pass'[e].merged = merged
        /\ pass'[e].remote = remote /\ pass'[e].started = pass[e].started
        /\ last_sync' = last_sync
    BY <1>0, <1>4 DEF ReadLastStore, GoTo, Pass, diskVars
  <2>4. Stale(m) => TakesOver(e)'
    BY <1>0, <2>3 DEF MergeFor, TakesOver, Stale, Merging
  <2> HIDE DEF before, m
  <2>5. \A s \in Store, i \in Id :
          /\ Stale(m) \/ KeepsLocal(s, before[s][i], merged[s][i], remote.data[s][i])
          /\ KeepsLocal(s, remote.data[s][i], merged[s][i], before[s][i])
    BY <1>0, <2>1, <2>2, MergedKeeps
  <2> HIDE DEF merged
  <2> QED
    BY <2>3, <2>4, <2>5 DEF MergedKeepsLocal, MergedKeepsRemote
<1>5. CASE Upload(e) \/ SaveStore(e)
  <2>1. /\ pc[e] \in {"upload", "save"}
        /\ pass'[e].before = pass[e].before /\ pass'[e].merged = pass[e].merged
        /\ pass'[e].remote = pass[e].remote /\ pass'[e].started = pass[e].started
        /\ last_sync' = last_sync
        /\ pc'[e] # "upload"
    <3>1. CASE Upload(e)
      BY <1>0, <3>1 DEF Upload, Stored, GoTo, Pass, diskVars
    <3>2. CASE SaveStore(e)
      <4> DEFINE s        == pass[e].next
                 next     == IF s = Stores THEN s ELSE s + 1
                 complete == pass[e].complete /\ live[e][s] = pass[e].before[s]
                 where    == IF s = Stores THEN "finish" ELSE "save"
      <4>1. /\ pass' = [pass EXCEPT ![e] = [pass[e] EXCEPT !.next = next, !.complete = complete]]
            /\ pc' = [pc EXCEPT ![e] = where]
            /\ pc[e] = "save" /\ last_sync' = last_sync
        BY <3>2 DEF SaveStore, GoTo
      <4>2. where # "upload"
        OBVIOUS
      <4> HIDE DEF next, complete, where
      <4> QED
        BY <1>0, <4>1, <4>2 DEF Pass
    <3> QED
      BY <1>5, <3>1, <3>2
  <2> QED
    BY <1>1, <2>1 DEF MergedKeepsLocal, MergedKeepsRemote, TakesOver, Stale, Merging
<1>6. CASE UploadRefused(e)
  <2> DEFINE m      == Receiving(pass[e].started, last_sync[e])
             merged == Merged(m, pass[e].before, pass[e].remote.data)
  <2>1. CASE pass[e].remote = NoCopy
    BY <1>0, <1>3, <1>6, <2>1 DEF UploadRefused, Ended, GoTo
  <2>2. CASE pass[e].remote # NoCopy
    <3>1. m \in MergeRun
      BY <1>0 DEF Receiving, MergeRun
    <3>2. /\ pass'[e].before = pass[e].before /\ pass'[e].merged = merged
          /\ pass'[e].remote = pass[e].remote /\ pass'[e].started = pass[e].started
          /\ last_sync' = last_sync
          /\ pc'[e] # "upload"
      BY <1>0, <1>6, <2>2 DEF UploadRefused, GoTo, Pass, diskVars
    <3>3. Stale(m) => TakesOver(e)'
      BY <2>2, <3>2 DEF TakesOver, Stale, Merging, Receiving
    <3> HIDE DEF m
    <3>4. \A s \in Store, i \in Id :
            Stale(m) \/ KeepsLocal(s, pass[e].before[s][i], merged[s][i], pass[e].remote.data[s][i])
      BY <1>0, <3>1, MergedKeeps
    <3> HIDE DEF merged
    <3> QED
      BY <3>2, <3>3, <3>4 DEF MergedKeepsLocal, MergedKeepsRemote
  <2> QED
    BY <2>1, <2>2
<1>7. ASSUME NEW d \in Device, SyncStep(d) \/ Fault(d), d # e
      PROVE  UNCHANGED <<pc[e], pass[e], last_sync[e]>>
  BY <1>0, <1>7 DEF SyncStep, Fault, StartSync, Download, ReadStore, ReadLastStore, Upload, Stored,
       UploadUnanswered, UploadOvertaken, UploadRefused, SaveStore, SaveState, CutShort,
       GoTo, Ended, Again, diskVars
<1>8. CASE StartSync(e) \/ Download(e) \/ ReadStore(e) \/ UploadUnanswered(e) \/ UploadOvertaken(e)
           \/ SaveState(e) \/ CutShort(e)
  <2>1. pc'[e] \in {"download", "read", "idle"}
    BY <1>0, <1>8 DEF StartSync, Download, ReadStore, UploadUnanswered, UploadOvertaken, SaveState,
                      CutShort, GoTo, Ended, Again
  <2> QED
    BY <1>3, <2>1
<1>9. ASSUME NEW d \in Device, UserEdits(d)
      PROVE  UNCHANGED <<pc[e], pass[e], last_sync[e]>>
  BY <1>9 DEF UserEdits, Put, Delete, ChangeSetting, Edit
<1>10. CASE Tick \/ PremiumLapses \/ PremiumRenewed \/ UNCHANGED vars
  BY <1>2, <1>10 DEF Tick, PremiumLapses, PremiumRenewed, vars, diskVars
<1>11. ASSUME SyncStep(e) \/ Fault(e)
       PROVE  MergedKeepsLocal(e)' /\ MergedKeepsRemote(e)'
  BY <1>4, <1>5, <1>6, <1>8, <1>11, Zenon DEF SyncStep, Fault
<1> QED
  BY <1>2, <1>7, <1>9, <1>10, <1>11 DEF Next

-----------------------------------------------------------------------------
(* The results. *)

\* The inductive invariant holds in every reachable state.
LEMMA Invariant == Spec => []Inv
<1>1. Init => Inv
  <2>1. Init => MergedInv
    BY DEF Init, MergedInv, MergedKeepsLocal, MergedKeepsRemote
  <2> QED
    BY <2>1, InitType, InitCopies DEF Inv
<1>2. Inv /\ [Next]_vars => Inv'
  BY TypeInductive, CopiesInductive, MergedInductive DEF Inv
<1> QED
  BY <1>1, <1>2, PTL DEF Spec

\* Every reachable state is well typed: a pass never runs past MAX_PASSES or past the
\* last store.
THEOREM TypeCorrect == Spec => []TypeOK
BY Invariant, PTL DEF Inv

\* The copy a device keeps is the one the server holds under its version, so a sync
\* may merge with it when the server answers "not modified".
THEOREM KeptCopyCorrect == Spec => []KeptCopyMatchesServer
<1>1. Inv => KeptCopyMatchesServer
  BY DEF Inv, CopiesInv, FromServer, KeptCopyMatchesServer
<1> QED
  BY <1>1, Invariant, PTL

\* No sync undoes an edit, for any number of devices, stores and records, however the
\* edits interleave with the steps of the syncs.
THEOREM NoEditUndone == Spec => SyncNeverUndoesAnEdit
<1> DEFINE Keeps == edits' = edits =>
        \A d \in Device, s \in Store, i \in Id :
            LET old == live[d][s][i]
                new == live'[d][s][i]
            IN  \/ ~Beats(s, old, new)
                \/ new = Absent /\ (IsMarker(old) \/ IsMarker(pass[d].remote.data[s][i]))
                \/ TakesOver(d)
<1>1. Inv /\ [Next]_vars => Keeps
  <2> SUFFICES ASSUME Inv, [Next]_vars, edits' = edits, NEW e \in Device, NEW s \in Store, NEW i \in Id
               PROVE  LET old == live[e][s][i]
                          new == live'[e][s][i]
                      IN  \/ ~Beats(s, old, new)
                          \/ new = Absent /\ (IsMarker(old) \/ IsMarker(pass[e].remote.data[s][i]))
                          \/ TakesOver(e)
    OBVIOUS
  <2>0. /\ live \in [Device -> Snapshot] /\ edits \in Nat /\ pass[e].next \in Store
        /\ live[e] \in Snapshot /\ live[e][s][i] \in Slot /\ MergedKeepsLocal(e)
    <3>1. live \in [Device -> Snapshot] /\ edits \in Nat /\ pass[e].next \in Store
      BY DEF Inv, TypeOK
    <3>2. live[e] \in Snapshot
      BY <3>1
    <3>3. live[e][s][i] \in Slot
      BY <3>2 DEF Snapshot
    <3> QED
      BY <3>1, <3>2, <3>3 DEF Inv, MergedInv
  <2>1. CASE UNCHANGED live[e][s][i]
    BY <2>0, <2>1, BeatsIrreflexive
  <2>2. CASE SaveStore(e)
    <3>1. CASE s = pass[e].next /\ live[e][s] = pass[e].before[s]
      <4>1. live'[e][s] = pass[e].merged[s] /\ pc[e] = "save"
        BY <2>0, <2>2, <3>1 DEF SaveStore, Snapshot
      <4> QED
        BY <2>0, <3>1, <4>1 DEF MergedKeepsLocal, KeepsLocal
    <3>2. CASE ~(s = pass[e].next /\ live[e][s] = pass[e].before[s])
      <4>1. UNCHANGED live[e][s][i]
        BY <2>0, <2>2, <3>2 DEF SaveStore, Snapshot
      <4> QED
        BY <2>1, <4>1
    <3> QED
      BY <3>1, <3>2
  <2>3. ASSUME NEW d \in Device, SyncStep(d) \/ Fault(d), ~SaveStore(e)
        PROVE  UNCHANGED live[e][s][i]
    BY <2>0, <2>3 DEF SyncStep, Fault, StartSync, Download, ReadStore, ReadLastStore, Upload, Stored,
         UploadUnanswered, UploadOvertaken, UploadRefused, SaveStore, SaveState, CutShort, diskVars
  <2>4. ASSUME NEW d \in Device, UserEdits(d)
        PROVE  FALSE
    BY <2>0, <2>4 DEF UserEdits, Put, Delete, ChangeSetting, Edit
  <2>5. CASE Tick \/ PremiumLapses \/ PremiumRenewed \/ UNCHANGED vars
    BY <2>1, <2>5 DEF Tick, PremiumLapses, PremiumRenewed, vars, diskVars
  <2> QED
    BY <2>1, <2>2, <2>3, <2>4, <2>5 DEF Next
<1> QED
  BY <1>1, Invariant, PTL DEF Spec, SyncNeverUndoesAnEdit

\* No upload takes the server back to an older record, for any number of devices
\* uploading against each other.
THEOREM NoRollBack == Spec => UploadsNeverRollBack
<1> DEFINE Keeps == \A s \in Store, i \in Id :
            LET old == server.data[s][i]
                new == server'.data[s][i]
            IN  \/ ~Beats(s, old, new)
                \/ /\ new = Absent
                   /\ \/ IsMarker(old)
                      \/ \E d \in Device : pc[d] = "upload" /\ IsMarker(pass[d].before[s][i])
<1>1. Inv /\ [Next]_vars => Keeps
  <2> SUFFICES ASSUME Inv, [Next]_vars, NEW s \in Store, NEW i \in Id
               PROVE  LET old == server.data[s][i]
                          new == server'.data[s][i]
                      IN  \/ ~Beats(s, old, new)
                          \/ /\ new = Absent
                             /\ \/ IsMarker(old)
                                \/ \E d \in Device : pc[d] = "upload" /\ IsMarker(pass[d].before[s][i])
    OBVIOUS
  <2>1. CASE UNCHANGED server
    <3>1. server.data[s][i] \in Slot
      <4>1. server.data \in Snapshot
        BY DEF Inv, TypeOK, Copy
      <4> QED
        BY <4>1 DEF Snapshot
    <3> QED
      BY <2>1, <3>1, BeatsIrreflexive
  <2>2. ASSUME NEW d \in Device, Stored(d)
        PROVE  \/ ~Beats(s, server.data[s][i], server'.data[s][i])
               \/ /\ server'.data[s][i] = Absent
                  /\ IsMarker(server.data[s][i]) \/ (pc[d] = "upload" /\ IsMarker(pass[d].before[s][i]))
    <3>1. server.data = pass[d].remote.data /\ server'.data = pass[d].merged /\ pc[d] = "upload"
      BY <2>2 DEF Stored, Inv, CopiesInv, FromServer
    <3>2. KeepsLocal(s, pass[d].remote.data[s][i], pass[d].merged[s][i], pass[d].before[s][i])
      BY <3>1 DEF Inv, MergedInv, MergedKeepsRemote
    <3> QED
      BY <3>1, <3>2 DEF KeepsLocal
  <2> QED
    BY <2>1, <2>2, ServerChanges
<1> QED
  BY <1>1, Invariant, PTL DEF Spec, UploadsNeverRollBack

-----------------------------------------------------------------------------
(* A record deleted on one device stays deleted on all, and what a         *)
(* complete sync has saved.                                                *)
(*                                                                         *)
(* Deletions do not hold of devices whose clocks differ or whose syncs     *)
(* last as long as a marker lives: that is a theorem on the hypothesis     *)
(* InStep.  Its argument is about devices that were away: whoever          *)
(* still holds a record that a deletion has overtaken (Old) has missed the *)
(* upload of its marker (Missed), so that once the server has erased the   *)
(* marker that device has been away for longer than a marker lives, and    *)
(* gives its records up.                                                   *)
HIDE DEF Store

\* A marker that some merge has uploaded.
Mark(x) == x.deleted /\ x.uploaded_at # Never

\* The winner of two slots has the newer time, deleted if either is at that time, and its
\* upload time is that of a side.
LEMMA WinnerIs ==
    ASSUME NEW a \in Slot, NEW b \in Slot
    PROVE  LET w == Winner(a, b) IN
           /\ w \in Slot
           /\ a.updated_at <= w.updated_at /\ b.updated_at <= w.updated_at
           /\ a.updated_at = w.updated_at /\ a.deleted => w.deleted
           /\ b.updated_at = w.updated_at /\ b.deleted => w.deleted
           /\ ~w.deleted => w \in {a, b}
           /\ \/ w.updated_at = a.updated_at /\ w.deleted = a.deleted
              \/ w.updated_at = b.updated_at /\ w.deleted = b.deleted
           /\ Mark(w) => \E x \in {a, b} : Mark(x) /\ x.updated_at = w.updated_at /\ x.uploaded_at = w.uploaded_at
<1>1. Winner(a, b) \in Slot
  BY WinnerType
<1>2. CASE SameMarker(a, b)
  <2> DEFINE w == Winner(a, b)
  <2>1. /\ a.deleted /\ b.deleted /\ a.updated_at = b.updated_at
        /\ w.deleted /\ w.updated_at = a.updated_at
        /\ w.uploaded_at = EarliestUpload(a.uploaded_at, b.uploaded_at)
    BY <1>2 DEF SameMarker, Winner, Slot
  <2>2. w.uploaded_at \in {a.uploaded_at, b.uploaded_at}
    BY <2>1 DEF EarliestUpload
  <2>3. a.updated_at \in Nat \cup {Never}
    BY DEF Slot
  <2> HIDE DEF w
  <2>4. a.updated_at <= w.updated_at /\ b.updated_at <= w.updated_at
    BY <2>1, <2>3 DEF Never
  <2> QED BY <1>1, <2>1, <2>2, <2>4 DEF Mark, w
<1>3. CASE ~SameMarker(a, b)
  <2>1. Winner(a, b) = IF Outranks(b, a) THEN b ELSE a
    BY <1>3 DEF Winner
  <2>2. CASE Outranks(b, a)
    <3>1. Winner(a, b) = b
      BY <2>1, <2>2
    <3>2. a.updated_at <= b.updated_at /\ (a.updated_at = b.updated_at /\ a.deleted => b.deleted)
      BY <2>2 DEF Outranks, Slot, Never
    <3> QED BY <1>1, <3>1, <3>2 DEF Slot, Never
  <2>3. CASE ~Outranks(b, a)
    <3>1. Winner(a, b) = a
      BY <2>1, <2>3
    <3>2. b.updated_at <= a.updated_at /\ (b.updated_at = a.updated_at /\ b.deleted => a.deleted)
      BY <2>3 DEF Outranks, Slot, Never
    <3> QED BY <1>1, <3>1, <3>2 DEF Slot, Never
  <2> QED BY <2>2, <2>3
<1> QED BY <1>2, <1>3

\* What a merge of records leaves, of the winner of what it looked at.
LEMMA MergedRecordIs ==
    ASSUME NEW m \in MergeRun, NEW mine \in Slot, NEW theirs \in Slot
    PROVE  \E mineNow \in {mine, Absent}, w \in Slot :
             LET r == MergeRecord(m, mine, theirs) IN
             /\ mineNow = IF Stale(m) THEN Absent ELSE mine
             /\ w = Winner(mineNow, theirs)
             /\ ~w.deleted => r = w
             /\ w.deleted /\ r = Absent => /\ m.now - UploadTime(m, w) > MarkerLifetime
                                           /\ UploadTime(m, w) # Never
             /\ w.deleted /\ r # Absent => /\ r.deleted /\ r.updated_at = w.updated_at
                                           /\ r.uploaded_at = UploadTime(m, w)
<1> DEFINE mineNow == IF Stale(m) THEN Absent ELSE mine
           w == Winner(mineNow, theirs)
<1>1. mineNow \in Slot /\ w \in Slot
  BY SlotsMade, WinnerType
<1>2. MergeRecord(m, mine, theirs) = Uploaded(m, w)
  BY DEF MergeRecord
<1>0. UploadTime(m, w) \in Nat \cup {Never}
  BY <1>1 DEF UploadTime, MergeRun, Slot
<1> HIDE DEF w
<1>3. /\ ~w.deleted => Uploaded(m, w) = w
      /\ w.deleted /\ Uploaded(m, w) = Absent => /\ m.now - UploadTime(m, w) > MarkerLifetime
                                                 /\ UploadTime(m, w) # Never
      /\ w.deleted /\ Uploaded(m, w) # Absent =>
            /\ Uploaded(m, w).deleted /\ Uploaded(m, w).updated_at = w.updated_at
            /\ Uploaded(m, w).uploaded_at = UploadTime(m, w)
  BY <1>0, <1>1 DEF Uploaded, Expired, IsMarker, Slot, Absent
<1> QED BY <1>1, <1>2, <1>3 DEF w
-----------------------------------------------------------------------------
(* Deleted records.  *)

\* A slot that a deletion at time t has overtaken.
Old(x, t) == x # Absent /\ (x.updated_at < t \/ (x.updated_at = t /\ ~x.deleted))

\* What holds of any slot x anywhere at time n, when t is the newest deletion uploaded.
Plausible(x, t, n) ==
    /\ x \in Slot /\ x.updated_at <= n
    /\ x # Absent => x.updated_at # Never
    /\ Mark(x) => x.updated_at <= x.uploaded_at /\ x.uploaded_at <= n /\ x.updated_at <= t

\* A device that last synced at time last did so no later than the deletion t was uploaded,
\* by all the slots known, and once the server has erased the marker, longer ago than a
\* marker lives.
Missed(known, t, onServer, n, last) ==
    /\ \A m \in known : Mark(m) /\ m.updated_at = t => last <= m.uploaded_at
    /\ onServer = Absent => n - last > MarkerLifetime

\* A device that last synced at time last, at time n, merges the slot it holds with the
\* server's, to upload what that leaves.
Uploading(n, t, last, known, mine, theirs) ==
    /\ n \in Nat /\ t \in Nat \cup {Never} /\ last \in Nat /\ last <= n /\ t <= n
    /\ mine \in known /\ theirs \in known /\ \A x \in known : Plausible(x, t, n)
    /\ ~Old(theirs, t)
    /\ theirs = Absent /\ t # Never => n - t > MarkerLifetime
    /\ Old(mine, t) /\ theirs = Absent => Stale(Merging(n, last))

\* Slot r uploaded in place of theirs, the newest deletion uploaded is u.
Uploads(n, t, known, theirs, r, u) ==
    /\ Plausible(r, u, n) /\ ~Old(r, u) /\ u \in Nat \cup {Never} /\ t <= u /\ u <= n
    /\ r = Absent /\ u # Never => n - u > MarkerLifetime
    /\ \A x \in known : Plausible(x, u, n)
    /\ \A x \in Slot, l \in Nat \cup {Never} :
           l <= n /\ (Old(x, t) => Missed(known, t, theirs, n, l)) /\ Old(x, u)
               => Missed(known \cup {r}, u, r, n, l)

\* An upload never brings back what a deletion has overtaken, and whoever holds what a
\* deletion has overtaken after it has missed that deletion.
LEMMA UploadedSlot ==
    ASSUME NEW n, NEW t, NEW last, NEW known, NEW mine, NEW theirs,
           Uploading(n, t, last, known, mine, theirs),
           NEW r, r = MergeRecord(Merging(n, last), mine, theirs),
           NEW u, u = IF IsMarker(r) /\ r.updated_at > t THEN r.updated_at ELSE t
    PROVE  Uploads(n, t, known, theirs, r, u)
<1> SUFFICES ASSUME n \in Nat, t \in Nat \cup {Never}, last \in Nat, last <= n, t <= n,
                    mine \in known, theirs \in known, \A x \in known : Plausible(x, t, n),
                    ~Old(theirs, t), theirs = Absent /\ t # Never => n - t > MarkerLifetime,
                    Old(mine, t) /\ theirs = Absent => Stale(Merging(n, last))
             PROVE  /\ Plausible(r, u, n) /\ ~Old(r, u) /\ u \in Nat \cup {Never} /\ t <= u /\ u <= n
                    /\ r = Absent /\ u # Never => n - u > MarkerLifetime
                    /\ \A x \in known : Plausible(x, u, n)
                    /\ \A x \in Slot, l \in Nat \cup {Never} :
                           l <= n /\ (Old(x, t) => Missed(known, t, theirs, n, l)) /\ Old(x, u)
                               => Missed(known \cup {r}, u, r, n, l)
  BY DEF Uploading, Uploads
<1> DEFINE m == Merging(n, last)
<1>0. /\ MarkerLifetime \in Nat /\ m \in MergeRun /\ m.now = n /\ m.uploads
      /\ mine \in Slot /\ theirs \in Slot /\ Absent \in Slot
  BY MarkerLifetimeAssumption, SlotsMade DEF Plausible, Merging, MergeRun
<1>1. PICK mineNow \in {mine, Absent}, w \in Slot :
             /\ mineNow = IF Stale(m) THEN Absent ELSE mine
             /\ w = Winner(mineNow, theirs)
             /\ ~w.deleted => r = w
             /\ w.deleted /\ r = Absent => /\ m.now - UploadTime(m, w) > MarkerLifetime
                                           /\ UploadTime(m, w) # Never
             /\ w.deleted /\ r # Absent => /\ r.deleted /\ r.updated_at = w.updated_at
                                           /\ r.uploaded_at = UploadTime(m, w)
  BY <1>0, MergedRecordIs
<1>2. r \in Slot
  BY <1>0, MergeType
<1>3. /\ mineNow.updated_at <= w.updated_at /\ theirs.updated_at <= w.updated_at
      /\ theirs.updated_at = w.updated_at /\ theirs.deleted => w.deleted
      /\ ~w.deleted => w \in {mineNow, theirs}
      /\ \/ w.updated_at = mineNow.updated_at /\ w.deleted = mineNow.deleted
         \/ w.updated_at = theirs.updated_at /\ w.deleted = theirs.deleted
      /\ Mark(w) => \E x \in {mineNow, theirs} : Mark(x) /\ x.updated_at = w.updated_at /\ x.uploaded_at = w.uploaded_at
  BY <1>0, <1>1, WinnerIs
<1>4. Plausible(Absent, t, n) /\ Plausible(mineNow, t, n) /\ Plausible(theirs, t, n)
  BY <1>0, <1>1 DEF Plausible, Mark, Absent, Never
<1>5. Mark(w) => /\ \E x \in known : Mark(x) /\ x.updated_at = w.updated_at /\ x.uploaded_at = w.uploaded_at
                 /\ w.updated_at <= w.uploaded_at /\ w.uploaded_at <= n /\ w.updated_at <= t
  BY <1>1, <1>3, <1>4 DEF Plausible, Mark, Absent
<1>6. ~Old(w, t)
  <2>1. CASE theirs = Absent
    <3>1. ~Old(mineNow, t)
      BY <1>1, <2>1 DEF Old
    <3> QED BY <1>3, <1>4, <2>1, <3>1 DEF Old, Plausible, Absent, Slot, Never
  <2>2. CASE theirs # Absent
    BY <1>0, <1>1, <1>3, <1>4, <2>2 DEF Old, Plausible, Slot, Never
  <2> QED BY <2>1, <2>2
<1>7. /\ n \in Nat /\ t \in Nat \cup {Never} /\ w \in Slot /\ w.updated_at <= n
      /\ w.updated_at \in Nat \cup {Never} /\ w.uploaded_at \in Nat \cup {Never}
      /\ \A x \in known : x \in Slot /\ x.updated_at \in Nat \cup {Never} /\ x.uploaded_at \in Nat \cup {Never}
  BY <1>1, <1>3, <1>4 DEF Plausible, Slot
<1>8. UploadTime(m, w) = IF w.uploaded_at = Never THEN n ELSE w.uploaded_at
  BY <1>0 DEF UploadTime
<1>9. CASE ~w.deleted
  <2>1. r = w /\ ~Mark(r) /\ u = t /\ ~Old(r, t)
    BY <1>1, <1>6, <1>9 DEF Mark, IsMarker
  <2>2. r = Absent => theirs = Absent
    BY <1>3, <1>4, <1>7, <2>1 DEF Plausible, Absent, Never
  <2>3. Plausible(r, t, n)
    BY <1>1, <1>3, <1>4, <1>9, <2>1
  <2>4. ASSUME NEW x \in Slot, NEW l \in Nat \cup {Never}, Missed(known, t, theirs, n, l)
        PROVE  Missed(known \cup {r}, u, r, n, l)
    BY <2>1, <2>2, <2>4 DEF Missed
  <2>5. t <= u
    BY <2>1 DEF Never
  <2> QED BY <2>1, <2>2, <2>3, <2>4, <2>5
<1>10. CASE w.deleted /\ w.updated_at > t
  <2>1. w.uploaded_at = Never
    BY <1>5, <1>7, <1>10 DEF Mark, Never
  <2>2. UploadTime(m, w) = n
    BY <1>8, <2>1
  <2>3. r # Absent
    BY <1>0, <1>1, <1>10, <2>2
  <2>4. r.deleted /\ r.updated_at = w.updated_at /\ r.uploaded_at = n
    BY <1>1, <1>10, <2>2, <2>3
  <2>5. u = w.updated_at /\ ~Old(r, u)
    BY <1>7, <1>10, <2>4 DEF IsMarker, Old, Never
  <2>6. Plausible(r, u, n) /\ t <= u /\ u <= n
    BY <1>2, <1>7, <1>10, <2>3, <2>4, <2>5 DEF Plausible, Never
  <2>7. \A x \in known : Plausible(x, u, n)
    BY <1>7, <1>10, <2>5 DEF Plausible, Never
  <2>8. \A x \in known : Mark(x) => x.updated_at < u
    BY <1>7, <1>10, <2>5 DEF Plausible, Never
  <2>9. ASSUME NEW l \in Nat \cup {Never}, l <= n
        PROVE  Missed(known \cup {r}, u, r, n, l)
    BY <1>7, <2>3, <2>4, <2>5, <2>8, <2>9 DEF Missed, Never
  <2>10. u \in Nat \cup {Never}
    BY <1>7, <2>5
  <2> QED BY <2>3, <2>5, <2>6, <2>7, <2>9, <2>10
<1>11. CASE w.deleted /\ ~(w.updated_at > t)
  <2>1. w.updated_at = t
    BY <1>6, <1>7, <1>11 DEF Old, Absent, Never
  <2>5. t # Never
    <3>1. PICK x \in {mineNow, theirs} : x.deleted /\ x.updated_at = w.updated_at
      BY <1>3, <1>11, Zenon
    <3>2. Plausible(x, t, n) /\ x # Absent
      BY <1>4, <3>1 DEF Absent
    <3> QED BY <2>1, <3>1, <3>2 DEF Plausible
  <2>2. u = t /\ t <= u
    BY <1>1, <1>7, <1>11, <2>1 DEF IsMarker, Absent, Never
  <2>3. CASE r = Absent
    <3>1. n - UploadTime(m, w) > MarkerLifetime /\ UploadTime(m, w) # n
      BY <1>0, <1>1, <1>11, <2>3
    <3>2. Mark(w) /\ UploadTime(m, w) = w.uploaded_at
      BY <1>8, <1>11, <3>1 DEF Mark
    <3>3. n - t > MarkerLifetime
      BY <1>0, <1>5, <1>7, <2>1, <3>1, <3>2 DEF Never
    <3>4. ASSUME NEW l \in Nat \cup {Never}, Missed(known, t, theirs, n, l)
          PROVE  Missed(known \cup {r}, t, r, n, l)
      <4>1. l <= w.uploaded_at
        BY <1>5, <2>1, <3>2, <3>4 DEF Missed
      <4>2. n - l > MarkerLifetime
        BY <1>0, <1>7, <3>1, <3>2, <4>1 DEF Never
      <4> QED BY <2>3, <3>4, <4>2 DEF Missed, Mark, Absent
    <3>5. Plausible(r, t, n) /\ ~Old(r, t)
      BY <1>4, <2>3 DEF Old
    <3>6. \A x \in Slot, l \in Nat \cup {Never} :
             (Old(x, t) => Missed(known, t, theirs, n, l)) /\ Old(x, t) => Missed(known \cup {r}, t, r, n, l)
      BY <3>4
    <3> HIDE DEF m
    <3> QED BY <2>2, <3>3, <3>5, <3>6
  <2>4. CASE r # Absent
    <3>1. r.deleted /\ r.updated_at = t /\ r.uploaded_at = UploadTime(m, w)
      BY <1>1, <1>11, <2>1, <2>4
    <3>2. w.uploaded_at # Never => Mark(w)
      BY <1>11 DEF Mark
    <3>3. t <= UploadTime(m, w) /\ UploadTime(m, w) <= n
      BY <1>5, <1>7, <1>8, <2>1, <3>2 DEF Never
    <3>4. Plausible(r, t, n)
      BY <1>2, <1>7, <2>1, <2>4, <2>5, <3>1, <3>3 DEF Plausible, Never
    <3>5. ASSUME NEW l \in Nat \cup {Never}, l <= n, Missed(known, t, theirs, n, l)
          PROVE  Missed(known \cup {r}, t, r, n, l)
      <4>1. l <= r.uploaded_at
        BY <1>5, <1>8, <2>1, <3>1, <3>2, <3>5 DEF Missed
      <4> QED BY <2>4, <3>5, <4>1 DEF Missed
    <3>6. ~Old(r, t)
      BY <1>7, <3>1 DEF Old, Never
    <3>7. \A x \in Slot, l \in Nat \cup {Never} :
             l <= n /\ (Old(x, t) => Missed(known, t, theirs, n, l)) /\ Old(x, t) => Missed(known \cup {r}, t, r, n, l)
      BY <3>5
    <3> HIDE DEF m
    <3> QED BY <2>2, <2>4, <3>4, <3>6, <3>7
  <2> QED BY <2>3, <2>4
<1> QED BY <1>9, <1>10, <1>11

\* A merge whose upload was refused leaves nothing that a deletion has overtaken but what the
\* server still held, or what was kept here because the server held nothing.
LEMMA ReceivedSlot ==
    ASSUME NEW n \in Nat, NEW t \in Nat \cup {Never}, NEW last \in Nat,
           NEW mine, NEW theirs, Plausible(mine, t, n), Plausible(theirs, t, n),
           NEW r, r = MergeRecord(Receiving(n, last), mine, theirs)
    PROVE  /\ Plausible(r, t, n)
           /\ Mark(r) => \E x \in {mine, theirs} : Mark(x) /\ x.updated_at = r.updated_at /\ x.uploaded_at = r.uploaded_at
           /\ Old(r, t) => \/ Old(theirs, t)
                           \/ theirs = Absent /\ ~Stale(Receiving(n, last)) /\ Old(mine, t)
           /\ \/ theirs.updated_at <= r.updated_at
              \/ r = Absent /\ (theirs.deleted \/ (Mark(mine) /\ theirs.updated_at <= mine.updated_at))
<1> DEFINE m == Receiving(n, last)
<1>0. /\ m \in MergeRun /\ m.now = n /\ ~m.uploads
      /\ mine \in Slot /\ theirs \in Slot /\ Absent \in Slot
  BY SlotsMade DEF Plausible, Receiving, MergeRun
<1>1. PICK mineNow \in {mine, Absent}, w \in Slot :
             /\ mineNow = IF Stale(m) THEN Absent ELSE mine
             /\ w = Winner(mineNow, theirs)
             /\ ~w.deleted => r = w
             /\ w.deleted /\ r = Absent => /\ m.now - UploadTime(m, w) > MarkerLifetime
                                           /\ UploadTime(m, w) # Never
             /\ w.deleted /\ r # Absent => /\ r.deleted /\ r.updated_at = w.updated_at
                                           /\ r.uploaded_at = UploadTime(m, w)
  BY <1>0, MergedRecordIs
<1>2. r \in Slot
  BY <1>0, MergeType
<1>3. /\ mineNow.updated_at <= w.updated_at /\ theirs.updated_at <= w.updated_at
      /\ theirs.updated_at = w.updated_at /\ theirs.deleted => w.deleted
      /\ ~w.deleted => w \in {mineNow, theirs}
      /\ \/ w.updated_at = mineNow.updated_at /\ w.deleted = mineNow.deleted
         \/ w.updated_at = theirs.updated_at /\ w.deleted = theirs.deleted
      /\ Mark(w) => \E x \in {mineNow, theirs} : Mark(x) /\ x.updated_at = w.updated_at /\ x.uploaded_at = w.uploaded_at
  BY <1>0, <1>1, WinnerIs
<1>4. Plausible(Absent, t, n) /\ Plausible(mineNow, t, n) /\ Plausible(theirs, t, n)
  BY <1>0, <1>1 DEF Plausible, Mark, Absent, Never
<1>5. UploadTime(m, w) = w.uploaded_at
  BY <1>0 DEF UploadTime
<1>6. Mark(w) => \E x \in {mine, theirs} : Mark(x) /\ x.updated_at = w.updated_at /\ x.uploaded_at = w.uploaded_at
  BY <1>1, <1>3 DEF Mark, Absent
<1>7. Mark(w) => w.updated_at <= w.uploaded_at /\ w.uploaded_at <= n /\ w.updated_at <= t
  BY <1>6 DEF Plausible
<1>8. w.deleted => w.updated_at # Never /\ w.updated_at <= n
  <2> SUFFICES ASSUME w.deleted PROVE w.updated_at # Never /\ w.updated_at <= n
    OBVIOUS
  <2>1. PICK x \in {mineNow, theirs} : x.deleted /\ x.updated_at = w.updated_at
    BY <1>3, Zenon
  <2>2. Plausible(x, t, n) /\ x # Absent
    BY <1>4, <2>1 DEF Absent
  <2> QED BY <2>1, <2>2 DEF Plausible
<1>9. CASE ~w.deleted
  <2>1. r = w /\ ~Mark(w)
    BY <1>1, <1>9 DEF Mark
  <2>2. Plausible(r, t, n)
    BY <1>3, <1>4, <1>9, <2>1
  <2>3. Old(r, t) => \/ Old(theirs, t)
                     \/ theirs = Absent /\ ~Stale(m) /\ Old(mine, t)
    <3>1. CASE theirs = Absent
      <4>1. w = mineNow
        BY <1>3, <1>9, <1>4, <3>1 DEF Plausible, Absent, Slot, Never
      <4> QED BY <1>1, <2>1, <3>1, <4>1 DEF Old
    <3>2. CASE theirs # Absent
      BY <1>0, <1>1, <1>3, <1>4, <2>1, <3>2 DEF Old, Plausible, Slot, Never
    <3> QED BY <3>1, <3>2
  <2> QED BY <1>3, <2>1, <2>2, <2>3
<1>10. CASE w.deleted /\ r = Absent
  <2>1. Mark(w)
    BY <1>1, <1>5, <1>10 DEF Mark
  <2>2. theirs.deleted \/ (Mark(mine) /\ theirs.updated_at <= mine.updated_at)
    BY <1>3, <1>6, <2>1 DEF Mark
  <2> QED BY <1>4, <1>10, <2>2 DEF Old, Mark, Absent
<1>11. CASE w.deleted /\ r # Absent
  <2>1. r.deleted /\ r.updated_at = w.updated_at /\ r.uploaded_at = w.uploaded_at
    BY <1>1, <1>5, <1>11
  <2>2. Mark(r) <=> Mark(w)
    BY <1>11, <2>1 DEF Mark
  <2>3. Plausible(r, t, n)
    BY <1>2, <1>7, <1>8, <1>11, <2>1, <2>2 DEF Plausible
  <2>4. Old(r, t) => \/ Old(theirs, t)
                     \/ theirs = Absent /\ ~Stale(m) /\ Old(mine, t)
    <3> SUFFICES ASSUME Old(r, t) PROVE Old(theirs, t) \/ (theirs = Absent /\ ~Stale(m) /\ Old(mine, t))
      OBVIOUS
    <3>1. w.updated_at < t
      BY <2>1, <1>11 DEF Old
    <3>2. CASE theirs = Absent
      <4>1. mineNow.updated_at = w.updated_at /\ mineNow # Absent
        BY <1>3, <1>8, <1>11, <3>2 DEF Absent
      <4> QED BY <1>1, <3>1, <3>2, <4>1 DEF Old
    <3>3. CASE theirs # Absent
      BY <1>0, <1>1, <1>3, <3>1, <3>3 DEF Old, Slot, Never
    <3> QED BY <3>2, <3>3
  <2> QED BY <1>3, <1>6, <2>1, <2>2, <2>3, <2>4
<1> QED BY <1>9, <1>10, <1>11

\* A setting is merged to one of its two values, no older than the server's.
LEMMA MergedSetting ==
    ASSUME NEW m \in MergeRun, NEW mine \in Slot, NEW theirs \in Slot
    PROVE  /\ MergeSetting(m, mine, theirs) \in {mine, theirs}
           /\ theirs.updated_at <= MergeSetting(m, mine, theirs).updated_at
BY DEF MergeSetting, SettingOutranks, Slot, Absent, Never

\* The slots a device holds under an id, or in the pass it runs.
Held(slot, p, where, s, i) ==
    {slot, p.before[s][i], p.remote.data[s][i]}
        \cup (IF where \in {"save", "finish"} THEN {p.merged[s][i]} ELSE {})

\* Every slot there is of an id: the server's, and those the devices and their passes hold.
Known(s, i) == {server.data[s][i]} \cup UNION {Held(live[d][s][i], pass[d], pc[d], s, i) : d \in Device}

\* A device that last synced at time last missed the newest deletion of the id.
MissedAt(s, i, last) == Missed(Known(s, i), reached[s][i], server.data[s][i], now, last)

\* A device that holds slot x, overtaken by a deletion, last synced too early for it.
Late(s, i, x, last) == Old(x, reached[s][i]) => MissedAt(s, i, last)

\* What holds of every slot known of an id; settings are never deleted.
SlotOK(s, i, x) == Plausible(x, reached[s][i], now) /\ (s \in SettingStores => ~x.deleted)

\* What holds of the server's slot: no deletion has overtaken it, and a marker is gone from
\* it only when its time is up.
OnServer(s, i) ==
    /\ ~Old(server.data[s][i], reached[s][i]) /\ reached[s][i] <= now
    /\ server.data[s][i] = Absent /\ reached[s][i] # Never => now - reached[s][i] > MarkerLifetime
    /\ s \in SettingStores => reached[s][i] = Never

\* What a device's slot, and its pass, hold of an overtaken record.
OnTime(s, i, slot, p, where, last) ==
    /\ Late(s, i, slot, last) /\ Late(s, i, p.before[s][i], last) /\ Late(s, i, p.remote.data[s][i], now)
    /\ where \in {"save", "finish"} => Late(s, i, p.merged[s][i], now)
    /\ where \in {"save", "finish"} /\ p.complete /\ (s < p.next \/ where = "finish") => Late(s, i, slot, now)
    /\ where \in {"read", "upload"} /\ p.remote.data[s][i] = Absent /\ ~Stale(Merging(now, last)) =>
           Late(s, i, slot, now) /\ Late(s, i, p.before[s][i], now)

\* Where a pass is, and what it holds there: it began at this very moment.
Ready(p, where, last) ==
    /\ last \in Nat /\ last <= now
    /\ where # "idle" => p.started = now
    /\ where \in {"idle", "download"} => p.before = Nothing /\ p.remote = NoCopy
    /\ where \notin {"idle", "download"} => p.remote # NoCopy
    /\ where = "upload" => p.next = 1
    /\ where = "upload" => p.merged = Merged(Merging(now, last), p.before, p.remote.data)

\* The inductive invariant: nothing on the server is overtaken, and devices that hold what is
\* were away.
LifeInv ==
    /\ server.version > 0
    /\ \A s \in Store, i \in Id : OnServer(s, i) /\ \A x \in Known(s, i) : SlotOK(s, i, x)
    /\ \A d \in Device : /\ Ready(pass[d], pc[d], last_sync[d])
                         /\ \A s \in Store, i \in Id : OnTime(s, i, live[d][s][i], pass[d], pc[d], last_sync[d])

\* The hypothesis of the theorems: the devices' clocks agree, a sync takes no time beside a
\* marker's life, and all start from one synced copy of live records.
InStep ==
    /\ ~SyncTakesTime /\ SyncedStart # {} /\ \A d \in Device : Skew[d] = 0
    /\ \A data \in SyncedStart, s \in Store, i \in Id : data[s][i] \in {Absent} \cup {PutAt(0, c) : c \in Nat}

\* What is known of an id, slot by slot.
LEMMA KnownIs ==
    ASSUME NEW s \in Store, NEW i \in Id
    PROVE  /\ server.data[s][i] \in Known(s, i)
           /\ \A d \in Device : Held(live[d][s][i], pass[d], pc[d], s, i) \subseteq Known(s, i)
           /\ \A x \in Known(s, i) : \/ x = server.data[s][i]
                                     \/ \E d \in Device : x \in Held(live[d][s][i], pass[d], pc[d], s, i)
BY DEF Known

\* The types of what is known of an id.
LEMMA SlotTypes ==
    ASSUME TypeOK, NEW s \in Store, NEW i \in Id
    PROVE  /\ now \in Nat /\ reached[s][i] \in Nat \cup {Never} /\ server.data[s][i] \in Slot
           /\ \A d \in Device : /\ live[d][s][i] \in Slot /\ last_sync[d] \in Nat \cup {Never} /\ pass[d] \in Pass
                                /\ pass[d].before[s][i] \in Slot /\ pass[d].remote.data[s][i] \in Slot
                                /\ pass[d].merged[s][i] \in Slot
<1>1. now \in Nat /\ reached[s][i] \in Nat \cup {Never}
  BY DEF TypeOK
<1>2. server.data \in Snapshot
  BY DEF TypeOK, Copy
<1>3. ASSUME NEW d \in Device
      PROVE  /\ live[d] \in Snapshot /\ last_sync[d] \in Nat \cup {Never} /\ pass[d] \in Pass
             /\ pass[d].before \in Snapshot /\ pass[d].remote.data \in Snapshot /\ pass[d].merged \in Snapshot
  BY DEF TypeOK, Pass, Copy
<1> QED BY <1>1, <1>2, <1>3 DEF Snapshot

\* Who is late now is so for every earlier time.
LEMMA LateEarlier ==
    ASSUME TypeOK, NEW s \in Store, NEW i \in Id, NEW x, NEW a \in Nat \cup {Never}, NEW b \in Nat \cup {Never},
           a <= b, Late(s, i, x, b), \A m \in Known(s, i) : m \in Slot
    PROVE  Late(s, i, x, a)
<1>1. \A m \in Known(s, i) : m.uploaded_at \in Nat \cup {Never}
  BY DEF Slot
<1> QED BY <1>1, SlotTypes, MarkerLifetimeAssumption DEF Late, MissedAt, Missed, Never

\* The same after a step.
LEMMA SlotTypesNext ==
    TypeOK' => (\A e \in Device, s \in Store, i \in Id :
                   /\ live[e][s][i] \in Slot /\ pass[e].before[s][i] \in Slot
                   /\ pass[e].remote.data[s][i] \in Slot /\ pass[e].merged[s][i] \in Slot)'
<1>1. TypeOK => \A e \in Device, s \in Store, i \in Id :
                   /\ live[e][s][i] \in Slot /\ pass[e].before[s][i] \in Slot
                   /\ pass[e].remote.data[s][i] \in Slot /\ pass[e].merged[s][i] \in Slot
  BY SlotTypes
<1> QED BY <1>1, PTL

\* A step of one device keeps the invariant when what it leaves on the server and on that
\* device does, and it makes no other device late.
LEMMA OneDevice ==
    ASSUME TypeOK, TypeOK', LifeInv, NEW d \in Device, now' = now, server'.version > 0,
           \A e \in Device : e # d => UNCHANGED <<live[e], last_sync[e], pc[e], pass[e]>>,
           \A s \in Store, i \in Id : OnServer(s, i)' /\ \A x \in Known(s, i)' : SlotOK(s, i, x)',
           \A s \in Store, i \in Id, x \in Slot, l \in Nat \cup {Never} :
               l <= now /\ Late(s, i, x, l) => Late(s, i, x, l)',
           Ready(pass'[d], pc'[d], last_sync'[d]),
           \A s \in Store, i \in Id : OnTime(s, i, live'[d][s][i], pass'[d], pc'[d], last_sync'[d])
    PROVE  LifeInv'
<1>1. ASSUME NEW e \in Device
      PROVE  /\ Ready(pass'[e], pc'[e], last_sync'[e])
             /\ \A s \in Store, i \in Id : OnTime(s, i, live'[e][s][i], pass'[e], pc'[e], last_sync'[e])
  <2>1. CASE e = d
    BY <2>1
  <2>2. CASE e # d
    <3>1. live'[e] = live[e] /\ last_sync'[e] = last_sync[e] /\ pc'[e] = pc[e] /\ pass'[e] = pass[e]
      BY <2>2
    <3> QED BY <3>1 DEF LifeInv
  <2> QED BY <2>1, <2>2
<1>2. ASSUME NEW e \in Device
      PROVE  Ready(pass[e], pc[e], last_sync[e])' /\ last_sync'[e] \in Nat /\ last_sync'[e] <= now
  BY <1>1 DEF Ready
<1>3. ASSUME NEW e \in Device, NEW s \in Store, NEW i \in Id
      PROVE  OnTime(s, i, live[e][s][i], pass[e], pc[e], last_sync[e])'
  <2> DEFINE slot == live'[e][s][i]
             p    == pass'[e]
             w    == pc'[e]
             last == last_sync'[e]
  <2>1. slot \in Slot /\ p.before[s][i] \in Slot /\ p.remote.data[s][i] \in Slot /\ p.merged[s][i] \in Slot
    BY SlotTypesNext
  <2>2. OnTime(s, i, slot, p, w, last) /\ last \in Nat /\ last <= now
    BY <1>1, <1>2
  <2>3. \A x \in Slot, l \in Nat \cup {Never} : l <= now /\ Late(s, i, x, l) => Late(s, i, x, l)'
    OBVIOUS
  <2>4. now \in Nat /\ now <= now
    BY DEF TypeOK
  <2>5. \A x \in Slot, l \in {last, now} :
            (Old(x, reached[s][i]) => Missed(Known(s, i), reached[s][i], server.data[s][i], now, l)) =>
            (Old(x, reached'[s][i]) => Missed(Known(s, i)', reached'[s][i], server'.data[s][i], now', l))
    BY <2>2, <2>3, <2>4 DEF Late, MissedAt
  <2> HIDE DEF slot, p, w, last
  <2>6. /\ Old(slot, reached'[s][i]) => Missed(Known(s, i)', reached'[s][i], server'.data[s][i], now', last)
        /\ Old(p.before[s][i], reached'[s][i]) => Missed(Known(s, i)', reached'[s][i], server'.data[s][i], now', last)
        /\ Old(p.remote.data[s][i], reached'[s][i]) => Missed(Known(s, i)', reached'[s][i], server'.data[s][i], now', now')
        /\ w \in {"save", "finish"} =>
             (Old(p.merged[s][i], reached'[s][i]) => Missed(Known(s, i)', reached'[s][i], server'.data[s][i], now', now'))
        /\ w \in {"save", "finish"} /\ p.complete /\ (s < p.next \/ w = "finish") =>
             (Old(slot, reached'[s][i]) => Missed(Known(s, i)', reached'[s][i], server'.data[s][i], now', now'))
        /\ w \in {"read", "upload"} /\ p.remote.data[s][i] = Absent /\ ~Stale(Merging(now, last)) =>
             /\ (Old(slot, reached'[s][i]) => Missed(Known(s, i)', reached'[s][i], server'.data[s][i], now', now'))
             /\ (Old(p.before[s][i], reached'[s][i]) => Missed(Known(s, i)', reached'[s][i], server'.data[s][i], now', now'))
    BY <2>1, <2>2, <2>5 DEF OnTime, Late, MissedAt
  <2> USE DEF slot, p, w, last
  <2> QED BY <2>6 DEF OnTime, Late, MissedAt
<1> QED BY <1>2, <1>3 DEF LifeInv

\* A slot that says nothing of an upload but what is known.
Seen(s, i, x) ==
    /\ SlotOK(s, i, x)
    /\ Mark(x) => \E m \in Known(s, i) : Mark(m) /\ m.updated_at = x.updated_at /\ m.uploaded_at = x.uploaded_at

\* Every slot known says nothing of an upload but what is known.
LEMMA KnownIsSeen ==
    ASSUME LifeInv, NEW s \in Store, NEW i \in Id
    PROVE  \A x \in Known(s, i) : Seen(s, i, x)
BY DEF LifeInv, Seen

\* An id that is not held says nothing at all.
LEMMA AbsentIsSeen ==
    ASSUME TypeOK, NEW s \in Store, NEW i \in Id
    PROVE  Seen(s, i, Absent) /\ \A l : Late(s, i, Absent, l)
<1>1. Absent \in Slot /\ ~Mark(Absent) /\ now \in Nat
  BY SlotsMade DEF Mark, Absent, TypeOK
<1> QED BY <1>1 DEF Seen, SlotOK, Plausible, Late, Old, Absent, Never

\* A step of one device that leaves the server alone.
LEMMA LocalStep ==
    ASSUME TypeOK, TypeOK', LifeInv, NEW d \in Device, UNCHANGED <<now, server, reached>>,
           \A e \in Device : e # d => UNCHANGED <<live[e], last_sync[e], pc[e], pass[e]>>,
           \A s \in Store, i \in Id : \A x \in Held(live'[d][s][i], pass'[d], pc'[d], s, i) : Seen(s, i, x),
           Ready(pass'[d], pc'[d], last_sync'[d]),
           \A s \in Store, i \in Id : OnTime(s, i, live'[d][s][i], pass'[d], pc'[d], last_sync'[d])
    PROVE  LifeInv'
<1>1. ASSUME NEW s \in Store, NEW i \in Id
      PROVE  \A x \in Known(s, i)' : Seen(s, i, x)
  <2> SUFFICES ASSUME NEW x \in Known(s, i)' PROVE Seen(s, i, x)
    OBVIOUS
  <2>1. CASE x = server'.data[s][i]
    BY <2>1, KnownIs, KnownIsSeen
  <2>2. ASSUME NEW e \in Device, x \in Held(live'[e][s][i], pass'[e], pc'[e], s, i)
        PROVE  Seen(s, i, x)
    <3>1. CASE e # d
      <4>1. live'[e] = live[e] /\ pass'[e] = pass[e] /\ pc'[e] = pc[e]
        BY <3>1
      <4>2. x \in Known(s, i)
        BY <2>2, <4>1, KnownIs
      <4> QED BY <4>2, KnownIsSeen
    <3> QED BY <2>2, <3>1
  <2> QED BY <2>1, <2>2 DEF Known
<1>2. ASSUME NEW s \in Store, NEW i \in Id
      PROVE  OnServer(s, i)' /\ \A x \in Known(s, i)' : SlotOK(s, i, x)'
  BY <1>1 DEF LifeInv, OnServer, Seen, SlotOK
<1>3. ASSUME NEW s \in Store, NEW i \in Id, NEW x \in Slot, NEW l \in Nat \cup {Never}, Late(s, i, x, l)
      PROVE  Late(s, i, x, l)'
  BY <1>1, <1>3 DEF Late, MissedAt, Missed, Seen
<1>4. server'.version > 0
  BY DEF LifeInv
<1> QED BY <1>2, <1>3, <1>4, OneDevice

-----------------------------------------------------------------------------
(* Every step. *)

\* A running pass began now, and the device synced no later.
LEMMA Timed ==
    ASSUME TypeOK, LifeInv, NEW d \in Device
    PROVE  /\ now \in Nat /\ now <= now /\ last_sync[d] \in Nat /\ last_sync[d] <= now
           /\ pc[d] # "idle" => pass[d].started = now
BY DEF TypeOK, LifeInv, Ready

\* The time the device last synced stays, or a complete sync of it saves the time it is now.
Dated(d) == \/ last_sync'[d] = last_sync[d]
            \/ last_sync'[d] = now /\ pc[d] = "finish" /\ pass[d].complete

\* A pass that starts, or the end of one.
LEMMA FreshPass ==
    ASSUME TypeOK, TypeOK', LifeInv, NEW d \in Device, UNCHANGED <<now, server, reached, live>>,
           \A e \in Device : e # d => UNCHANGED <<last_sync[e], pc[e], pass[e]>>,
           pc'[d] \in {"idle", "download"}, pass'[d].before = Nothing, pass'[d].remote = NoCopy,
           pc'[d] = "download" => pass'[d].started = now,
           Dated(d)
    PROVE  LifeInv'
<1>1. ASSUME NEW s \in Store, NEW i \in Id
      PROVE  /\ pass'[d].before[s][i] = Absent /\ pass'[d].remote.data[s][i] = Absent
             /\ \A x \in Held(live'[d][s][i], pass'[d], pc'[d], s, i) : Seen(s, i, x)
  <2>1. pass'[d].before[s][i] = Absent /\ pass'[d].remote.data[s][i] = Absent
    BY DEF Nothing, NoCopy
  <2>2. live[d][s][i] \in Known(s, i)
    BY KnownIs DEF Held
  <2> QED BY <2>1, <2>2, AbsentIsSeen, KnownIsSeen DEF Held
<1>2. Ready(pass'[d], pc'[d], last_sync'[d])
  BY Timed DEF Ready, Dated
<1>3. ASSUME NEW s \in Store, NEW i \in Id
      PROVE  OnTime(s, i, live'[d][s][i], pass'[d], pc'[d], last_sync'[d])
  <2>1. Late(s, i, live[d][s][i], last_sync'[d])
    BY DEF LifeInv, OnTime, Dated
  <2> QED BY <1>1, <2>1, AbsentIsSeen DEF OnTime
<1> QED BY <1>1, <1>2, <1>3, LocalStep

\* The fields of a device's pass, by type.
LEMMA Fields ==
    ASSUME TypeOK, NEW d \in Device
    PROVE  /\ pass \in [Device -> Pass] /\ pass[d] \in Pass /\ pass[d].next \in 1..Stores /\ pass[d].complete \in BOOLEAN
           /\ pc \in [Device -> {"idle", "download", "read", "upload", "save", "finish"}]
           /\ pass[d].before \in Snapshot /\ pass[d].merged \in Snapshot /\ pass[d].remote \in Copy
           /\ pass[d].remote.data \in Snapshot /\ live \in [Device -> Snapshot] /\ live[d] \in Snapshot
           /\ last_sync \in [Device -> Nat \cup {Never}] /\ server \in Copy
           /\ Stores \in Store /\ Stores \in Nat
<1>1. /\ pass \in [Device -> Pass] /\ live \in [Device -> Snapshot] /\ last_sync \in [Device -> Nat \cup {Never}]
      /\ pc \in [Device -> {"idle", "download", "read", "upload", "save", "finish"}]
      /\ server \in Copy /\ pass[d].next \in Store
  BY DEF TypeOK
<1>2. pass[d] \in Pass /\ live[d] \in Snapshot
  BY <1>1
<1>3. /\ pass[d].complete \in BOOLEAN /\ pass[d].remote \in Copy
      /\ pass[d].before \in Snapshot /\ pass[d].merged \in Snapshot
  BY <1>2 DEF Pass
<1>4. pass[d].remote.data \in Snapshot
  BY <1>3 DEF Copy
<1>5. Stores \in Store /\ Stores \in Nat
  BY ConstantsAssumption DEF Store
<1> QED BY <1>1, <1>2, <1>3, <1>4, <1>5 DEF Store

\* A sync starts, is cut short or overtaken.
LEMMA RestartSteps ==
    ASSUME TypeOK, TypeOK', LifeInv, InStep, NEW d \in Device,
           StartSync(d) \/ UploadOvertaken(d) \/ CutShort(d) \/ SaveState(d)
    PROVE  LifeInv'
<1>1. /\ pass' = [pass EXCEPT ![d] = pass'[d]] /\ pc' = [pc EXCEPT ![d] = pc'[d]]
      /\ pc'[d] \in {"idle", "download"}
      /\ pass'[d].before = Nothing /\ pass'[d].remote = NoCopy
      /\ pc'[d] = "download" => pass'[d].started = now
  <2>1. CASE StartSync(d)
    <3>1. /\ pass' = [pass EXCEPT ![d] = PassAt(Clock(d), 1)] /\ pc' = [pc EXCEPT ![d] = "download"]
          /\ Clock(d) = now
      BY <2>1, Fields DEF StartSync, GoTo, Clock, InStep, TypeOK
    <3> QED BY <3>1, Fields DEF PassAt
  <2>2. CASE ~StartSync(d)
    <3>1. \/ pass' = [pass EXCEPT ![d] = NoPass] /\ pc' = [pc EXCEPT ![d] = "idle"]
          \/ /\ pass' = [pass EXCEPT ![d] = PassAt(pass[d].started, pass[d].number + 1)]
             /\ pc' = [pc EXCEPT ![d] = "download"]
             /\ pc[d] # "idle"
      BY <2>2 DEF UploadOvertaken, CutShort, SaveState, Again, Ended, GoTo
    <3>2. pc[d] # "idle" => pass[d].started = now
      BY Timed
    <3>3. pc \in [Device -> {"idle", "download", "read", "upload", "save", "finish"}] /\ pass \in [Device -> Pass]
      BY Fields
    <3>4. CASE pass' = [pass EXCEPT ![d] = NoPass] /\ pc' = [pc EXCEPT ![d] = "idle"]
      <4>1. pass'[d] = NoPass /\ pc'[d] = "idle"
        BY <3>3, <3>4
      <4>2. NoPass.before = Nothing /\ NoPass.remote = NoCopy
        BY DEF NoPass, PassAt
      <4> QED BY <3>4, <4>1, <4>2
    <3>5. CASE /\ pass' = [pass EXCEPT ![d] = PassAt(pass[d].started, pass[d].number + 1)]
               /\ pc' = [pc EXCEPT ![d] = "download"]
               /\ pc[d] # "idle"
      <4>1. pass'[d] = PassAt(pass[d].started, pass[d].number + 1) /\ pc'[d] = "download"
        BY <3>3, <3>5
      <4>2. pass'[d].before = Nothing /\ pass'[d].remote = NoCopy /\ pass'[d].started = now
        BY <3>2, <3>5, <4>1 DEF PassAt
      <4> QED BY <3>5, <4>1, <4>2
    <3> QED BY <3>1, <3>4, <3>5
  <2> QED BY <2>1, <2>2
<1>2. UNCHANGED <<now, server, reached, live>>
  BY DEF StartSync, UploadOvertaken, CutShort, SaveState, serverVars, diskVars
<1>3. /\ \A e \in Device : e # d => last_sync'[e] = last_sync[e]
      /\ Dated(d)
  <2>1. CASE SaveState(d)
    <3>1. /\ pc[d] = "finish"
          /\ last_sync' = IF pass[d].complete THEN [last_sync EXCEPT ![d] = pass[d].started] ELSE last_sync
      BY <2>1 DEF SaveState
    <3> QED BY <3>1, Fields, Timed DEF Dated
  <2>2. CASE ~SaveState(d)
    BY <2>2 DEF Dated, StartSync, UploadOvertaken, CutShort, diskVars
  <2> QED BY <2>1, <2>2
<1>4. \A e \in Device : e # d => pc'[e] = pc[e] /\ pass'[e] = pass[e]
  BY <1>1, Fields
<1>5. \A e \in Device : e # d => UNCHANGED <<last_sync[e], pc[e], pass[e]>>
  BY <1>3, <1>4
<1>6. /\ pc'[d] \in {"idle", "download"} /\ pass'[d].before = Nothing /\ pass'[d].remote = NoCopy
      /\ pc'[d] = "download" => pass'[d].started = now
      /\ Dated(d)
  BY <1>1, <1>3
<1> QED BY <1>2, <1>5, <1>6, FreshPass

\* What is downloaded is not overtaken; a slot kept here is, when the server holds nothing,
\* only on a device that was away.
LEMMA DownloadStep ==
    ASSUME TypeOK, TypeOK', LifeInv, CopiesInv, NEW d \in Device, Download(d)
    PROVE  LifeInv'
<1> DEFINE from == IF kept[d] # NoCopy /\ kept[d].version = server.version THEN kept[d] ELSE server
<1>1. /\ pc[d] = "download" /\ pass' = [pass EXCEPT ![d] = [pass[d] EXCEPT !.remote = from]]
      /\ pc' = [pc EXCEPT ![d] = "read"] /\ UNCHANGED <<now, server, reached, live, last_sync>>
  BY DEF Download, GoTo, serverVars, diskVars
<1>2. from.data = server.data /\ from # NoCopy
  BY DEF CopiesInv, FromServer, LifeInv, NoCopy
<1> HIDE DEF from
<1>3. /\ pass'[d] = [pass[d] EXCEPT !.remote = from] /\ pc'[d] = "read"
      /\ \A e \in Device : e # d => pass'[e] = pass[e] /\ pc'[e] = pc[e]
  BY <1>1, Fields
<1>4. /\ pass'[d].remote = from /\ pass'[d].before = pass[d].before /\ pass'[d].started = pass[d].started
  BY <1>3, Fields DEF Pass
<1>5. /\ last_sync[d] \in Nat /\ last_sync[d] <= now /\ now \in Nat /\ pass[d].started = now
      /\ pass[d].before = Nothing
  BY <1>1, Timed DEF LifeInv, Ready
<1>6. Ready(pass'[d], pc'[d], last_sync'[d])
  BY <1>1, <1>2, <1>3, <1>4, <1>5 DEF Ready
<1>7. ASSUME NEW s \in Store, NEW i \in Id
      PROVE  /\ \A x \in Held(live'[d][s][i], pass'[d], pc'[d], s, i) : Seen(s, i, x)
             /\ OnTime(s, i, live'[d][s][i], pass'[d], pc'[d], last_sync'[d])
  <2>1. /\ live'[d][s][i] \in Known(s, i) /\ pass'[d].before[s][i] = Absent
        /\ pass'[d].remote.data[s][i] = server.data[s][i] /\ server.data[s][i] \in Known(s, i)
    BY <1>1, <1>2, <1>4, <1>5, KnownIs DEF Held, Nothing
  <2>2. \A x \in Held(live'[d][s][i], pass'[d], pc'[d], s, i) : Seen(s, i, x)
    BY <1>3, <2>1, AbsentIsSeen, KnownIsSeen DEF Held
  <2>3. ~Old(server.data[s][i], reached[s][i]) /\ Late(s, i, live[d][s][i], last_sync[d])
    BY DEF LifeInv, OnServer, OnTime
  <2>4. Late(s, i, server.data[s][i], now)
    BY <2>3 DEF Late
  <2>5. server.data[s][i] = Absent /\ ~Stale(Merging(now, last_sync[d])) => Late(s, i, live[d][s][i], now)
    <3>1. ~Stale(Merging(now, last_sync[d])) => ~(now - last_sync[d] > MarkerLifetime)
      BY <1>5 DEF Stale, Merging, Never
    <3> QED BY <2>3, <3>1 DEF Late, MissedAt, Missed
  <2> QED BY <1>1, <1>3, <2>1, <2>2, <2>3, <2>4, <2>5, AbsentIsSeen DEF OnTime
<1>8. \A e \in Device : e # d => UNCHANGED <<live[e], last_sync[e], pc[e], pass[e]>>
  BY <1>1, <1>3
<1> QED BY <1>1, <1>6, <1>7, <1>8, LocalStep

\* What a device's pass holds of a slot after it read it.
LEMMA ReadStoreStep ==
    ASSUME TypeOK, TypeOK', LifeInv, NEW d \in Device, ReadStore(d)
    PROVE  LifeInv'
<1> DEFINE k == pass[d].next
           before == [pass[d].before EXCEPT ![k] = live[d][k]]
<1>1. /\ pc[d] = "read" /\ k \in Store
      /\ pass' = [pass EXCEPT ![d] = [pass[d] EXCEPT !.before[k] = live[d][k], !.next = k + 1]]
      /\ pc' = [pc EXCEPT ![d] = "read"] /\ UNCHANGED <<now, server, reached, live, last_sync>>
  BY Fields DEF ReadStore, GoTo, serverVars, diskVars, Store
<1>2. /\ pass'[d] = [pass[d] EXCEPT !.before[k] = live[d][k], !.next = k + 1] /\ pc'[d] = "read"
      /\ \A e \in Device : e # d => UNCHANGED <<live[e], last_sync[e], pc[e], pass[e]>>
  BY <1>1, Fields
<1>3. pass'[d].before = before /\ pass'[d].remote = pass[d].remote /\ pass'[d].started = pass[d].started
  BY <1>2, Fields DEF Pass
<1>4. ASSUME NEW s \in Store, NEW i \in Id
      PROVE  before[s][i] \in {pass[d].before[s][i], live[d][s][i]}
  BY <1>1, Fields DEF Snapshot
<1> HIDE DEF k, before
<1>5. Ready(pass'[d], pc'[d], last_sync'[d])
  BY <1>1, <1>2, <1>3, Timed DEF LifeInv, Ready
<1>6. ASSUME NEW s \in Store, NEW i \in Id
      PROVE  /\ \A x \in Held(live'[d][s][i], pass'[d], pc'[d], s, i) : Seen(s, i, x)
             /\ OnTime(s, i, live'[d][s][i], pass'[d], pc'[d], last_sync'[d])
  <2>1. /\ pass'[d].before[s][i] \in {pass[d].before[s][i], live[d][s][i]}
        /\ pass'[d].remote.data[s][i] = pass[d].remote.data[s][i] /\ live'[d][s][i] = live[d][s][i]
    BY <1>1, <1>3, <1>4
  <2>2. /\ live[d][s][i] \in Known(s, i) /\ pass[d].before[s][i] \in Known(s, i)
        /\ pass[d].remote.data[s][i] \in Known(s, i)
    BY KnownIs DEF Held
  <2>3. \A x \in Held(live'[d][s][i], pass'[d], pc'[d], s, i) : Seen(s, i, x)
    BY <1>2, <2>1, <2>2, KnownIsSeen DEF Held
  <2>4. OnTime(s, i, live[d][s][i], pass[d], "read", last_sync[d])
    BY <1>1 DEF LifeInv
  <2> QED BY <1>1, <1>2, <2>1, <2>3, <2>4 DEF OnTime
<1> QED BY <1>1, <1>2, <1>5, <1>6, LocalStep

\* The last store read, the pass merges what it read with what it downloaded.
LEMMA ReadLastStoreStep ==
    ASSUME TypeOK, TypeOK', LifeInv, NEW d \in Device, ReadLastStore(d)
    PROVE  LifeInv'
<1> DEFINE remote == pass[d].remote
           before == [pass[d].before EXCEPT ![Stores] = live[d][Stores]]
           merged == Merged(MergeFor(d, remote), before, remote.data)
           upload == remote = NoCopy \/ merged # remote.data
<1>1. /\ pc[d] = "read"
      /\ pass' = [pass EXCEPT ![d] = [pass[d] EXCEPT !.before = before, !.merged = merged, !.next = 1,
                                                     !.copy = remote]]
      /\ pc' = [pc EXCEPT ![d] = IF upload THEN "upload" ELSE "save"]
      /\ UNCHANGED <<now, server, reached, live, last_sync>>
  BY DEF ReadLastStore, GoTo, serverVars, diskVars
<1>2. ASSUME NEW s \in Store, NEW i \in Id
      PROVE  before[s][i] \in {pass[d].before[s][i], live[d][s][i]}
  BY Fields DEF Snapshot
<1>3. remote # NoCopy /\ MergeFor(d, remote) = Merging(now, last_sync[d])
  BY <1>1, Timed DEF LifeInv, Ready, MergeFor
<1> HIDE DEF before, merged
<1>4. /\ pass'[d] = [pass[d] EXCEPT !.before = before, !.merged = merged, !.next = 1, !.copy = remote]
      /\ pc'[d] \in {"upload", "save"} /\ (pc'[d] = "save" => merged = remote.data)
      /\ \A e \in Device : e # d => UNCHANGED <<live[e], last_sync[e], pc[e], pass[e]>>
  BY <1>1, Fields
<1>5. /\ pass'[d].before = before /\ pass'[d].merged = merged /\ pass'[d].next = 1
      /\ pass'[d].remote = remote /\ pass'[d].started = pass[d].started
  BY <1>4, Fields DEF Pass
<1>6. merged = Merged(Merging(now, last_sync[d]), before, remote.data)
  BY <1>3 DEF merged
<1> HIDE DEF remote
<1>7. Ready(pass'[d], pc'[d], last_sync'[d])
  BY <1>1, <1>3, <1>4, <1>5, <1>6, Timed DEF LifeInv, Ready
<1>8. ASSUME NEW s \in Store, NEW i \in Id
      PROVE  /\ \A x \in Held(live'[d][s][i], pass'[d], pc'[d], s, i) : Seen(s, i, x)
             /\ OnTime(s, i, live'[d][s][i], pass'[d], pc'[d], last_sync'[d])
  <2>1. /\ pass'[d].before[s][i] \in {pass[d].before[s][i], live[d][s][i]}
        /\ pass'[d].remote.data[s][i] = pass[d].remote.data[s][i] /\ live'[d][s][i] = live[d][s][i]
        /\ pc'[d] = "save" => pass'[d].merged[s][i] = pass[d].remote.data[s][i]
    BY <1>1, <1>2, <1>4, <1>5 DEF remote
  <2>2. /\ live[d][s][i] \in Known(s, i) /\ pass[d].before[s][i] \in Known(s, i)
        /\ pass[d].remote.data[s][i] \in Known(s, i)
    BY KnownIs DEF Held
  <2>3. \A x \in Held(live'[d][s][i], pass'[d], pc'[d], s, i) : Seen(s, i, x)
    BY <1>4, <2>1, <2>2, KnownIsSeen DEF Held
  <2>4. OnTime(s, i, live[d][s][i], pass[d], "read", last_sync[d])
    BY <1>1 DEF LifeInv
  <2>5. ~(s < pass'[d].next)
    BY <1>5 DEF Store
  <2>6. /\ Late(s, i, live[d][s][i], last_sync[d]) /\ Late(s, i, pass[d].before[s][i], last_sync[d])
        /\ Late(s, i, pass[d].remote.data[s][i], now)
        /\ pass[d].remote.data[s][i] = Absent /\ ~Stale(Merging(now, last_sync[d])) =>
               Late(s, i, live[d][s][i], now) /\ Late(s, i, pass[d].before[s][i], now)
    BY <2>4 DEF OnTime
  <2>7. last_sync'[d] = last_sync[d]
    BY <1>1
  <2>8. /\ Late(s, i, pass'[d].before[s][i], last_sync[d])
        /\ pc'[d] \in {"save", "finish"} => Late(s, i, pass'[d].merged[s][i], now)
        /\ pass[d].remote.data[s][i] = Absent /\ ~Stale(Merging(now, last_sync[d])) =>
               Late(s, i, pass'[d].before[s][i], now)
    BY <1>4, <2>1, <2>6
  <2>9. pc'[d] # "finish"
    BY <1>4
  <2> QED BY <2>1, <2>3, <2>5, <2>6, <2>7, <2>8, <2>9 DEF OnTime
<1> QED BY <1>1, <1>4, <1>7, <1>8, LocalStep

\* No deletion of a setting is ever uploaded.
LEMMA SettingsAreKept ==
    ASSUME TypeOK, LifeInv, NEW s \in SettingStores, s \in Store, NEW i \in Id, NEW x, Plausible(x, reached[s][i], now)
    PROVE  reached[s][i] = Never /\ ~Old(x, reached[s][i])
BY DEF LifeInv, OnServer, Plausible, Old, Slot, Never

\* The server refuses, and the pass merges only to save.
LEMMA UploadRefusedStep ==
    ASSUME TypeOK, TypeOK', LifeInv, NEW d \in Device, UploadRefused(d)
    PROVE  LifeInv'
<1> DEFINE m == Receiving(now, last_sync[d])
           merged == Merged(m, pass[d].before, pass[d].remote.data)
<1>1. pc[d] = "upload" /\ pass[d].remote # NoCopy /\ pass[d].started = now /\ pass[d].next = 1
  BY Timed DEF UploadRefused, LifeInv, Ready
<1>2. /\ pass' = [pass EXCEPT ![d] = [pass[d] EXCEPT !.merged = merged]]
      /\ pc' = [pc EXCEPT ![d] = "save"] /\ UNCHANGED <<now, server, reached, live, last_sync>>
  BY <1>1 DEF UploadRefused, GoTo, serverVars, diskVars
<1> HIDE DEF merged
<1>3. /\ pass'[d] = [pass[d] EXCEPT !.merged = merged] /\ pc'[d] = "save"
      /\ \A e \in Device : e # d => UNCHANGED <<live[e], last_sync[e], pc[e], pass[e]>>
  BY <1>2, Fields
<1>4. /\ pass'[d].before = pass[d].before /\ pass'[d].merged = merged /\ pass'[d].next = 1
      /\ pass'[d].remote = pass[d].remote /\ pass'[d].started = now
  BY <1>1, <1>3, Fields DEF Pass
<1>5. Ready(pass'[d], pc'[d], last_sync'[d])
  BY <1>1, <1>2, <1>3, <1>4, Timed DEF LifeInv, Ready
<1>6. ASSUME NEW s \in Store, NEW i \in Id
      PROVE  /\ \A x \in Held(live'[d][s][i], pass'[d], pc'[d], s, i) : Seen(s, i, x)
             /\ OnTime(s, i, live'[d][s][i], pass'[d], pc'[d], last_sync'[d])
  <2> DEFINE mine == pass[d].before[s][i]
             theirs == pass[d].remote.data[s][i]
             r == merged[s][i]
             t == reached[s][i]
  <2>1. /\ live[d][s][i] \in Known(s, i) /\ mine \in Known(s, i) /\ theirs \in Known(s, i)
    BY KnownIs DEF Held
  <2>2. Seen(s, i, mine) /\ Seen(s, i, theirs) /\ Seen(s, i, live[d][s][i])
    BY <2>1, KnownIsSeen
  <2>3. OnTime(s, i, live[d][s][i], pass[d], "upload", last_sync[d])
    BY <1>1 DEF LifeInv
  <2>4. r = IF s \in SettingStores THEN MergeSetting(m, mine, theirs) ELSE MergeRecord(m, mine, theirs)
    BY DEF merged, Merged
  <2>5. m \in MergeRun /\ (Stale(m) <=> Stale(Merging(now, last_sync[d])))
    BY Timed DEF Receiving, Merging, MergeRun, Stale
  <2>6. now \in Nat /\ t \in Nat \cup {Never} /\ last_sync[d] \in Nat
    BY Timed, SlotTypes
  <2> HIDE DEF m, mine, theirs, r, t
  <2>7. Seen(s, i, r) /\ Late(s, i, r, now)
    <3>1. CASE s \in SettingStores
      <4>1. r \in {mine, theirs}
        BY <2>2, <2>4, <2>5, <3>1, MergedSetting DEF Seen, SlotOK, Plausible
      <4> QED BY <2>2, <3>1, <4>1, SettingsAreKept DEF Seen, SlotOK, Late
    <3>2. CASE s \notin SettingStores
      <4>1. Plausible(mine, t, now) /\ Plausible(theirs, t, now)
        BY <2>2 DEF Seen, SlotOK, t
      <4>2. /\ Plausible(r, t, now)
            /\ Mark(r) => \E x \in {mine, theirs} : Mark(x) /\ x.updated_at = r.updated_at /\ x.uploaded_at = r.uploaded_at
            /\ Old(r, t) => \/ Old(theirs, t)
                            \/ theirs = Absent /\ ~Stale(m) /\ Old(mine, t)
        <5>1. r = MergeRecord(Receiving(now, last_sync[d]), mine, theirs)
          BY <2>4, <3>2 DEF m
        <5>2. /\ Plausible(r, t, now)
              /\ Mark(r) => \E x \in {mine, theirs} : Mark(x) /\ x.updated_at = r.updated_at /\ x.uploaded_at = r.uploaded_at
              /\ Old(r, t) => \/ Old(theirs, t)
                              \/ theirs = Absent /\ ~Stale(Receiving(now, last_sync[d])) /\ Old(mine, t)
          BY <2>6, <4>1, <5>1, ReceivedSlot
        <5> QED BY <5>2 DEF m
      <4>3. Seen(s, i, r)
        BY <2>1, <3>2, <4>2 DEF Seen, SlotOK, t
      <4>4. /\ Late(s, i, theirs, now)
            /\ theirs = Absent /\ ~Stale(m) => Late(s, i, mine, now)
        BY <2>3, <2>5 DEF OnTime, mine, theirs
      <4> QED BY <4>2, <4>3, <4>4 DEF Late, t
    <3> QED BY <3>1, <3>2
  <2>8. /\ pass'[d].before[s][i] = mine /\ pass'[d].remote.data[s][i] = theirs /\ pass'[d].merged[s][i] = r
        /\ live'[d][s][i] = live[d][s][i]
    BY <1>2, <1>4 DEF mine, theirs, r
  <2>9. \A x \in Held(live'[d][s][i], pass'[d], pc'[d], s, i) : Seen(s, i, x)
    BY <1>3, <2>2, <2>7, <2>8 DEF Held
  <2>10. ~(s < pass'[d].next)
    BY <1>4 DEF Store
  <2>11. Late(s, i, live[d][s][i], last_sync[d]) /\ Late(s, i, mine, last_sync[d]) /\ Late(s, i, theirs, now)
    BY <2>3 DEF OnTime, mine, theirs
  <2> QED BY <1>2, <1>3, <2>7, <2>8, <2>9, <2>10, <2>11 DEF OnTime
<1> QED BY <1>2, <1>3, <1>5, <1>6, LocalStep

\* A store is replaced, or left alone.
LEMMA SaveStoreStep ==
    ASSUME TypeOK, TypeOK', LifeInv, NEW d \in Device, SaveStore(d)
    PROVE  LifeInv'
<1> DEFINE k == pass[d].next
           unchanged == live[d][k] = pass[d].before[k]
           next == IF k = Stores THEN k ELSE k + 1
           complete == pass[d].complete /\ unchanged
           where == IF k = Stores THEN "finish" ELSE "save"
<1>1. /\ pc[d] = "save" /\ k \in Store
      /\ live' = IF unchanged THEN [live EXCEPT ![d][k] = pass[d].merged[k]] ELSE live
      /\ pass' = [pass EXCEPT ![d] = [pass[d] EXCEPT !.next = next, !.complete = complete]]
      /\ pc' = [pc EXCEPT ![d] = where] /\ UNCHANGED <<now, server, reached, last_sync>>
  BY Fields DEF SaveStore, GoTo, serverVars, Store
<1> HIDE DEF next, complete, where
<1>2. /\ pass'[d] = [pass[d] EXCEPT !.next = next, !.complete = complete] /\ pc'[d] = where
      /\ \A e \in Device : e # d => UNCHANGED <<live[e], last_sync[e], pc[e], pass[e]>>
  BY <1>1, Fields
<1>3. /\ pass'[d].before = pass[d].before /\ pass'[d].merged = pass[d].merged /\ pass'[d].next = next
      /\ pass'[d].remote = pass[d].remote /\ pass'[d].started = pass[d].started
      /\ pass'[d].complete = complete
  BY <1>2, Fields DEF Pass
<1>4. where \in {"save", "finish"}
  BY DEF where
<1>5. Ready(pass'[d], pc'[d], last_sync'[d])
  BY <1>1, <1>2, <1>3, <1>4, Timed DEF LifeInv, Ready
<1>6. ASSUME NEW s \in Store, NEW i \in Id
      PROVE  /\ \A x \in Held(live'[d][s][i], pass'[d], pc'[d], s, i) : Seen(s, i, x)
             /\ OnTime(s, i, live'[d][s][i], pass'[d], pc'[d], last_sync'[d])
  <2> DEFINE mine == pass[d].before[s][i]
             theirs == pass[d].remote.data[s][i]
             r == pass[d].merged[s][i]
             slot == live[d][s][i]
             slot2 == live'[d][s][i]
  <2>1. slot \in Known(s, i) /\ mine \in Known(s, i) /\ theirs \in Known(s, i) /\ r \in Known(s, i)
    BY <1>1, KnownIs DEF Held
  <2>2. slot2 = IF s = k /\ unchanged THEN r ELSE slot
    BY <1>1, Fields DEF Snapshot
  <2>3. OnTime(s, i, slot, pass[d], "save", last_sync[d])
    BY <1>1 DEF LifeInv
  <2>4. /\ pass'[d].before[s][i] = mine /\ pass'[d].remote.data[s][i] = theirs /\ pass'[d].merged[s][i] = r
    BY <1>3
  <2>5. /\ Late(s, i, slot, last_sync[d]) /\ Late(s, i, mine, last_sync[d]) /\ Late(s, i, theirs, now)
        /\ Late(s, i, r, now)
        /\ pass[d].complete /\ s < k => Late(s, i, slot, now)
    BY <2>3 DEF OnTime
  <2>6. Late(s, i, r, last_sync[d])
    <3>1. \A m \in Known(s, i) : m \in Slot
      BY KnownIsSeen DEF Seen, SlotOK, Plausible
    <3> QED BY <2>5, <3>1, Timed, LateEarlier
  <2>7. complete /\ (s < next \/ where = "finish") => unchanged /\ pass[d].complete /\ (s = k \/ s < k)
    <3>1. complete => unchanged /\ pass[d].complete
      BY Zenon DEF complete
    <3>2. s \in Nat /\ k \in Nat /\ s <= Stores /\ Stores \in Nat
      BY <1>1, Fields DEF Store
    <3>3. s < next \/ where = "finish" => s = k \/ s < k
      BY <3>2 DEF next, where
    <3> QED BY <3>1, <3>3
  <2> HIDE DEF mine, theirs, r, slot, slot2, k, unchanged
  <2>8. complete /\ (s < next \/ where = "finish") => Late(s, i, slot2, now)
    BY <2>2, <2>5, <2>7
  <2>9. Late(s, i, slot2, last_sync[d])
    BY <2>2, <2>5, <2>6
  <2>10. \A x \in Held(slot2, pass'[d], pc'[d], s, i) : Seen(s, i, x)
    BY <1>2, <1>4, <2>1, <2>2, <2>4, KnownIsSeen DEF Held
  <2>11. OnTime(s, i, slot2, pass'[d], where, last_sync[d])
    BY <1>3, <1>4, <2>4, <2>5, <2>8, <2>9 DEF OnTime
  <2> QED BY <1>1, <1>2, <2>10, <2>11 DEF slot2
<1> QED BY <1>1, <1>2, <1>5, <1>6, LocalStep

\* What a pass has merged of a slot.
Result(d, s, i) == pass[d].merged[s][i]

\* What the server stores of a slot, and what that makes of the slots known.
LEMMA WhatIsStored ==
    ASSUME TypeOK, LifeInv, CopiesInv, NEW d \in Device, Stored(d), NEW s \in Store, NEW i \in Id
    PROVE  /\ server'.data[s][i] = Result(d, s, i) /\ ~Old(Result(d, s, i), reached[s][i])
           /\ ~Old(Result(d, s, i), reached'[s][i]) /\ reached'[s][i] <= now
           /\ Result(d, s, i) = Absent /\ reached'[s][i] # Never => now - reached'[s][i] > MarkerLifetime
           /\ s \in SettingStores => reached'[s][i] = Never
           /\ \A x \in Known(s, i) \cup {Result(d, s, i)} :
                  Plausible(x, reached'[s][i], now) /\ (s \in SettingStores => ~x.deleted)
           /\ \A x \in Slot, l \in Nat \cup {Never} :
                  l <= now /\ Late(s, i, x, l) /\ Old(x, reached'[s][i])
                      => Missed(Known(s, i) \cup {Result(d, s, i)}, reached'[s][i], Result(d, s, i), now, l)
<1> DEFINE mine == pass[d].before[s][i]
           theirs == server.data[s][i]
           t == reached[s][i]
           m == Merging(now, last_sync[d])
           r == Result(d, s, i)
<1>1. /\ pc[d] = "upload" /\ server.data = pass[d].remote.data
      /\ pass[d].merged = Merged(m, pass[d].before, pass[d].remote.data)
      /\ last_sync[d] \in Nat /\ last_sync[d] <= now /\ now \in Nat
  BY Timed DEF Stored, LifeInv, Ready, CopiesInv, FromServer
<1>2. /\ server'.data[s][i] = r
      /\ reached'[s][i] = IF IsMarker(r) /\ r.updated_at > t THEN r.updated_at ELSE t
  BY DEF Stored, MarkersReached, Result
<1>3. r = IF s \in SettingStores THEN MergeSetting(m, mine, theirs) ELSE MergeRecord(m, mine, theirs)
  BY <1>1 DEF Merged, Result
<1> HIDE DEF r
<1>4. mine \in Known(s, i) /\ theirs \in Known(s, i)
  BY KnownIs DEF Held
<1>5. \A x \in Known(s, i) : Plausible(x, t, now) /\ (s \in SettingStores => ~x.deleted)
  BY DEF LifeInv, SlotOK
<1>6. /\ ~Old(theirs, t) /\ t <= now /\ t \in Nat \cup {Never}
      /\ theirs = Absent /\ t # Never => now - t > MarkerLifetime
      /\ s \in SettingStores => t = Never
  BY SlotTypes DEF LifeInv, OnServer
<1>7. OnTime(s, i, live[d][s][i], pass[d], "upload", last_sync[d])
  BY <1>1 DEF LifeInv
<1>8. theirs = Absent /\ ~Stale(m) => Late(s, i, mine, now)
  BY <1>1, <1>7 DEF OnTime
<1>9. Old(mine, t) /\ theirs = Absent => Stale(m)
  <2>1. ~(now - now > MarkerLifetime)
    BY <1>1, MarkerLifetimeAssumption
  <2> QED BY <1>8, <2>1 DEF Late, MissedAt, Missed
<1>10. m \in MergeRun
  BY <1>1 DEF Merging, MergeRun
<1>11. \A x \in Slot : \A l : Late(s, i, x, l) <=> (Old(x, t) => Missed(Known(s, i), t, theirs, now, l))
  BY DEF Late, MissedAt
<1>12. CASE s \in SettingStores
  <2> HIDE DEF m, mine, theirs, t
  <2>1. r \in {mine, theirs}
    BY <1>3, <1>4, <1>5, <1>10, <1>12, MergedSetting DEF Plausible
  <2>2. r \in Known(s, i) /\ ~r.deleted
    BY <1>4, <1>5, <1>12, <2>1
  <2>3. reached'[s][i] = t /\ t = Never
    BY <1>2, <1>6, <1>12, <2>2 DEF IsMarker
  <2>4. \A x \in Slot : (x # Absent => x.updated_at # Never) => ~Old(x, Never)
    BY DEF Old, Slot, Never
  <2>5. ASSUME NEW x \in Slot
        PROVE  ~Old(x, Never) \/ x.updated_at = Never
    BY DEF Old, Slot, Never
  <2>6. ~Old(r, t)
    BY <1>5, <2>2, <2>3, <2>4 DEF Plausible
  <2>7. ASSUME NEW x \in Slot, NEW l \in Nat \cup {Never}, Late(s, i, x, l), Old(x, reached'[s][i])
        PROVE  Missed(Known(s, i) \cup {r}, reached'[s][i], r, now, l)
    <3>1. Missed(Known(s, i), t, theirs, now, l)
      BY <1>11, <2>3, <2>7
    <3>2. ~Mark(r)
      BY <2>2 DEF Mark
    <3>3. r = Absent => theirs = Absent
      <4>1. theirs.updated_at <= r.updated_at
        BY <1>3, <1>4, <1>5, <1>10, <1>12, MergedSetting DEF Plausible
      <4> QED BY <1>4, <1>5, <4>1 DEF Plausible, Absent, Slot, Never
    <3> QED BY <2>3, <3>1, <3>2, <3>3 DEF Missed
  <2>8. reached'[s][i] <= now
    BY <1>6, <2>3
  <2>9. r = Absent /\ reached'[s][i] # Never => now - reached'[s][i] > MarkerLifetime
    BY <2>3
  <2>10. ~Old(r, reached[s][i]) /\ ~Old(r, reached'[s][i])
    BY <2>3, <2>6 DEF t
  <2>11. \A x \in Known(s, i) \cup {r} :
             Plausible(x, reached'[s][i], now) /\ (s \in SettingStores => ~x.deleted)
    BY <1>5, <2>2, <2>3
  <2>12. \A x \in Slot, l \in Nat \cup {Never} :
             l <= now /\ Late(s, i, x, l) /\ Old(x, reached'[s][i])
                 => Missed(Known(s, i) \cup {r}, reached'[s][i], r, now, l)
    BY <2>7
  <2>13. server'.data[s][i] = r /\ reached'[s][i] = Never
    BY <1>2, <2>3
  <2> QED BY <2>8, <2>9, <2>10, <2>11, <2>12, <2>13 DEF r
<1>13. CASE s \notin SettingStores
  <2> DEFINE u == reached'[s][i]
  <2>1. r = MergeRecord(Merging(now, last_sync[d]), mine, theirs)
    BY <1>3, <1>13
  <2> HIDE DEF mine, theirs, t, u
  <2>0. u = IF IsMarker(r) /\ r.updated_at > t THEN r.updated_at ELSE t
    BY <1>2 DEF u
  <2>2. /\ Plausible(r, u, now) /\ ~Old(r, u) /\ u \in Nat \cup {Never} /\ t <= u /\ u <= now
        /\ r = Absent /\ u # Never => now - u > MarkerLifetime
        /\ \A x \in Known(s, i) : Plausible(x, u, now)
        /\ \A x \in Slot, l \in Nat \cup {Never} :
               l <= now /\ (Old(x, t) => Missed(Known(s, i), t, theirs, now, l)) /\ Old(x, u)
                   => Missed(Known(s, i) \cup {r}, u, r, now, l)
    <3> DEFINE known == Known(s, i)
    <3>1. /\ mine \in known /\ theirs \in known /\ \A x \in known : Plausible(x, t, now)
      BY <1>4, <1>5
    <3>2. Old(mine, t) /\ theirs = Absent => Stale(Merging(now, last_sync[d]))
      BY <1>9
    <3>3. /\ now \in Nat /\ t \in Nat \cup {Never} /\ last_sync[d] \in Nat /\ last_sync[d] <= now /\ t <= now
          /\ ~Old(theirs, t)
      BY <1>1, <1>6
    <3>4. theirs = Absent /\ t # Never => now - t > MarkerLifetime
      BY <1>6
    <3> HIDE DEF known, m
    <3>5. Uploading(now, t, last_sync[d], known, mine, theirs)
      BY <3>1, <3>2, <3>3, <3>4 DEF Uploading
    <3>6. Uploads(now, t, known, theirs, r, u)
      BY <2>0, <2>1, <3>5, UploadedSlot
    <3> QED BY <3>6 DEF known, Uploads
  <2>3. ~Old(r, t)
    BY <1>6, <2>2 DEF Old, Plausible, Slot, Never
  <2>4. \A x \in Slot, l \in Nat \cup {Never} :
            l <= now /\ Late(s, i, x, l) /\ Old(x, u) => Missed(Known(s, i) \cup {r}, u, r, now, l)
    BY <1>11, <2>2
  <2>5. \A x \in Known(s, i) \cup {r} : Plausible(x, u, now)
    BY <2>2
  <2>6. server'.data[s][i] = r
    BY <1>2
  <2> QED BY <1>13, <2>2, <2>3, <2>4, <2>5, <2>6 DEF r, u, t
<1> QED BY <1>12, <1>13 DEF r

\* The server stores what the pass merged; the pass goes on to save it, or is over.
LEMMA StoredStep ==
    ASSUME TypeOK, TypeOK', LifeInv, CopiesInv, NEW d \in Device, Upload(d) \/ UploadUnanswered(d)
    PROVE  LifeInv'
<1>1. /\ Stored(d) /\ pc[d] = "upload" /\ server'.version = server.version + 1
      /\ UNCHANGED <<now, live, last_sync>>
  BY DEF Upload, UploadUnanswered, Stored, diskVars
<1>2. \/ /\ pass' = [pass EXCEPT ![d] = [pass[d] EXCEPT !.copy = server']]
         /\ pc' = [pc EXCEPT ![d] = "save"]
      \/ pass' = [pass EXCEPT ![d] = NoPass] /\ pc' = [pc EXCEPT ![d] = "idle"]
  BY DEF Upload, UploadUnanswered, Ended, GoTo
<1>3. \A e \in Device : e # d => UNCHANGED <<live[e], last_sync[e], pc[e], pass[e]>>
  BY <1>1, <1>2, Fields
<1>4. Ready(pass[d], "upload", last_sync[d]) /\ pass[d].started = now
  BY <1>1, Timed DEF LifeInv
<1>5. \/ /\ pc'[d] = "save" /\ pass'[d].before = pass[d].before /\ pass'[d].merged = pass[d].merged
         /\ pass'[d].next = 1 /\ pass'[d].remote = pass[d].remote /\ pass'[d].started = now
      \/ pc'[d] = "idle" /\ pass'[d].before = Nothing /\ pass'[d].remote = NoCopy
  <2>1. CASE /\ pass' = [pass EXCEPT ![d] = [pass[d] EXCEPT !.copy = server']]
             /\ pc' = [pc EXCEPT ![d] = "save"]
    <3>1. pass'[d] = [pass[d] EXCEPT !.copy = server'] /\ pc'[d] = "save"
      BY <2>1, Fields
    <3>2. pass[d].next = 1
      BY <1>4 DEF Ready
    <3> QED BY <1>4, <3>1, <3>2, Fields DEF Pass
  <2>2. CASE pass' = [pass EXCEPT ![d] = NoPass] /\ pc' = [pc EXCEPT ![d] = "idle"]
    <3>1. pass'[d] = NoPass /\ pc'[d] = "idle"
      BY <2>2, Fields
    <3> QED BY <3>1 DEF NoPass, PassAt
  <2> QED BY <1>2, <2>1, <2>2
<1>6. Ready(pass'[d], pc'[d], last_sync'[d])
  BY <1>1, <1>4, <1>5 DEF Ready
<1>7. ASSUME NEW s \in Store, NEW i \in Id
      PROVE  /\ OnServer(s, i)' /\ \A x \in Known(s, i)' : SlotOK(s, i, x)'
             /\ \A x \in Slot, l \in Nat \cup {Never} : l <= now /\ Late(s, i, x, l) => Late(s, i, x, l)'
             /\ OnTime(s, i, live'[d][s][i], pass'[d], pc'[d], last_sync'[d])
  <2> DEFINE r == Result(d, s, i)
             u == reached'[s][i]
             after == Known(s, i)'
  <2>1. /\ server'.data[s][i] = r /\ ~Old(r, reached[s][i]) /\ ~Old(r, u) /\ u <= now
        /\ r = Absent /\ u # Never => now - u > MarkerLifetime
        /\ s \in SettingStores => u = Never
        /\ \A x \in Known(s, i) \cup {r} : Plausible(x, u, now) /\ (s \in SettingStores => ~x.deleted)
        /\ \A x \in Slot, l \in Nat \cup {Never} :
               l <= now /\ Late(s, i, x, l) /\ Old(x, u) => Missed(Known(s, i) \cup {r}, u, r, now, l)
    BY <1>1, WhatIsStored
  <2> HIDE DEF r, u
  <2>2. Held(live'[d][s][i], pass'[d], pc'[d], s, i) \subseteq Known(s, i) \cup {r, Absent}
    <3>1. /\ live'[d][s][i] \in Known(s, i) /\ pass[d].before[s][i] \in Known(s, i)
          /\ pass[d].remote.data[s][i] \in Known(s, i)
      BY <1>1, KnownIs DEF Held
    <3>2. CASE /\ pc'[d] = "save" /\ pass'[d].before = pass[d].before /\ pass'[d].merged = pass[d].merged
               /\ pass'[d].remote = pass[d].remote
      BY <3>1, <3>2 DEF Held, Result, r
    <3>3. CASE pc'[d] = "idle" /\ pass'[d].before = Nothing /\ pass'[d].remote = NoCopy
      BY <3>1, <3>3 DEF Held, Nothing, NoCopy
    <3> QED BY <1>5, <3>2, <3>3
  <2>3. after \subseteq Known(s, i) \cup {r, Absent}
    <3> SUFFICES ASSUME NEW x \in after PROVE x \in Known(s, i) \cup {r, Absent}
      OBVIOUS
    <3>1. CASE x = server'.data[s][i]
      BY <2>1, <3>1
    <3>2. ASSUME NEW e \in Device, x \in Held(live'[e][s][i], pass'[e], pc'[e], s, i)
          PROVE  x \in Known(s, i) \cup {r, Absent}
      <4>1. CASE e # d
        <5>1. live'[e] = live[e] /\ pass'[e] = pass[e] /\ pc'[e] = pc[e]
          BY <1>3, <4>1
        <5> QED BY <3>2, <5>1, KnownIs
      <4> QED BY <2>2, <3>2, <4>1
    <3> QED BY <3>1, <3>2 DEF Known
  <2>4. Plausible(Absent, u, now) /\ ~Absent.deleted /\ ~Mark(Absent)
    BY SlotsMade, Timed DEF Plausible, Mark, Absent, Never
  <2> HIDE DEF after
  <2>5. \A x \in after : Plausible(x, u, now) /\ (s \in SettingStores => ~x.deleted)
    BY <2>1, <2>3, <2>4
  <2>6. OnServer(s, i)'
    BY <1>1, <2>1 DEF OnServer, u
  <2>7. \A x \in after : SlotOK(s, i, x)'
    BY <1>1, <2>5 DEF SlotOK, u
  <2>8. ASSUME NEW x \in Slot, NEW l \in Nat \cup {Never}, l <= now, Late(s, i, x, l)
        PROVE  Late(s, i, x, l)'
    <3> SUFFICES ASSUME Old(x, u) PROVE Missed(after, u, r, now, l)
      BY <1>1, <2>1 DEF Late, MissedAt, u, after
    <3>1. Missed(Known(s, i) \cup {r}, u, r, now, l)
      BY <2>1, <2>8
    <3> QED BY <2>3, <2>4, <3>1 DEF Missed
  <2>9. OnTime(s, i, live'[d][s][i], pass'[d], pc'[d], last_sync'[d])
    <3>1. OnTime(s, i, live[d][s][i], pass[d], "upload", last_sync[d])
      BY <1>1 DEF LifeInv
    <3>2. Late(s, i, r, now)
      BY <2>1 DEF Late
    <3>3. CASE /\ pc'[d] = "save" /\ pass'[d].before = pass[d].before /\ pass'[d].merged = pass[d].merged
               /\ pass'[d].next = 1 /\ pass'[d].remote = pass[d].remote
      <4>1. ~(s < pass'[d].next)
        BY <3>3 DEF Store
      <4> QED BY <1>1, <3>1, <3>2, <3>3, <4>1 DEF OnTime, Result, r
    <3>4. CASE pc'[d] = "idle" /\ pass'[d].before = Nothing /\ pass'[d].remote = NoCopy
      <4>1. pass'[d].before[s][i] = Absent /\ pass'[d].remote.data[s][i] = Absent
        BY <3>4 DEF Nothing, NoCopy
      <4>2. Late(s, i, live[d][s][i], last_sync[d])
        BY <3>1 DEF OnTime
      <4> QED BY <1>1, <3>4, <4>1, <4>2, AbsentIsSeen DEF OnTime
    <3> QED BY <1>5, <3>3, <3>4
  <2> QED BY <2>6, <2>7, <2>8, <2>9 DEF after
<1>8. server'.version > 0
  BY <1>1, Fields DEF LifeInv, Copy
<1> QED BY <1>1, <1>3, <1>6, <1>7, <1>8, OneDevice

\* A slot the user writes is as new as any deletion, and no device has missed a deletion
\* made at this moment.
LEMMA WrittenSlot ==
    ASSUME TypeOK, LifeInv, NEW s \in Store, NEW i \in Id, NEW x \in Slot,
           x.updated_at = now, x.uploaded_at = Never, s \in SettingStores => ~x.deleted
    PROVE  Seen(s, i, x) /\ \A l \in Nat : l <= now => Late(s, i, x, l)
<1>1. now \in Nat /\ reached[s][i] \in Nat \cup {Never} /\ reached[s][i] <= now
  BY SlotTypes DEF LifeInv, OnServer
<1>2. Seen(s, i, x)
  BY <1>1 DEF Seen, SlotOK, Plausible, Mark, Absent, Never
<1>3. ASSUME NEW l \in Nat, l <= now, Old(x, reached[s][i])
      PROVE  Missed(Known(s, i), reached[s][i], server.data[s][i], now, l)
  <2>1. reached[s][i] = now
    BY <1>1, <1>3 DEF Old, Never
  <2>2. server.data[s][i] # Absent
    <3>1. server.data[s][i] = Absent => now - now > MarkerLifetime
      BY <1>1, <2>1 DEF LifeInv, OnServer, Never
    <3> QED BY <1>1, <3>1, MarkerLifetimeAssumption
  <2>3. \A m \in Known(s, i) : Plausible(m, now, now)
    BY <2>1 DEF LifeInv, SlotOK
  <2>4. ASSUME NEW m \in Known(s, i), Mark(m), m.updated_at = now
        PROVE  l <= m.uploaded_at
    BY <1>1, <1>3, <2>3, <2>4 DEF Plausible, Slot, Never
  <2> QED BY <2>1, <2>2, <2>4 DEF Missed
<1> QED BY <1>2, <1>3 DEF Late, MissedAt

\* The user writes a slot, whatever the sync of the device does.
LEMMA EditStep ==
    ASSUME TypeOK, TypeOK', LifeInv, InStep, NEW d \in Device, UserEdits(d)
    PROVE  LifeInv'
<1>1. PICK k \in Store, j \in Id, slot \in Slot :
          /\ Edit(d, k, j, slot)
          /\ slot.updated_at = now /\ slot.uploaded_at = Never /\ (k \in SettingStores => ~slot.deleted)
  <2>1. Clock(d) = now /\ now \in Nat
    BY DEF Clock, InStep, TypeOK
  <2>2. \A c \in Content : c \in Nat
    BY ConstantsAssumption
  <2>3. /\ \A c \in Nat : PutAt(now, c) \in Slot /\ PutAt(now, c).updated_at = now
                           /\ PutAt(now, c).uploaded_at = Never /\ ~PutAt(now, c).deleted
        /\ MarkerAt(now) \in Slot /\ MarkerAt(now).updated_at = now /\ MarkerAt(now).uploaded_at = Never
    BY <2>1, SlotsMade DEF PutAt, MarkerAt
  <2> QED BY <2>1, <2>2, <2>3 DEF UserEdits, Put, Delete, ChangeSetting
<1>2. /\ live' = [live EXCEPT ![d][k][j] = slot]
      /\ UNCHANGED <<now, server, reached, last_sync, pc, pass>>
  BY <1>1 DEF Edit, serverVars
<1>3. \A e \in Device : e # d => UNCHANGED <<live[e], last_sync[e], pc[e], pass[e]>>
  BY <1>2, Fields
<1>4. ASSUME NEW s \in Store, NEW i \in Id
      PROVE  live'[d][s][i] = IF s = k /\ i = j THEN slot ELSE live[d][s][i]
  BY <1>2, Fields DEF Snapshot
<1>5. Ready(pass'[d], pc'[d], last_sync'[d])
  BY <1>2 DEF LifeInv
<1>6. ASSUME NEW s \in Store, NEW i \in Id
      PROVE  /\ \A x \in Held(live'[d][s][i], pass'[d], pc'[d], s, i) : Seen(s, i, x)
             /\ OnTime(s, i, live'[d][s][i], pass'[d], pc'[d], last_sync'[d])
  <2> DEFINE old == live[d][s][i]
             new == live'[d][s][i]
  <2>1. /\ OnTime(s, i, old, pass[d], pc[d], last_sync[d])
        /\ \A x \in Held(old, pass[d], pc[d], s, i) : Seen(s, i, x)
    BY KnownIs, KnownIsSeen DEF LifeInv
  <2>2. new = old \/ (Seen(s, i, new) /\ \A l \in Nat : l <= now => Late(s, i, new, l))
    BY <1>1, <1>4, WrittenSlot
  <2>3. now \in Nat /\ now <= now /\ last_sync[d] \in Nat /\ last_sync[d] <= now
    BY Timed
  <2> HIDE DEF old, new
  <2>4. \A x \in Held(new, pass[d], pc[d], s, i) : Seen(s, i, x)
    BY <2>1, <2>2 DEF Held
  <2>5. OnTime(s, i, new, pass[d], pc[d], last_sync[d])
    BY <2>1, <2>2, <2>3 DEF OnTime
  <2> QED BY <1>2, <2>4, <2>5 DEF new
<1> QED BY <1>2, <1>3, <1>5, <1>6, LocalStep

\* Time passes between the syncs.
LEMMA TickStep ==
    ASSUME TypeOK, TypeOK', LifeInv, InStep, Tick
    PROVE  LifeInv'
<1>1. /\ now' = now + 1 /\ now \in Nat /\ \A d \in Device : pc[d] = "idle"
      /\ UNCHANGED <<server, reached, live, last_sync, pc, pass>>
  BY DEF Tick, InStep, TypeOK, serverVars, diskVars
<1>2. ASSUME NEW d \in Device
      PROVE  /\ Ready(pass[d], pc[d], last_sync[d])'
             /\ pass[d].before = Nothing /\ pass[d].remote = NoCopy
             /\ last_sync[d] \in Nat /\ last_sync[d] <= now
  BY <1>1 DEF LifeInv, Ready
<1>3. ASSUME NEW s \in Store, NEW i \in Id
      PROVE  /\ Known(s, i)' = Known(s, i)
             /\ OnServer(s, i)' /\ \A x \in Known(s, i) : SlotOK(s, i, x)'
  <2>1. Known(s, i)' = Known(s, i)
    BY <1>1 DEF Known, Held
  <2>2. reached[s][i] \in Nat \cup {Never} /\ reached[s][i] <= now
    BY SlotTypes DEF LifeInv, OnServer
  <2>3. OnServer(s, i)'
    BY <1>1, <2>2, MarkerLifetimeAssumption DEF LifeInv, OnServer, Never
  <2>4. ASSUME NEW x \in Known(s, i)
        PROVE  SlotOK(s, i, x)'
    <3>1. Plausible(x, reached[s][i], now) /\ (s \in SettingStores => ~x.deleted)
      BY DEF LifeInv, SlotOK
    <3>2. Plausible(x, reached[s][i], now + 1)
      BY <1>1, <3>1 DEF Plausible, Slot, Never
    <3> QED BY <1>1, <3>1, <3>2 DEF SlotOK
  <2> QED BY <2>1, <2>3, <2>4
<1>4. ASSUME NEW d \in Device, NEW s \in Store, NEW i \in Id
      PROVE  OnTime(s, i, live[d][s][i], pass[d], pc[d], last_sync[d])'
  <2>1. Late(s, i, live[d][s][i], last_sync[d])
    BY DEF LifeInv, OnTime
  <2>2. last_sync[d] \in Nat
    BY <1>2
  <2>3. (Old(live[d][s][i], reached[s][i])
            => Missed(Known(s, i), reached[s][i], server.data[s][i], now + 1, last_sync[d]))
    BY <1>1, <2>1, <2>2, MarkerLifetimeAssumption DEF Late, MissedAt, Missed
  <2>4. pass[d].before[s][i] = Absent /\ pass[d].remote.data[s][i] = Absent
    BY <1>2 DEF Nothing, NoCopy
  <2>5. ~Old(Absent, reached[s][i])
    BY DEF Old
  <2> QED BY <1>1, <1>3, <2>3, <2>4, <2>5 DEF OnTime, Late, MissedAt
<1>5. server'.version > 0
  BY <1>1 DEF LifeInv
<1> QED BY <1>2, <1>3, <1>4, <1>5 DEF LifeInv

\* Every step keeps the invariant.
LEMMA LifeInductive ==
    TypeOK /\ TypeOK' /\ CopiesInv /\ InStep /\ LifeInv /\ [Next]_vars => LifeInv'
<1> SUFFICES ASSUME TypeOK, TypeOK', CopiesInv, InStep, LifeInv, [Next]_vars PROVE LifeInv'
  OBVIOUS
<1>1. CASE PremiumLapses \/ PremiumRenewed \/ UNCHANGED vars
  <2>1. UNCHANGED <<now, server, reached, live, last_sync, pc, pass>>
    BY <1>1 DEF PremiumLapses, PremiumRenewed, vars, serverVars, diskVars
  <2>2. \A s \in Store, i \in Id : Known(s, i)' = Known(s, i)
    BY <2>1 DEF Known
  <2>3. ASSUME NEW s \in Store, NEW i \in Id
        PROVE  OnServer(s, i)' /\ \A x \in Known(s, i)' : SlotOK(s, i, x)'
    BY <2>1, <2>2 DEF LifeInv, OnServer, SlotOK
  <2>4. ASSUME NEW d \in Device
        PROVE  Ready(pass[d], pc[d], last_sync[d])'
    BY <2>1 DEF LifeInv, Ready
  <2>5. ASSUME NEW d \in Device, NEW s \in Store, NEW i \in Id
        PROVE  OnTime(s, i, live[d][s][i], pass[d], pc[d], last_sync[d])'
    BY <2>1, <2>2 DEF LifeInv, OnTime, Late, MissedAt
  <2>6. server'.version > 0
    BY <2>1 DEF LifeInv
  <2> QED BY <2>3, <2>4, <2>5, <2>6 DEF LifeInv
<1>2. ASSUME NEW d \in Device, SyncStep(d) \/ Fault(d)
      PROVE  LifeInv'
  BY <1>2, RestartSteps, DownloadStep, ReadStoreStep, ReadLastStoreStep, UploadRefusedStep, SaveStoreStep,
     StoredStep DEF SyncStep, Fault
<1> QED BY <1>1, <1>2, EditStep, TickStep DEF Next

\* One synced copy of live records on every device is a good start.
LEMMA LifeInit == InStep /\ Init => LifeInv
<1> SUFFICES ASSUME InStep, Init PROVE LifeInv
  OBVIOUS
<1>1. PICK data \in SyncedStart :
          /\ server = [version |-> 1, data |-> data]
          /\ live = [d \in Device |-> data]
          /\ last_sync = Skew
  BY DEF Init, InStep, AlreadySynced
<1>2. /\ now = 0 /\ reached = [s \in Store |-> [i \in Id |-> Never]]
      /\ \A d \in Device : pc[d] = "idle" /\ pass[d].before = Nothing /\ pass[d].remote = NoCopy
      /\ \A d \in Device : last_sync[d] = 0
  BY <1>1 DEF Init, InStep, NoPass, PassAt
<1>3. ASSUME NEW s \in Store, NEW i \in Id
      PROVE  /\ Known(s, i) \subseteq {data[s][i], Absent}
             /\ \A x \in {data[s][i], Absent} : x \in Slot /\ ~Mark(x) /\ ~x.deleted
                                                /\ x.updated_at <= 0 /\ (x # Absent => x.updated_at # Never)
  <2>1. Known(s, i) \subseteq {data[s][i], Absent}
    BY <1>1, <1>2 DEF Known, Held, Nothing, NoCopy
  <2>2. data[s][i] \in {Absent} \cup {PutAt(0, c) : c \in Nat}
    BY DEF InStep
  <2>3. \A x \in {Absent} \cup {PutAt(0, c) : c \in Nat} :
            x \in Slot /\ ~Mark(x) /\ ~x.deleted /\ x.updated_at <= 0 /\ (x # Absent => x.updated_at # Never)
    <3>1. ASSUME NEW c \in Nat
          PROVE  /\ PutAt(0, c) \in Slot /\ ~Mark(PutAt(0, c)) /\ ~PutAt(0, c).deleted
                 /\ PutAt(0, c).updated_at <= 0 /\ PutAt(0, c).updated_at # Never
      BY SlotsMade DEF Mark, PutAt, Never
    <3>2. Absent \in Slot /\ ~Mark(Absent) /\ ~Absent.deleted /\ Absent.updated_at <= 0
      BY SlotsMade DEF Mark, Absent, Never
    <3> QED BY <3>1, <3>2
  <2>4. Absent \in {Absent} \cup {PutAt(0, c) : c \in Nat}
    OBVIOUS
  <2> QED BY <2>1, <2>2, <2>3, <2>4
<1>4. ASSUME NEW s \in Store, NEW i \in Id, NEW x \in {data[s][i], Absent}
      PROVE  SlotOK(s, i, x) /\ ~Old(x, reached[s][i])
  <2>1. reached[s][i] = Never
    BY <1>2
  <2> QED BY <1>2, <1>3, <2>1 DEF SlotOK, Plausible, Old, Slot, Never
<1>5. ASSUME NEW s \in Store, NEW i \in Id
      PROVE  OnServer(s, i)
  <2>1. server.data[s][i] = data[s][i] /\ reached[s][i] = Never
    BY <1>1, <1>2
  <2> QED BY <1>2, <1>4, <2>1 DEF OnServer, Never
<1>6. ASSUME NEW d \in Device, NEW s \in Store, NEW i \in Id
      PROVE  OnTime(s, i, live[d][s][i], pass[d], pc[d], last_sync[d])
  <2>1. /\ live[d][s][i] = data[s][i] /\ pass[d].before[s][i] = Absent
        /\ pass[d].remote.data[s][i] = Absent /\ pc[d] = "idle"
    BY <1>1, <1>2 DEF Nothing, NoCopy
  <2> QED BY <1>4, <2>1 DEF OnTime, Late
<1>7. \A d \in Device : Ready(pass[d], pc[d], last_sync[d])
  BY <1>2 DEF Ready
<1>8. server.version > 0
  BY <1>1
<1> QED BY <1>3, <1>4, <1>5, <1>6, <1>7, <1>8 DEF LifeInv

\* A record whose deletion reached the server never comes back to it, for any number of
\* devices, records and syncs, edits made while they run, Premium lapses and faults: whoever
\* still holds an older version of it has missed the marker for longer than a marker lives,
\* and gives its records up.  It holds of devices that start from one synced copy, whose
\* clocks agree and whose syncs take no time beside a marker's life; without that it does not.
THEOREM DeletedHolds ==
    ASSUME InStep
    PROVE  Spec => []DeletedStaysDeleted
<1>1. Init => LifeInv
  BY LifeInit
<1>2. Inv /\ Inv' /\ LifeInv /\ [Next]_vars => LifeInv'
  BY LifeInductive DEF Inv
<1>3. LifeInv /\ TypeOK => DeletedStaysDeleted
  <2> SUFFICES ASSUME LifeInv, TypeOK, NEW s \in Store, NEW i \in Id, IsLive(server.data[s][i])
               PROVE  server.data[s][i].updated_at > reached[s][i]
    BY DEF DeletedStaysDeleted
  <2>1. ~Old(server.data[s][i], reached[s][i])
    BY DEF LifeInv, OnServer
  <2> QED BY <2>1, SlotTypes DEF IsLive, Old, Slot, Never
<1> QED
  BY <1>1, <1>2, <1>3, Invariant, PTL DEF Spec, Inv

-----------------------------------------------------------------------------
(* Times. *)

\* The hypothesis of what follows: the devices' clocks agree, and no record they start from
\* is dated ahead.
ClocksAgree ==
    /\ \A d \in Device : Skew[d] = 0
    /\ \A data \in SyncedStart, s \in Store, i \in Id : data[s][i].updated_at <= 0

\* No slot of a snapshot is of a time after t.
AtMost(data, t) == \A s \in Store, i \in Id : data[s][i].updated_at <= t

\* No slot anywhere is dated ahead.
TimesInv ==
    /\ AtMost(server.data, now)
    /\ \A d \in Device : /\ AtMost(live[d], now) /\ AtMost(pass[d].before, now)
                         /\ AtMost(pass[d].remote.data, now) /\ AtMost(pass[d].merged, now)

\* Devices in step have clocks that agree.
LEMMA InStepClocks == InStep => ClocksAgree
<1> SUFFICES ASSUME InStep PROVE ClocksAgree
  OBVIOUS
<1>1. ASSUME NEW data \in SyncedStart, NEW s \in Store, NEW i \in Id
      PROVE  data[s][i].updated_at <= 0
  <2>1. data[s][i] = Absent \/ \E c \in Nat : data[s][i] = PutAt(0, c)
    BY DEF InStep
  <2>2. Absent.updated_at = -1 /\ \A c \in Nat : PutAt(0, c).updated_at = 0
    BY DEF Absent, PutAt, Never
  <2> QED BY <2>1, <2>2
<1> QED BY <1>1 DEF InStep, ClocksAgree

\* An empty snapshot is of no time.
LEMMA NothingAtMost ==
    ASSUME NEW t \in Nat
    PROVE  AtMost(Nothing, t)
BY DEF AtMost, Nothing, Absent, Never

\* A merge makes no slot newer than what it merged.
LEMMA MergedAtMost ==
    ASSUME NEW m \in MergeRun, NEW mine \in Snapshot, NEW theirs \in Snapshot, NEW t \in Nat,
           AtMost(mine, t), AtMost(theirs, t)
    PROVE  AtMost(Merged(m, mine, theirs), t)
<1>1. ASSUME NEW a \in Slot, NEW b \in Slot, a.updated_at <= t, b.updated_at <= t
      PROVE  MergeRecord(m, a, b).updated_at <= t /\ MergeSetting(m, a, b).updated_at <= t
  <2>1. PICK mineNow \in {a, Absent}, w \in Slot :
               LET r == MergeRecord(m, a, b) IN
               /\ w = Winner(mineNow, b)
               /\ ~w.deleted => r = w
               /\ w.deleted /\ r # Absent => r.updated_at = w.updated_at
    BY MergedRecordIs
  <2>0. Absent.updated_at = -1
    BY DEF Absent, Never
  <2>2. mineNow \in Slot /\ mineNow.updated_at <= t
    BY <1>1, <2>0, SlotsMade
  <2>3. w.updated_at = mineNow.updated_at \/ w.updated_at = b.updated_at
    BY <2>1, <2>2, WinnerIs
  <2>4. MergeRecord(m, a, b) = Absent \/ MergeRecord(m, a, b).updated_at = w.updated_at
    BY <2>1
  <2>5. MergeRecord(m, a, b).updated_at <= t
    BY <1>1, <2>0, <2>2, <2>3, <2>4
  <2> QED BY <1>1, <2>5, MergedSetting
<1>2. ASSUME NEW s \in Store, NEW i \in Id
      PROVE  Merged(m, mine, theirs)[s][i].updated_at <= t
  <2>1. /\ mine[s][i] \in Slot /\ theirs[s][i] \in Slot
        /\ mine[s][i].updated_at <= t /\ theirs[s][i].updated_at <= t
    BY DEF Snapshot, AtMost
  <2> QED BY <1>1, <2>1 DEF Merged
<1> QED BY <1>2 DEF AtMost

\* A step of one device at a moment leaves the others in time.
LEMMA TimesOneDevice ==
    ASSUME TimesInv, NEW d \in Device, now' = now, AtMost(server'.data, now),
           \A e \in Device : e # d => UNCHANGED <<live[e], pass[e]>>,
           AtMost(live'[d], now), AtMost(pass'[d].before, now), AtMost(pass'[d].remote.data, now),
           AtMost(pass'[d].merged, now)
    PROVE  TimesInv'
<1>1. ASSUME NEW e \in Device
      PROVE  /\ AtMost(live'[e], now) /\ AtMost(pass'[e].before, now)
             /\ AtMost(pass'[e].remote.data, now) /\ AtMost(pass'[e].merged, now)
  <2>1. CASE e # d
    <3>1. live'[e] = live[e] /\ pass'[e] = pass[e]
      BY <2>1
    <3> QED BY <3>1 DEF TimesInv
  <2> QED BY <2>1
<1> QED BY <1>1 DEF TimesInv, AtMost

\* The user writes a slot of this moment.
LEMMA EditIsNow ==
    ASSUME TypeOK, ClocksAgree, NEW d \in Device, UserEdits(d)
    PROVE  \E s \in Store, i \in Id, slot \in Slot :
             Edit(d, s, i, slot) /\ slot.updated_at = now /\ slot.uploaded_at = Never
<1>1. Clock(d) = now /\ now \in Nat
  BY DEF Clock, ClocksAgree, TypeOK
<1>2. \A c \in Content : c \in Nat
  BY ConstantsAssumption
<1>3. /\ \A c \in Nat : PutAt(now, c) \in Slot /\ PutAt(now, c).updated_at = now
                         /\ PutAt(now, c).uploaded_at = Never
      /\ MarkerAt(now) \in Slot /\ MarkerAt(now).updated_at = now /\ MarkerAt(now).uploaded_at = Never
  BY <1>1, SlotsMade DEF PutAt, MarkerAt
<1> QED BY <1>1, <1>2, <1>3 DEF UserEdits, Put, Delete, ChangeSetting

\* The snapshots a merge gives a device are in time, whatever time the merge takes it to be.
LEMMA MergedInTime ==
    ASSUME TypeOK, TimesInv, NEW d \in Device, NEW last \in Nat \cup {Never}, NEW before \in Snapshot,
           AtMost(before, now)
    PROVE  /\ AtMost(Merged(Merging(pass[d].started, last), before, pass[d].remote.data), now)
           /\ AtMost(Merged(Receiving(pass[d].started, last), before, pass[d].remote.data), now)
<1>1. pass[d].started \in Nat /\ now \in Nat /\ pass[d].remote.data \in Snapshot
  BY Fields DEF Pass, TypeOK
<1>2. Merging(pass[d].started, last) \in MergeRun /\ Receiving(pass[d].started, last) \in MergeRun
  BY <1>1 DEF Merging, Receiving, MergeRun
<1> QED BY <1>1, <1>2, MergedAtMost DEF TimesInv

\* A pass that starts or ends holds nothing.
LEMMA TimesIdle ==
    ASSUME TypeOK, TimesInv, NEW d \in Device, now' = now, UNCHANGED live, AtMost(server'.data, now),
           StartSync(d) \/ UploadUnanswered(d) \/ UploadOvertaken(d) \/ SaveState(d) \/ CutShort(d)
                \/ (UploadRefused(d) /\ Ended(d))
    PROVE  TimesInv'
<1>1. \E t \in Int, n \in Int : pass' = [pass EXCEPT ![d] = PassAt(t, n)]
  <2>1. Clock(d) \in Int /\ pass[d].started \in Int /\ pass[d].number + 1 \in Int
    BY Fields, ClockType DEF Pass
  <2> QED BY <2>1 DEF StartSync, UploadUnanswered, UploadOvertaken, SaveState, CutShort, Again, Ended, GoTo, NoPass
<1>2. /\ pass'[d].before = Nothing /\ pass'[d].remote = NoCopy /\ pass'[d].merged = Nothing
      /\ \A e \in Device : e # d => UNCHANGED <<live[e], pass[e]>>
  BY <1>1, Fields DEF PassAt
<1>3. AtMost(Nothing, now)
  BY NothingAtMost DEF TypeOK
<1> QED BY <1>2, <1>3, TimesOneDevice DEF NoCopy, TimesInv

\* Every step keeps all slots in time.
LEMMA TimesInductive ==
    TypeOK /\ CopiesInv /\ ClocksAgree /\ TimesInv /\ [Next]_vars => TimesInv'
<1> SUFFICES ASSUME TypeOK, CopiesInv, ClocksAgree, TimesInv, [Next]_vars PROVE TimesInv'
  OBVIOUS
<1>0. now \in Nat
  BY DEF TypeOK
<1>1. CASE PremiumLapses \/ PremiumRenewed \/ UNCHANGED vars
  <2>1. UNCHANGED <<now, server, live, pass>>
    BY <1>1 DEF PremiumLapses, PremiumRenewed, vars, diskVars, serverVars
  <2> QED BY <2>1 DEF TimesInv, AtMost
<1>2. CASE Tick
  <2>1. UNCHANGED <<server, live, pass>> /\ now' = now + 1
    BY <1>2 DEF Tick, diskVars, serverVars
  <2>2. ASSUME NEW data \in Snapshot, AtMost(data, now)
        PROVE  AtMost(data, now + 1)
    <3>1. \A s \in Store, i \in Id : data[s][i].updated_at \in Nat \cup {Never}
      BY DEF Snapshot, Slot
    <3> QED BY <1>0, <2>2, <3>1 DEF AtMost, Never
  <2>3. /\ AtMost(server.data, now + 1)
        /\ \A d \in Device : /\ AtMost(live[d], now + 1) /\ AtMost(pass[d].before, now + 1)
                             /\ AtMost(pass[d].remote.data, now + 1) /\ AtMost(pass[d].merged, now + 1)
    <3>1. server.data \in Snapshot
      BY DEF TypeOK, Copy
    <3> QED BY <2>2, <3>1, Fields DEF TimesInv
  <2> QED BY <2>1, <2>3 DEF TimesInv, AtMost
<1>3. ASSUME NEW d \in Device, UserEdits(d)
      PROVE  TimesInv'
  <2>1. PICK k \in Store, j \in Id, slot \in Slot : Edit(d, k, j, slot) /\ slot.updated_at = now
    BY <1>3, EditIsNow
  <2>2. live' = [live EXCEPT ![d][k][j] = slot] /\ UNCHANGED <<now, server, pass>>
    BY <2>1 DEF Edit, serverVars
  <2>3. AtMost(live'[d], now)
    <3>1. ASSUME NEW s \in Store, NEW i \in Id
          PROVE  live'[d][s][i] \in {live[d][s][i], slot}
      BY <2>2, Fields DEF Snapshot
    <3> QED BY <1>0, <2>1, <3>1 DEF TimesInv, AtMost
  <2> QED BY <2>2, <2>3, Fields, TimesOneDevice DEF TimesInv
<1>4. ASSUME NEW d \in Device, Download(d)
      PROVE  TimesInv'
  <2> DEFINE from == IF kept[d] # NoCopy /\ kept[d].version = server.version THEN kept[d] ELSE server
  <2>1. /\ pass' = [pass EXCEPT ![d] = [pass[d] EXCEPT !.remote = from]] /\ UNCHANGED <<now, server, live>>
        /\ from.data = server.data
    BY <1>4 DEF Download, GoTo, diskVars, serverVars, CopiesInv, FromServer
  <2> HIDE DEF from
  <2>2. pass'[d] = [pass[d] EXCEPT !.remote = from] /\ \A e \in Device : e # d => UNCHANGED <<live[e], pass[e]>>
    BY <2>1, Fields
  <2>3. pass'[d].remote = from /\ pass'[d].before = pass[d].before /\ pass'[d].merged = pass[d].merged
    BY <2>2, Fields DEF Pass
  <2> QED BY <2>1, <2>2, <2>3, TimesOneDevice DEF TimesInv
<1>5. ASSUME NEW d \in Device, ReadStore(d) \/ ReadLastStore(d)
      PROVE  TimesInv'
  <2> DEFINE k == pass[d].next
             before == [pass[d].before EXCEPT ![k] = live[d][k]]
  <2>1. before \in Snapshot /\ AtMost(before, now)
    <3>1. before \in Snapshot
      BY Fields DEF Snapshot
    <3>2. \A s \in Store, i \in Id : before[s][i] \in {pass[d].before[s][i], live[d][s][i]}
      BY Fields DEF Snapshot
    <3> QED BY <3>1, <3>2 DEF TimesInv, AtMost
  <2>2. \E merged, rest : /\ AtMost(merged, now) /\ UNCHANGED <<now, server, live>>
                          /\ pass' = [pass EXCEPT ![d] = rest]
                          /\ rest.before = before /\ rest.merged = merged /\ rest.remote = pass[d].remote
    <3>1. CASE ReadStore(d)
      <4>1. pass' = [pass EXCEPT ![d] = [pass[d] EXCEPT !.before[k] = live[d][k], !.next = k + 1]]
            /\ UNCHANGED <<now, server, live>>
        BY <3>1 DEF ReadStore, GoTo, diskVars, serverVars
      <4> DEFINE rest == [pass[d] EXCEPT !.before[k] = live[d][k], !.next = k + 1]
      <4>2. rest.before = before /\ rest.merged = pass[d].merged /\ rest.remote = pass[d].remote
        BY Fields DEF Pass
      <4>3. AtMost(pass[d].merged, now)
        BY DEF TimesInv
      <4> HIDE DEF rest, before
      <4> QED BY <4>1, <4>2, <4>3 DEF rest
    <3>2. CASE ReadLastStore(d)
      <4> DEFINE merged == Merged(MergeFor(d, pass[d].remote), before, pass[d].remote.data)
                 rest == [pass[d] EXCEPT !.before = before, !.merged = merged, !.next = 1,
                                         !.copy = pass[d].remote]
      <4>1. pass' = [pass EXCEPT ![d] = rest] /\ UNCHANGED <<now, server, live>>
        BY <3>2 DEF ReadLastStore, GoTo, diskVars, serverVars
      <4>2. AtMost(merged, now)
        <5>1. (IF pass[d].remote = NoCopy THEN Never ELSE last_sync[d]) \in Nat \cup {Never}
          BY Fields
        <5> HIDE DEF before
        <5> QED BY <2>1, <5>1, MergedInTime DEF MergeFor
      <4> HIDE DEF before, merged
      <4>3. rest.before = before /\ rest.merged = merged /\ rest.remote = pass[d].remote
        BY Fields DEF Pass
      <4> QED BY <4>1, <4>2, <4>3
    <3> QED BY <1>5, <3>1, <3>2
  <2> HIDE DEF before
  <2>3. PICK merged, rest : /\ AtMost(merged, now) /\ UNCHANGED <<now, server, live>>
                            /\ pass' = [pass EXCEPT ![d] = rest]
                            /\ rest.before = before /\ rest.merged = merged /\ rest.remote = pass[d].remote
    BY <2>2
  <2>4. pass'[d] = rest /\ \A e \in Device : e # d => UNCHANGED <<live[e], pass[e]>>
    BY <2>3, Fields
  <2> QED BY <2>1, <2>3, <2>4, TimesOneDevice DEF TimesInv
<1>6. ASSUME NEW d \in Device, Stored(d)
      PROVE  AtMost(server'.data, now)
  BY <1>6 DEF Stored, TimesInv
<1>7. ASSUME NEW d \in Device, Upload(d)
      PROVE  TimesInv'
  <2>1. /\ Stored(d) /\ UNCHANGED <<now, live>>
        /\ pass' = [pass EXCEPT ![d] = [pass[d] EXCEPT !.copy = server']]
    BY <1>7 DEF Upload, Stored, GoTo, diskVars
  <2>2. pass'[d] = [pass[d] EXCEPT !.copy = server'] /\ \A e \in Device : e # d => UNCHANGED <<live[e], pass[e]>>
    BY <2>1, Fields
  <2>3. pass'[d].remote = pass[d].remote /\ pass'[d].before = pass[d].before /\ pass'[d].merged = pass[d].merged
    BY <2>2, Fields DEF Pass
  <2> QED BY <1>6, <2>1, <2>2, <2>3, TimesOneDevice DEF TimesInv
<1>8. ASSUME NEW d \in Device, UploadRefused(d)
      PROVE  TimesInv'
  <2> DEFINE merged == Merged(Receiving(pass[d].started, last_sync[d]), pass[d].before, pass[d].remote.data)
  <2>1. UNCHANGED <<now, server, live>>
    BY <1>8 DEF UploadRefused, serverVars, diskVars
  <2>2. CASE Ended(d)
    BY <1>8, <2>1, <2>2, TimesIdle DEF TimesInv
  <2>3. CASE pass' = [pass EXCEPT ![d] = [pass[d] EXCEPT !.merged = merged]]
    <3>1. AtMost(merged, now)
      BY Fields, MergedInTime DEF TimesInv
    <3> HIDE DEF merged
    <3>2. pass'[d] = [pass[d] EXCEPT !.merged = merged] /\ \A e \in Device : e # d => UNCHANGED <<live[e], pass[e]>>
      BY <2>1, <2>3, Fields
    <3>3. pass'[d].remote = pass[d].remote /\ pass'[d].before = pass[d].before /\ pass'[d].merged = merged
      BY <3>2, Fields DEF Pass
    <3> QED BY <2>1, <3>1, <3>2, <3>3, TimesOneDevice DEF TimesInv
  <2> QED BY <1>8, <2>2, <2>3 DEF UploadRefused, GoTo
<1>9. ASSUME NEW d \in Device, SaveStore(d)
      PROVE  TimesInv'
  <2> DEFINE k == pass[d].next
             rest == [pass[d] EXCEPT !.next = IF k = Stores THEN k ELSE k + 1,
                                     !.complete = pass[d].complete /\ live[d][k] = pass[d].before[k]]
  <2>1. /\ live' \in {live, [live EXCEPT ![d][k] = pass[d].merged[k]]} /\ UNCHANGED <<now, server>>
        /\ pass' = [pass EXCEPT ![d] = rest]
    BY <1>9 DEF SaveStore, GoTo, serverVars
  <2>2. rest.remote = pass[d].remote /\ rest.before = pass[d].before /\ rest.merged = pass[d].merged
    BY Fields DEF Pass
  <2> HIDE DEF rest
  <2>3. pass'[d] = rest /\ \A e \in Device : e # d => UNCHANGED <<live[e], pass[e]>>
    BY <2>1, Fields
  <2>4. AtMost(live'[d], now)
    <3>1. ASSUME NEW s \in Store, NEW i \in Id
          PROVE  live'[d][s][i] \in {live[d][s][i], pass[d].merged[s][i]}
      <4>1. CASE live' = live
        BY <4>1
      <4>2. CASE live' = [live EXCEPT ![d][k] = pass[d].merged[k]]
        <5>1. live'[d] = [live[d] EXCEPT ![k] = pass[d].merged[k]]
          BY <4>2, Fields
        <5>2. live'[d][s] = IF s = k THEN pass[d].merged[k] ELSE live[d][s]
          BY <5>1, Fields DEF Snapshot
        <5> QED BY <5>2
      <4> QED BY <2>1, <4>1, <4>2
    <3> QED BY <3>1 DEF TimesInv, AtMost
  <2> QED BY <2>1, <2>2, <2>3, <2>4, TimesOneDevice DEF TimesInv
<1>10. ASSUME NEW d \in Device,
              StartSync(d) \/ UploadUnanswered(d) \/ UploadOvertaken(d) \/ SaveState(d) \/ CutShort(d)
       PROVE  TimesInv'
  <2>1. UNCHANGED <<now, live>> /\ (UNCHANGED server \/ Stored(d))
    BY <1>10 DEF StartSync, UploadUnanswered, Stored, UploadOvertaken, SaveState, CutShort, diskVars, serverVars
  <2>2. AtMost(server'.data, now)
    BY <1>6, <2>1 DEF TimesInv
  <2> QED BY <1>10, <2>1, <2>2, TimesIdle
<1> QED
  BY <1>1, <1>2, <1>3, <1>4, <1>5, <1>7, <1>8, <1>9, <1>10 DEF Next, SyncStep, Fault

\* At the start no slot is of a time after 0.
LEMMA TimesInit == ClocksAgree /\ Init => TimesInv
<1> SUFFICES ASSUME ClocksAgree, Init PROVE TimesInv
  OBVIOUS
<1>1. now = 0 /\ \A d \in Device : pass[d].before = Nothing /\ pass[d].remote = NoCopy /\ pass[d].merged = Nothing
  BY DEF Init, NoPass, PassAt
<1>2. AtMost(Nothing, 0)
  BY NothingAtMost
<1>3. CASE FreshStart
  <2>1. PICK mine : live = [d \in Device |-> [s \in Store |-> [i \in Id |->
                      IF s \in SettingStores THEN PutAt(0, mine[d][s][i]) ELSE Absent]]]
    BY <1>3 DEF FreshStart
  <2>2. \A d \in Device, s \in Store, i \in Id : live[d][s][i].updated_at <= 0
    BY <2>1 DEF PutAt, Absent, Never
  <2>3. server.data = Nothing
    BY <1>3 DEF FreshStart, NoCopy
  <2> QED BY <1>1, <1>2, <2>2, <2>3 DEF TimesInv, AtMost, NoCopy
<1>4. CASE AlreadySynced
  <2>1. PICK data \in SyncedStart : server.data = data /\ live = [d \in Device |-> data]
    BY <1>4 DEF AlreadySynced
  <2>2. AtMost(data, 0) /\ \A d \in Device : live[d] = data
    BY <2>1 DEF ClocksAgree, AtMost
  <2> QED BY <1>1, <1>2, <2>1, <2>2 DEF TimesInv, NoCopy
<1> QED BY <1>3, <1>4 DEF Init

-----------------------------------------------------------------------------
(* What a complete sync has saved. *)

\* Slot x is no older than slot c, or c is a marker that erased it.
AtLeast(x, c) == c.updated_at <= x.updated_at \/ (c.deleted /\ x = Absent)

\* What a pass has saved of a slot, and will have saved once it saves the rest.
Saving(s, i, slot, p, where) ==
    /\ where = "upload" => p.copy = p.remote /\ p.next = 1
    /\ where \in {"save", "finish"} =>
           p.copy.data[s][i].updated_at <= now /\ AtLeast(p.merged[s][i], p.copy.data[s][i])
    /\ where \in {"save", "finish"} /\ p.complete /\ (s < p.next \/ where = "finish") =>
           AtLeast(slot, p.copy.data[s][i])

\* The invariant that a complete sync rests on.
SavedInv == \A d \in Device, s \in Store, i \in Id : Saving(s, i, live[d][s][i], pass[d], pc[d])

\* What a device merges, when its upload is refused, is no older than what it downloaded.
TakesIn(d) ==
    pc[d] = "upload" /\ pass[d].remote # NoCopy => \A s \in Store, i \in Id :
        AtLeast(Merged(Receiving(pass[d].started, last_sync[d]), pass[d].before, pass[d].remote.data)[s][i],
                pass[d].remote.data[s][i])

\* A step of one device leaves the others' passes alone.
LEMMA SavedOneDevice ==
    ASSUME SavedInv, NEW d \in Device, now' = now,
           \A e \in Device : e # d => UNCHANGED <<live[e], pc[e], pass[e]>>,
           \A s \in Store, i \in Id : Saving(s, i, live'[d][s][i], pass'[d], pc'[d])
    PROVE  SavedInv'
<1>1. ASSUME NEW e \in Device, NEW s \in Store, NEW i \in Id
      PROVE  Saving(s, i, live'[e][s][i], pass'[e], pc'[e])
  <2>1. CASE e # d
    <3>1. live'[e] = live[e] /\ pass'[e] = pass[e] /\ pc'[e] = pc[e]
      BY <2>1
    <3> QED BY <3>1 DEF SavedInv
  <2> QED BY <2>1
<1>2. ASSUME NEW e \in Device, NEW s \in Store, NEW i \in Id
      PROVE  Saving(s, i, live[e][s][i], pass[e], pc[e])'
  BY <1>1 DEF Saving
<1> QED BY <1>2 DEF SavedInv

\* A pass that has nothing merged yet and saves nothing.
LEMMA SavedIdle ==
    ASSUME TypeOK, SavedInv, NEW d \in Device, pc'[d] \in {"idle", "download", "read"}, UNCHANGED <<now, live>>,
           \A e \in Device : e # d => UNCHANGED <<pc[e], pass[e]>>
    PROVE  SavedInv'
<1>1. ASSUME NEW s \in Store, NEW i \in Id
      PROVE  Saving(s, i, live'[d][s][i], pass'[d], pc'[d])
  BY DEF Saving
<1> QED BY <1>1, SavedOneDevice

\* With nothing to upload, the merged stores are the copy to keep.
LEMMA SavedReadLast ==
    ASSUME TypeOK, TimesInv, SavedInv, NEW d \in Device, ReadLastStore(d)
    PROVE  SavedInv'
<1> DEFINE remote == pass[d].remote
           before == [pass[d].before EXCEPT ![Stores] = live[d][Stores]]
           merged == Merged(MergeFor(d, remote), before, remote.data)
           upload == remote = NoCopy \/ merged # remote.data
<1>1. /\ pass' = [pass EXCEPT ![d] = [pass[d] EXCEPT !.before = before, !.merged = merged, !.next = 1,
                                                     !.copy = remote]]
      /\ pc' = [pc EXCEPT ![d] = IF upload THEN "upload" ELSE "save"]
      /\ UNCHANGED <<now, live>>
  BY DEF ReadLastStore, GoTo, diskVars
<1> HIDE DEF before, merged
<1>2. /\ pass'[d] = [pass[d] EXCEPT !.before = before, !.merged = merged, !.next = 1, !.copy = remote]
      /\ pc'[d] \in {"upload", "save"} /\ (pc'[d] = "save" => merged = remote.data)
      /\ \A e \in Device : e # d => UNCHANGED <<live[e], pc[e], pass[e]>>
  BY <1>1, Fields
<1>3. /\ pass'[d].merged = merged /\ pass'[d].next = 1
      /\ pass'[d].remote = remote /\ pass'[d].copy = remote
  BY <1>2, Fields DEF Pass
<1>4. ASSUME NEW s \in Store, NEW i \in Id
      PROVE  Saving(s, i, live'[d][s][i], pass'[d], pc'[d])
  <2>1. remote.data[s][i].updated_at <= now /\ AtLeast(remote.data[s][i], remote.data[s][i])
    BY SlotTypes DEF TimesInv, AtMost, AtLeast, Slot, Never
  <2>2. ~(s < pass'[d].next) /\ pc'[d] # "finish"
    BY <1>2, <1>3 DEF Store
  <2> HIDE DEF remote
  <2> QED BY <1>2, <1>3, <2>1, <2>2 DEF Saving
<1> QED BY <1>1, <1>2, <1>4, SavedOneDevice

\* The copy uploaded is the copy to keep, and the one merged.
LEMMA SavedUpload ==
    ASSUME TypeOK, TimesInv, SavedInv, NEW d \in Device, Upload(d)
    PROVE  SavedInv'
<1>1. /\ Stored(d) /\ pc[d] = "upload" /\ UNCHANGED <<now, live>>
      /\ pass' = [pass EXCEPT ![d] = [pass[d] EXCEPT !.copy = server']]
      /\ pc' = [pc EXCEPT ![d] = "save"] /\ server'.data = pass[d].merged
  BY DEF Upload, Stored, diskVars, GoTo
<1>2. /\ pass'[d] = [pass[d] EXCEPT !.copy = server'] /\ pc'[d] = "save"
      /\ \A e \in Device : e # d => UNCHANGED <<live[e], pc[e], pass[e]>>
  BY <1>1, Fields
<1>3. pass'[d].merged = pass[d].merged /\ pass'[d].copy = server' /\ pass'[d].next = pass[d].next
  BY <1>1, <1>2, Fields DEF Pass
<1>4. ASSUME NEW s \in Store, NEW i \in Id
      PROVE  Saving(s, i, live'[d][s][i], pass'[d], pc'[d])
  <2>1. pass'[d].merged[s][i] = pass[d].merged[s][i] /\ pass'[d].copy.data[s][i] = pass[d].merged[s][i]
    BY <1>1, <1>3
  <2>2. pass[d].merged[s][i].updated_at <= now /\ AtLeast(pass[d].merged[s][i], pass[d].merged[s][i])
    BY SlotTypes DEF TimesInv, AtMost, AtLeast, Slot, Never
  <2>3. pass[d].next = 1
    BY <1>1 DEF SavedInv, Saving
  <2>4. ~(s < pass'[d].next)
    BY <1>3, <2>3 DEF Store
  <2> QED BY <1>2, <2>1, <2>2, <2>4 DEF Saving
<1> QED BY <1>1, <1>2, <1>4, SavedOneDevice

\* With the upload refused, what is merged is saved beside the copy downloaded.
LEMMA SavedRefused ==
    ASSUME TypeOK, TimesInv, SavedInv, NEW d \in Device, UploadRefused(d), TakesIn(d)
    PROVE  SavedInv'
<1> DEFINE merged == Merged(Receiving(pass[d].started, last_sync[d]), pass[d].before, pass[d].remote.data)
<1>0. pc[d] = "upload" /\ UNCHANGED <<now, live>>
  BY DEF UploadRefused, diskVars
<1>1. CASE pass[d].remote = NoCopy
  <2>1. pc' = [pc EXCEPT ![d] = "idle"] /\ pass' = [pass EXCEPT ![d] = NoPass]
    BY <1>1 DEF UploadRefused, Ended, GoTo
  <2>2. pc'[d] = "idle" /\ \A e \in Device : e # d => UNCHANGED <<pc[e], pass[e]>>
    BY <2>1, Fields
  <2> QED BY <1>0, <2>2, SavedIdle
<1>2. CASE pass[d].remote # NoCopy
  <2>1. /\ pass' = [pass EXCEPT ![d] = [pass[d] EXCEPT !.merged = merged]]
        /\ pc' = [pc EXCEPT ![d] = "save"]
    BY <1>2 DEF UploadRefused, GoTo
  <2>2. \A s \in Store, i \in Id : AtLeast(merged[s][i], pass[d].remote.data[s][i])
    BY <1>0, <1>2 DEF TakesIn
  <2> HIDE DEF merged
  <2>3. /\ pass'[d] = [pass[d] EXCEPT !.merged = merged] /\ pc'[d] = "save"
        /\ \A e \in Device : e # d => UNCHANGED <<live[e], pc[e], pass[e]>>
    BY <1>0, <2>1, Fields
  <2>4. pass'[d].merged = merged /\ pass'[d].next = pass[d].next /\ pass'[d].copy = pass[d].copy
    BY <2>3, Fields DEF Pass
  <2>5. ASSUME NEW s \in Store, NEW i \in Id
        PROVE  Saving(s, i, live'[d][s][i], pass'[d], pc'[d])
    <3>1. pass[d].copy = pass[d].remote /\ pass[d].next = 1
      BY <1>0 DEF SavedInv, Saving
    <3>2. pass[d].remote.data[s][i].updated_at <= now
      BY DEF TimesInv, AtMost
    <3>3. ~(s < pass'[d].next)
      BY <2>4, <3>1 DEF Store
    <3> QED BY <2>2, <2>3, <2>4, <3>1, <3>2, <3>3 DEF Saving
  <2> QED BY <1>0, <2>3, <2>5, SavedOneDevice
<1> QED BY <1>1, <1>2

\* A store replaced holds what was merged; one left alone ends completeness.
LEMMA SavedStore ==
    ASSUME TypeOK, SavedInv, NEW d \in Device, SaveStore(d)
    PROVE  SavedInv'
<1> DEFINE k == pass[d].next
           unchanged == live[d][k] = pass[d].before[k]
           next == IF k = Stores THEN k ELSE k + 1
           complete == pass[d].complete /\ unchanged
           where == IF k = Stores THEN "finish" ELSE "save"
<1>1. /\ pc[d] = "save" /\ k \in Store
      /\ live' = IF unchanged THEN [live EXCEPT ![d][k] = pass[d].merged[k]] ELSE live
      /\ pass' = [pass EXCEPT ![d] = [pass[d] EXCEPT !.next = next, !.complete = complete]]
      /\ pc' = [pc EXCEPT ![d] = where] /\ UNCHANGED now
  BY Fields DEF SaveStore, GoTo, Store
<1> HIDE DEF next, complete, where
<1>2. /\ pass'[d] = [pass[d] EXCEPT !.next = next, !.complete = complete] /\ pc'[d] = where
      /\ \A e \in Device : e # d => UNCHANGED <<live[e], pc[e], pass[e]>>
  BY <1>1, Fields
<1>3. /\ pass'[d].merged = pass[d].merged /\ pass'[d].next = next /\ pass'[d].copy = pass[d].copy
      /\ pass'[d].complete = complete
  BY <1>2, Fields DEF Pass
<1>4. where \in {"save", "finish"}
  BY DEF where
<1>5. ASSUME NEW s \in Store, NEW i \in Id
      PROVE  Saving(s, i, live'[d][s][i], pass'[d], pc'[d])
  <2> DEFINE r == pass[d].merged[s][i]
             c == pass[d].copy.data[s][i]
             slot == live[d][s][i]
             slot2 == live'[d][s][i]
  <2>1. slot2 = IF s = k /\ unchanged THEN r ELSE slot
    BY <1>1, Fields DEF Snapshot
  <2>2. Saving(s, i, slot, pass[d], "save")
    BY <1>1 DEF SavedInv
  <2>3. c.updated_at <= now /\ AtLeast(r, c) /\ (pass[d].complete /\ s < k => AtLeast(slot, c))
    BY <2>2 DEF Saving
  <2>4. pass'[d].merged[s][i] = r /\ pass'[d].copy.data[s][i] = c
    BY <1>3
  <2>5. complete /\ (s < next \/ where = "finish") => unchanged /\ pass[d].complete /\ (s = k \/ s < k)
    <3>1. complete => unchanged /\ pass[d].complete
      BY Zenon DEF complete
    <3>2. s \in Nat /\ k \in Nat /\ s <= Stores /\ Stores \in Nat
      BY <1>1, Fields DEF Store
    <3>3. s < next \/ where = "finish" => s = k \/ s < k
      BY <3>2 DEF next, where
    <3> QED BY <3>1, <3>3
  <2> HIDE DEF r, c, slot, slot2, k, unchanged
  <2>6. complete /\ (s < next \/ where = "finish") => AtLeast(slot2, c)
    BY <2>1, <2>3, <2>5
  <2>7. Saving(s, i, slot2, pass'[d], where)
    BY <1>3, <1>4, <2>3, <2>4, <2>6 DEF Saving
  <2> QED BY <1>2, <2>7 DEF slot2
<1> QED BY <1>1, <1>2, <1>5, SavedOneDevice

\* What the user writes is newer than anything the pass has saved.
LEMMA SavedEdit ==
    ASSUME TypeOK, SavedInv, ClocksAgree, NEW d \in Device, UserEdits(d)
    PROVE  SavedInv'
<1>1. PICK k \in Store, j \in Id, slot \in Slot :
          Edit(d, k, j, slot) /\ slot.updated_at = now /\ slot.uploaded_at = Never
  BY EditIsNow
<1>2. live' = [live EXCEPT ![d][k][j] = slot] /\ UNCHANGED <<now, pc, pass>>
  BY <1>1 DEF Edit
<1>3. \A e \in Device : e # d => UNCHANGED <<live[e], pc[e], pass[e]>>
  BY <1>2, Fields
<1>4. ASSUME NEW s \in Store, NEW i \in Id
      PROVE  Saving(s, i, live'[d][s][i], pass'[d], pc'[d])
  <2> DEFINE old == live[d][s][i]
             new == live'[d][s][i]
  <2>1. new = old \/ new.updated_at = now
    BY <1>1, <1>2, Fields DEF Snapshot
  <2>2. Saving(s, i, old, pass[d], pc[d])
    BY DEF SavedInv
  <2> HIDE DEF old, new
  <2>3. Saving(s, i, new, pass[d], pc[d])
    BY <2>1, <2>2 DEF Saving, AtLeast
  <2> QED BY <1>2, <2>3 DEF new
<1> QED BY <1>2, <1>3, <1>4, SavedOneDevice

\* Every step keeps it, a refused upload when what it merges takes in the copy downloaded.
LEMMA SavedInductive ==
    ASSUME TypeOK, ClocksAgree, TimesInv, SavedInv, [Next]_vars,
           \A d \in Device : UploadRefused(d) => TakesIn(d)
    PROVE  SavedInv'
<1>1. CASE PremiumLapses \/ PremiumRenewed \/ UNCHANGED vars
  <2>1. UNCHANGED <<now, live, pc, pass>>
    BY <1>1 DEF PremiumLapses, PremiumRenewed, vars, diskVars
  <2> QED BY <2>1 DEF SavedInv, Saving
<1>2. CASE Tick
  <2>1. UNCHANGED <<live, pc, pass>> /\ now' = now + 1 /\ now \in Nat
    BY <1>2 DEF Tick, diskVars, TypeOK
  <2>2. ASSUME NEW d \in Device, NEW s \in Store, NEW i \in Id
        PROVE  Saving(s, i, live[d][s][i], pass[d], pc[d])'
    <3>1. pass[d].copy.data[s][i].updated_at \in Int
      <4>1. pass[d].copy.data \in Snapshot
        BY Fields DEF Pass, Copy
      <4> QED BY <4>1 DEF Snapshot, Slot, Never
    <3>2. Saving(s, i, live[d][s][i], pass[d], pc[d])
      BY DEF SavedInv
    <3> QED BY <2>1, <3>1, <3>2 DEF Saving
  <2> QED BY <2>2 DEF SavedInv
<1>3. ASSUME NEW d \in Device, \/ StartSync(d) \/ UploadUnanswered(d) \/ UploadOvertaken(d) \/ SaveState(d)
                               \/ CutShort(d) \/ Download(d) \/ ReadStore(d)
      PROVE  SavedInv'
  <2>1. UNCHANGED <<now, live>>
    BY <1>3 DEF StartSync, UploadUnanswered, Stored, UploadOvertaken, SaveState, CutShort, Download, ReadStore,
                diskVars
  <2>2. \E where \in {"idle", "download", "read"} :
            pc' = [pc EXCEPT ![d] = where] /\ pass' = [pass EXCEPT ![d] = pass'[d]]
    BY <1>3, Fields DEF StartSync, UploadUnanswered, UploadOvertaken, SaveState, CutShort, Download, ReadStore,
                        Again, Ended, GoTo
  <2>3. pc'[d] \in {"idle", "download", "read"} /\ \A e \in Device : e # d => UNCHANGED <<pc[e], pass[e]>>
    BY <2>2, Fields
  <2> QED BY <2>1, <2>3, SavedIdle
<1>4. ASSUME NEW d \in Device, SyncStep(d) \/ Fault(d)
      PROVE  SavedInv'
  BY <1>3, <1>4, SavedReadLast, SavedUpload, SavedRefused, SavedStore DEF SyncStep, Fault
<1> QED BY <1>1, <1>2, <1>4, SavedEdit DEF Next

\* When last_sync moves on, the pass was complete, and had saved what it keeps.
LEMMA SavedMeans ==
    ASSUME Inv, SavedInv, [Next]_vars, NEW d \in Device, last_sync'[d] # last_sync[d],
           NEW s \in Store, NEW i \in Id
    PROVE  \/ live'[d][s][i].updated_at >= kept'[d].data[s][i].updated_at
           \/ IsMarker(kept'[d].data[s][i]) /\ live'[d][s][i] = Absent
<1>0. TypeOK
  BY DEF Inv
<1>1. SaveState(d)
  <2>1. ASSUME NEW e \in Device, UserEdits(e)
        PROVE  FALSE
    BY <2>1 DEF UserEdits, Put, Delete, ChangeSetting, Edit
  <2>2. ASSUME NEW e \in Device, SyncStep(e) \/ Fault(e)
        PROVE  SaveState(e)
    BY <2>2 DEF SyncStep, Fault, StartSync, Download, ReadStore, ReadLastStore, Upload, UploadUnanswered,
                Stored, UploadOvertaken, UploadRefused, SaveStore, CutShort, diskVars
  <2>3. ASSUME NEW e \in Device, SaveState(e)
        PROVE  e = d
    BY <1>0, <2>3, Fields DEF SaveState
  <2> QED BY <2>1, <2>2, <2>3 DEF Next, Tick, PremiumLapses, PremiumRenewed, vars, diskVars
<1>2. pc[d] = "finish" /\ pass[d].complete /\ live' = live /\ kept'[d] = pass[d].copy
  BY <1>0, <1>1 DEF SaveState, TypeOK
<1>3. AtLeast(live[d][s][i], pass[d].copy.data[s][i])
  BY <1>2 DEF SavedInv, Saving
<1>4. pass[d].copy.data[s][i] \in Slot /\ live[d][s][i] \in Slot
  <2>1. pass[d] \in Pass
    BY <1>0 DEF TypeOK
  <2>2. pass[d].copy.data \in Snapshot
    BY <2>1 DEF Pass, Copy
  <2> QED BY <1>0, <2>2, SlotTypes DEF Snapshot
<1> QED BY <1>2, <1>3, <1>4 DEF AtLeast, IsMarker, Slot, Never

\* A device's last_sync moves on only when all its stores have taken in the copy it keeps,
\* for any number of devices, stores and records: first syncs, syncs that take long, faults
\* and edits made while the stores are saved included, as long as the devices' clocks agree
\* and the server takes uploads.
THEOREM SavedHolds ==
    ASSUME ClocksAgree, MaxLapses = 0
    PROVE  Spec => LastSyncMeansSaved
<1> DEFINE Keeps == \A d \in Device : last_sync'[d] # last_sync[d] =>
        \A s \in Store, i \in Id :
            \/ live'[d][s][i].updated_at >= kept'[d].data[s][i].updated_at
            \/ IsMarker(kept'[d].data[s][i]) /\ live'[d][s][i] = Absent
<1>1. Init => premium /\ TimesInv /\ SavedInv
  BY TimesInit DEF Init, SavedInv, Saving
<1>2. Inv /\ premium /\ [Next]_vars => premium'
  <2> SUFFICES ASSUME TypeOK, premium, [Next]_vars PROVE premium'
    BY DEF Inv
  <2>1. ~PremiumLapses
    BY DEF PremiumLapses, TypeOK
  <2>2. ASSUME NEW d \in Device, UserEdits(d) \/ SyncStep(d) \/ Fault(d)
        PROVE  UNCHANGED premium
    BY <2>2 DEF UserEdits, Put, Delete, ChangeSetting, Edit, SyncStep, Fault, StartSync, Download, ReadStore,
                ReadLastStore, Upload, UploadUnanswered, Stored, UploadOvertaken, UploadRefused, SaveStore,
                SaveState, CutShort, serverVars
  <2> QED BY <2>1, <2>2 DEF Next, Tick, PremiumRenewed, vars, serverVars
<1>3. Inv /\ premium /\ TimesInv /\ SavedInv /\ [Next]_vars => TimesInv' /\ SavedInv'
  <2> SUFFICES ASSUME Inv, premium, TimesInv, SavedInv, [Next]_vars PROVE TimesInv' /\ SavedInv'
    OBVIOUS
  <2>1. \A d \in Device : ~UploadRefused(d)
    BY DEF UploadRefused
  <2> QED BY <2>1, TimesInductive, SavedInductive DEF Inv
<1>4. Inv /\ SavedInv /\ [Next]_vars => Keeps
  BY SavedMeans
<1> QED
  BY <1>1, <1>2, <1>3, <1>4, Invariant, PTL DEF Spec, LastSyncMeansSaved

-----------------------------------------------------------------------------
(* Refused uploads. *)

\* A record c is newer than x, when x is an uploaded marker.
Outlives(c, x) == Mark(x) /\ c # Absent /\ ~c.deleted => x.updated_at < c.updated_at

\* A live record that was downloaded is newer than any marker uploaded that is held here.
OutlivesInv ==
    \A d \in Device, s \in Store, i \in Id : pc[d] \in {"read", "upload"} =>
        /\ Outlives(pass[d].remote.data[s][i], live[d][s][i])
        /\ Outlives(pass[d].remote.data[s][i], pass[d].before[s][i])

\* A step of one device leaves what the others hold alone.
LEMMA OutlivesOneDevice ==
    ASSUME OutlivesInv, NEW d \in Device,
           \A e \in Device : e # d => UNCHANGED <<live[e], pc[e], pass[e]>>,
           pc'[d] \in {"read", "upload"} => \A s \in Store, i \in Id :
               /\ Outlives(pass'[d].remote.data[s][i], live'[d][s][i])
               /\ Outlives(pass'[d].remote.data[s][i], pass'[d].before[s][i])
    PROVE  OutlivesInv'
<1>1. ASSUME NEW e \in Device, NEW s \in Store, NEW i \in Id, pc'[e] \in {"read", "upload"}
      PROVE  /\ Outlives(pass'[e].remote.data[s][i], live'[e][s][i])
             /\ Outlives(pass'[e].remote.data[s][i], pass'[e].before[s][i])
  <2>1. CASE e # d
    <3>1. live'[e] = live[e] /\ pass'[e] = pass[e] /\ pc'[e] = pc[e]
      BY <2>1
    <3> QED BY <1>1, <3>1 DEF OutlivesInv
  <2> QED BY <1>1, <2>1
<1> QED BY <1>1 DEF OutlivesInv, Outlives, Mark

\* What the server holds outlives the markers it has had.
LEMMA OutlivesDownload ==
    ASSUME TypeOK, LifeInv, CopiesInv, OutlivesInv, NEW d \in Device, Download(d)
    PROVE  OutlivesInv'
<1> DEFINE from == IF kept[d] # NoCopy /\ kept[d].version = server.version THEN kept[d] ELSE server
<1>1. /\ pc[d] = "download" /\ pass' = [pass EXCEPT ![d] = [pass[d] EXCEPT !.remote = from]]
      /\ pc' = [pc EXCEPT ![d] = "read"] /\ UNCHANGED <<now, live>>
  BY DEF Download, GoTo, diskVars
<1>2. from.data = server.data
  BY DEF CopiesInv, FromServer
<1> HIDE DEF from
<1>3. /\ pass'[d] = [pass[d] EXCEPT !.remote = from]
      /\ \A e \in Device : e # d => UNCHANGED <<live[e], pc[e], pass[e]>>
  BY <1>1, Fields
<1>4. pass'[d].remote = from /\ pass'[d].before = Nothing
  BY <1>1, <1>3, Fields DEF Pass, LifeInv, Ready
<1>5. ASSUME NEW s \in Store, NEW i \in Id
      PROVE  /\ Outlives(pass'[d].remote.data[s][i], live'[d][s][i])
             /\ Outlives(pass'[d].remote.data[s][i], pass'[d].before[s][i])
  <2> DEFINE c == server.data[s][i]
             x == live[d][s][i]
             t == reached[s][i]
  <2>1. x \in Known(s, i) /\ pass'[d].before[s][i] = Absent /\ pass'[d].remote.data[s][i] = c
    BY <1>2, <1>4, KnownIs DEF Held, Nothing
  <2>2. Plausible(x, t, now) /\ ~Old(c, t)
    BY <2>1 DEF LifeInv, SlotOK, OnServer
  <2>3. c \in Slot /\ t \in Nat \cup {Never} /\ x \in Slot /\ live'[d][s][i] = x
    BY <1>1, SlotTypes
  <2> HIDE DEF c, x, t
  <2>4. c # Absent /\ ~c.deleted => t < c.updated_at
    BY <2>2, <2>3 DEF Old, Slot, Never
  <2>5. Outlives(c, x)
    BY <2>2, <2>3, <2>4 DEF Outlives, Plausible, Slot, Never
  <2>6. Outlives(c, Absent)
    BY DEF Outlives, Mark, Absent
  <2> QED BY <2>1, <2>3, <2>5, <2>6
<1> QED BY <1>3, <1>5, OutlivesOneDevice

\* Reading a store brings in no marker that live does not hold.
LEMMA OutlivesRead ==
    ASSUME TypeOK, OutlivesInv, NEW d \in Device, ReadStore(d) \/ ReadLastStore(d)
    PROVE  OutlivesInv'
<1> DEFINE k == pass[d].next
           before == [pass[d].before EXCEPT ![k] = live[d][k]]
<1>1. /\ pc[d] = "read" /\ UNCHANGED live
      /\ \E where, rest : /\ pc' = [pc EXCEPT ![d] = where] /\ pass' = [pass EXCEPT ![d] = rest]
                          /\ rest.before = before /\ rest.remote = pass[d].remote
  <2>1. CASE ReadStore(d)
    <3> DEFINE rest == [pass[d] EXCEPT !.before[k] = live[d][k], !.next = k + 1]
    <3>1. /\ pc[d] = "read" /\ UNCHANGED live
          /\ pc' = [pc EXCEPT ![d] = "read"] /\ pass' = [pass EXCEPT ![d] = rest]
      BY <2>1 DEF ReadStore, GoTo, diskVars
    <3>2. rest.before = before /\ rest.remote = pass[d].remote
      BY Fields DEF Pass
    <3> HIDE DEF rest, before
    <3> QED BY <3>1, <3>2
  <2>2. CASE ReadLastStore(d)
    <3> DEFINE merged == Merged(MergeFor(d, pass[d].remote), before, pass[d].remote.data)
               rest == [pass[d] EXCEPT !.before = before, !.merged = merged, !.next = 1,
                                       !.copy = pass[d].remote]
    <3>1. /\ pc[d] = "read" /\ UNCHANGED live /\ pass' = [pass EXCEPT ![d] = rest]
          /\ \E where : pc' = [pc EXCEPT ![d] = where]
      BY <2>2 DEF ReadLastStore, GoTo, diskVars
    <3> HIDE DEF before, merged
    <3>2. rest.before = before /\ rest.remote = pass[d].remote
      BY Fields DEF Pass
    <3> HIDE DEF rest
    <3> QED BY <3>1, <3>2
  <2> QED BY <2>1, <2>2
<1>2. ASSUME NEW s \in Store, NEW i \in Id
      PROVE  before[s][i] \in {pass[d].before[s][i], live[d][s][i]}
  BY Fields DEF Snapshot
<1> HIDE DEF before
<1>3. /\ pass'[d].before = before /\ pass'[d].remote = pass[d].remote
      /\ \A e \in Device : e # d => UNCHANGED <<live[e], pc[e], pass[e]>>
  BY <1>1, Fields
<1>4. ASSUME NEW s \in Store, NEW i \in Id
      PROVE  /\ Outlives(pass'[d].remote.data[s][i], live'[d][s][i])
             /\ Outlives(pass'[d].remote.data[s][i], pass'[d].before[s][i])
  BY <1>1, <1>2, <1>3 DEF OutlivesInv
<1> QED BY <1>3, <1>4, OutlivesOneDevice

\* Every step keeps it: what the user writes is no uploaded marker.
LEMMA OutlivesInductive ==
    TypeOK /\ CopiesInv /\ InStep /\ LifeInv /\ OutlivesInv /\ [Next]_vars => OutlivesInv'
<1> SUFFICES ASSUME TypeOK, CopiesInv, InStep, LifeInv, OutlivesInv, [Next]_vars PROVE OutlivesInv'
  OBVIOUS
<1>1. CASE Tick \/ PremiumLapses \/ PremiumRenewed \/ UNCHANGED vars
  <2>1. UNCHANGED <<live, pc, pass>>
    BY <1>1 DEF Tick, PremiumLapses, PremiumRenewed, vars, diskVars
  <2> QED BY <2>1 DEF OutlivesInv, Outlives, Mark
<1>2. ASSUME NEW d \in Device, UserEdits(d)
      PROVE  OutlivesInv'
  <2>1. PICK k \in Store, j \in Id, slot \in Slot :
            Edit(d, k, j, slot) /\ slot.updated_at = now /\ slot.uploaded_at = Never
    BY <1>2, EditIsNow, InStepClocks
  <2>2. live' = [live EXCEPT ![d][k][j] = slot] /\ UNCHANGED <<pc, pass>>
    BY <2>1 DEF Edit
  <2>3. \A e \in Device : e # d => UNCHANGED <<live[e], pc[e], pass[e]>>
    BY <2>2, Fields
  <2>4. \A s \in Store, i \in Id : live'[d][s][i] = live[d][s][i] \/ ~Mark(live'[d][s][i])
    BY <2>1, <2>2, Fields DEF Snapshot, Mark
  <2> QED BY <2>2, <2>3, <2>4, OutlivesOneDevice DEF OutlivesInv, Outlives
<1>3. ASSUME NEW d \in Device, \/ StartSync(d) \/ UploadUnanswered(d) \/ UploadOvertaken(d) \/ SaveState(d)
                               \/ CutShort(d) \/ Upload(d) \/ UploadRefused(d) \/ SaveStore(d)
      PROVE  OutlivesInv'
  <2>1. \E where \in {"idle", "download", "save", "finish"} :
            pc' = [pc EXCEPT ![d] = where] /\ pass' = [pass EXCEPT ![d] = pass'[d]]
    BY <1>3, Fields DEF StartSync, UploadUnanswered, UploadOvertaken, SaveState, CutShort, Upload, UploadRefused,
                        SaveStore, Again, Ended, GoTo
  <2>2. \A e \in Device : e # d => live'[e] = live[e]
    BY <1>3, Fields DEF StartSync, UploadUnanswered, Stored, UploadOvertaken, SaveState, CutShort, Upload,
                        UploadRefused, SaveStore, diskVars
  <2>3. /\ pc'[d] \notin {"read", "upload"}
        /\ \A e \in Device : e # d => UNCHANGED <<live[e], pc[e], pass[e]>>
    BY <2>1, <2>2, Fields
  <2> QED BY <2>3, OutlivesOneDevice
<1> QED BY <1>1, <1>2, <1>3, OutlivesDownload, OutlivesRead DEF Next, SyncStep, Fault

\* On devices in step, what a refused upload leaves takes in what was downloaded: if a marker
\* held here erases a record, the server held no live one.
LEMMA RefusedTakesIn ==
    ASSUME TypeOK, LifeInv, OutlivesInv, NEW d \in Device, pc[d] = "upload"
    PROVE  TakesIn(d)
<1> DEFINE m == Receiving(now, last_sync[d])
           merged == Merged(m, pass[d].before, pass[d].remote.data)
<1>1. pass[d].started = now
  BY Timed
<1>2. ASSUME NEW s \in Store, NEW i \in Id
      PROVE  AtLeast(merged[s][i], pass[d].remote.data[s][i])
  <2> DEFINE mine == pass[d].before[s][i]
             theirs == pass[d].remote.data[s][i]
             r == merged[s][i]
             t == reached[s][i]
  <2>1. mine \in Known(s, i) /\ theirs \in Known(s, i)
    BY KnownIs DEF Held
  <2>2. Plausible(mine, t, now) /\ Plausible(theirs, t, now)
    BY <2>1 DEF LifeInv, SlotOK
  <2>3. Outlives(theirs, mine)
    BY DEF OutlivesInv
  <2>4. r = IF s \in SettingStores THEN MergeSetting(m, mine, theirs) ELSE MergeRecord(m, mine, theirs)
    BY DEF Merged
  <2>5. now \in Nat /\ t \in Nat \cup {Never} /\ last_sync[d] \in Nat /\ m \in MergeRun
    BY Timed, SlotTypes DEF Receiving, MergeRun
  <2> HIDE DEF m, mine, theirs, r, t
  <2>6. CASE s \in SettingStores
    <3>1. theirs.updated_at <= r.updated_at
      BY <2>2, <2>4, <2>5, <2>6, MergedSetting DEF Plausible
    <3> QED BY <3>1 DEF AtLeast, r, theirs
  <2>7. CASE s \notin SettingStores
    <3>1. r = MergeRecord(Receiving(now, last_sync[d]), mine, theirs)
      BY <2>4, <2>7 DEF m
    <3>2. \/ theirs.updated_at <= r.updated_at
          \/ r = Absent /\ (theirs.deleted \/ (Mark(mine) /\ theirs.updated_at <= mine.updated_at))
      BY <2>2, <2>5, <3>1, ReceivedSlot
    <3>3. CASE r = Absent /\ Mark(mine) /\ theirs.updated_at <= mine.updated_at /\ ~theirs.deleted
      <4>1. theirs = Absent
        BY <2>2, <2>3, <3>3 DEF Outlives, Plausible, Slot, Never
      <4>2. AtLeast(r, theirs)
        BY <3>3, <4>1 DEF AtLeast, Absent, Never
      <4> QED BY <4>2 DEF r, theirs
    <3>4. CASE theirs.updated_at <= r.updated_at \/ (r = Absent /\ theirs.deleted)
      <4>1. AtLeast(r, theirs)
        BY <3>4 DEF AtLeast
      <4> QED BY <4>1 DEF r, theirs
    <3> QED BY <3>2, <3>3, <3>4
  <2> QED BY <2>6, <2>7
<1> QED BY <1>1, <1>2 DEF TakesIn

\* The same while Premium lapses and comes back, on the hypothesis of DeletedHolds: then no
\* marker held here erases a live record of the server.  When a sync takes long, one may.
THEOREM SavedWhenRefused ==
    ASSUME InStep
    PROVE  Spec => LastSyncMeansSaved
<1> DEFINE Keeps == \A d \in Device : last_sync'[d] # last_sync[d] =>
        \A s \in Store, i \in Id :
            \/ live'[d][s][i].updated_at >= kept'[d].data[s][i].updated_at
            \/ IsMarker(kept'[d].data[s][i]) /\ live'[d][s][i] = Absent
<1>1. Init => LifeInv /\ TimesInv /\ OutlivesInv /\ SavedInv
  <2>1. Init => SavedInv /\ OutlivesInv
    BY DEF Init, SavedInv, Saving, OutlivesInv
  <2> QED BY <2>1, LifeInit, TimesInit, InStepClocks
<1>2. Inv /\ Inv' /\ LifeInv /\ OutlivesInv /\ [Next]_vars => LifeInv' /\ OutlivesInv'
  BY LifeInductive, OutlivesInductive DEF Inv
<1>3. Inv /\ LifeInv /\ TimesInv /\ OutlivesInv /\ SavedInv /\ [Next]_vars => TimesInv' /\ SavedInv'
  <2> SUFFICES ASSUME Inv, LifeInv, TimesInv, OutlivesInv, SavedInv, [Next]_vars PROVE TimesInv' /\ SavedInv'
    OBVIOUS
  <2>1. \A d \in Device : UploadRefused(d) => TakesIn(d)
    BY RefusedTakesIn DEF UploadRefused, Inv
  <2> QED BY <2>1, InStepClocks, TimesInductive, SavedInductive DEF Inv
<1>4. Inv /\ SavedInv /\ [Next]_vars => Keeps
  BY SavedMeans
<1> QED
  BY <1>1, <1>2, <1>3, <1>4, Invariant, PTL DEF Spec, LastSyncMeansSaved
=============================================================================
