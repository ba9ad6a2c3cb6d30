------------------------------- MODULE Merge -------------------------------
(***************************************************************************)
(* The rules by which a device merges its synced stores with the copy it   *)
(* downloaded (src-tauri/src/sync/merge.rs, record.rs and settings.rs).    *)
(*                                                                         *)
(* A slot is what a store holds under one id: the record's stamp and its   *)
(* content, a number that stands for the serialized record and keeps its   *)
(* order.  An id the store does not hold is the slot Absent, which every   *)
(* record outranks, so merging "only one side has it" needs no case.       *)
(***************************************************************************)
EXTENDS Integers

CONSTANT MarkerLifetime   \* MARKER_LIFETIME_MS, in the model's time unit

ASSUME MarkerLifetimeAssumption == MarkerLifetime \in Nat

-----------------------------------------------------------------------------
\* Option::None of a time: every time is a natural number.
Never == -1

\* What a deleted record's content is blanked to (Record::emptied, V::default).
Blank == 0

\* A setting's default value, which may rank below or above a customised one.
Default == 1

Slot == [updated_at : Nat \cup {Never}, deleted : BOOLEAN,
         uploaded_at : Nat \cup {Never}, content : Nat]

Absent == [updated_at |-> Never, deleted |-> FALSE,
           uploaded_at |-> Never, content |-> Blank]

\* Stamp::now and Stamp::tombstone, as put and delete_where apply them.
PutAt(time, content) ==
    [updated_at |-> time, deleted |-> FALSE, uploaded_at |-> Never, content |-> content]

MarkerAt(time) ==
    [updated_at |-> time, deleted |-> TRUE, uploaded_at |-> Never, content |-> Blank]

IsLive(slot)   == slot # Absent /\ ~slot.deleted
IsMarker(slot) == slot.deleted

-----------------------------------------------------------------------------
(* Which copy of a record wins. *)

\* rank(theirs) > rank(mine): newer, then deleted, then by content.  The upload
\* time is part of the serialized content but never decides: two markers of one
\* instant are both blank, and Winner gives either of them the same upload time.
Outranks(theirs, mine) ==
    \/ theirs.updated_at > mine.updated_at
    \/ /\ theirs.updated_at = mine.updated_at
       /\ theirs.deleted /\ ~mine.deleted
    \/ /\ theirs.updated_at = mine.updated_at
       /\ theirs.deleted = mine.deleted
       /\ theirs.content > mine.content

SameMarker(a, b) == a.deleted /\ b.deleted /\ a.updated_at = b.updated_at

\* The least of the upload times that are known, Never when neither is.
EarliestUpload(a, b) ==
    IF a = Never THEN b ELSE IF b = Never \/ a <= b THEN a ELSE b

Winner(mine, theirs) ==
    LET won == IF Outranks(theirs, mine) THEN theirs ELSE mine
    IN  IF SameMarker(mine, theirs)
        THEN [won EXCEPT !.uploaded_at = EarliestUpload(mine.uploaded_at, theirs.uploaded_at)]
        ELSE won

\* setting_rank: at stamp 0 a customised value beats the default.
CustomisedAtZero(slot) == slot.updated_at = 0 /\ slot.content # Default

SettingOutranks(theirs, mine) ==
    \/ theirs.updated_at > mine.updated_at
    \/ /\ theirs.updated_at = mine.updated_at
       /\ CustomisedAtZero(theirs) /\ ~CustomisedAtZero(mine)
    \/ /\ theirs.updated_at = mine.updated_at
       /\ CustomisedAtZero(theirs) = CustomisedAtZero(mine)
       /\ theirs.content > mine.content

-----------------------------------------------------------------------------
(* One merge, at m.now, on a device that last synced at m.last_sync, whose *)
(* result is uploaded or, when m.uploads is false, only saved.             *)

MergeRun == [now : Nat, last_sync : Nat \cup {Never}, uploads : BOOLEAN]

Merging(now, last_sync)   == [now |-> now, last_sync |-> last_sync, uploads |-> TRUE]
Receiving(now, last_sync) == [now |-> now, last_sync |-> last_sync, uploads |-> FALSE]

Stale(m) == m.last_sync # Never /\ m.now - m.last_sync > MarkerLifetime

\* Mistakes the checks must catch: a marker's 90 days counted from the deletion,
\* and started again by every merge that uploads it.
UploadTimeFromDeletion(m, slot) == slot.updated_at

\* The upload time a marker carries after the merge: the one it has, or now when
\* this merge is the one that uploads it.
UploadTime(m, slot) ==
    IF slot.uploaded_at = Never /\ m.uploads THEN m.now ELSE slot.uploaded_at

Expired(m, slot) ==
    /\ IsMarker(slot)
    /\ UploadTime(m, slot) # Never
    /\ m.now - UploadTime(m, slot) > MarkerLifetime

\* Merge::uploaded: markers are stamped with their upload time, or erased.
Uploaded(m, slot) ==
    IF Expired(m, slot) THEN Absent
    ELSE IF IsMarker(slot) THEN [slot EXCEPT !.uploaded_at = UploadTime(m, slot)]
    ELSE slot

\* Merge::records, keyed and connections, for the slot of one id.
MergeRecord(m, mine, theirs) ==
    Uploaded(m, Winner(IF Stale(m) THEN Absent ELSE mine, theirs))

\* Merge::settings, for one setting.  A setting the remote does not name is kept.
MergeSetting(m, mine, theirs) ==
    IF theirs # Absent /\ (Stale(m) \/ SettingOutranks(theirs, mine))
    THEN theirs ELSE mine
=============================================================================
