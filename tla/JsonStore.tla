----------------------------- MODULE JsonStore ------------------------------
(***************************************************************************)
(* A store of the app in its JSON file (src-tauri/src/json_store.rs and    *)
(* persist.rs): commands change it under its lock, reading the file and    *)
(* swapping a new one in by a rename; others read it without the lock; and *)
(* whoever finds the file unreadable moves it aside.  An action is one     *)
(* call to the file system, each of which may fail; the process may end    *)
(* between any two.                                                        *)
(*                                                                         *)
(* The name a file is moved aside to is its own (quarantine_corrupt adds   *)
(* the milliseconds).  Temporary files, whose names are unique too, are    *)
(* what their thread holds in memory; one left behind is never read.       *)
(* MaxFaults is the model's bound on failures, and MaxUpdates on changes.  *)
(***************************************************************************)
EXTENDS StoreChanges

CONSTANTS
    Thread,     \* the commands that run at once
    Nobody,     \* holds the lock
    MaxFaults, MaxUpdates

ASSUME BoundsAssumption == MaxFaults \in Nat /\ MaxUpdates \in Nat /\ Nobody \notin Thread

VARIABLES
    kind,       \* which store this is
    file,       \* its file: whether it parses, and the log it then is
    aside,      \* the logs that were moved aside
    lock,       \* who holds the store's mutex
    task,       \* what each command is doing
    faults, updates,
    harmed      \* whether the file could ever not be read

storeVars == <<kind, file, aside, lock, task, faults, updates, harmed>>

-----------------------------------------------------------------------------
NoFile       == [is |-> "none", log |-> <<>>]
Damaged      == [is |-> "damaged", log |-> <<>>]
Holding(log) == [is |-> "log", log |-> log]

\* A command that runs no more remembers nothing.
NoChange == [do |-> "nothing"]
NoTask   == [at |-> "idle", change |-> NoChange, base |-> <<>>]

StoreInit ==
    /\ kind \in Kind
    /\ file = NoFile /\ aside = {}
    /\ lock = Nobody
    /\ task = [t \in Thread |-> NoTask]
    /\ faults = 0 /\ updates = 0 /\ harmed = FALSE

Ends(t) ==
    /\ task' = [task EXCEPT ![t] = NoTask]
    /\ lock' = IF lock = t THEN Nobody ELSE lock

Fault == faults < MaxFaults /\ faults' = faults + 1

-----------------------------------------------------------------------------

Lock(t) == lock = Nobody /\ lock' = t

\* update: the lock, then the file.
Update(t, change) ==
    /\ task[t].at = "idle" /\ updates < MaxUpdates
    /\ updates' = updates + 1
    /\ Lock(t)
    /\ task' = [task EXCEPT ![t] = [NoTask EXCEPT !.at = "read", !.change = change]]
    /\ UNCHANGED <<kind, file, aside, faults, harmed>>

\* load: no lock.
Load(t) ==
    /\ task[t].at = "idle"
    /\ task' = [task EXCEPT ![t].at = "look"]
    /\ UNCHANGED <<kind, file, aside, lock, faults, updates, harmed>>

\* read_json: no file, or one that parses.
Read(t) ==
    /\ task[t].at \in {"read", "look"} /\ file # Damaged
    /\ IF task[t].at = "look"
       THEN Ends(t)
       ELSE task' = [task EXCEPT ![t].at = "write", ![t].base = file.log] /\ UNCHANGED lock
    /\ UNCHANGED <<kind, file, aside, faults, updates, harmed>>

\* read_json: the file is there but its bytes do not parse, or the read itself failed.
ReadFails(t) ==
    /\ task[t].at \in {"read", "look"} /\ file # NoFile
    /\ IF file = Damaged THEN UNCHANGED faults ELSE Fault
    /\ harmed' = TRUE
    /\ task' = [task EXCEPT ![t].at = IF @ = "look" THEN "unread" ELSE "quarantine"]
    /\ UNCHANGED <<kind, file, aside, lock, updates>>

\* quarantine_corrupt moves whatever is under the name by now.
MoveAside ==
    /\ file' = NoFile
    /\ aside' = IF file.is = "log" THEN aside \cup {file.log} ELSE aside

AfterQuarantine(t) ==
    IF task[t].at = "unread" THEN Ends(t)
    ELSE task' = [task EXCEPT ![t].at = "write", ![t].base = <<>>] /\ UNCHANGED lock

Quarantine(t) ==
    /\ task[t].at \in {"quarantine", "unread"}
    /\ MoveAside
    /\ AfterQuarantine(t)
    /\ UNCHANGED <<kind, faults, updates, harmed>>

\* Its rename failed: the caller takes the empty default all the same.
QuarantineFails(t) ==
    /\ task[t].at \in {"quarantine", "unread"}
    /\ Fault
    /\ AfterQuarantine(t)
    /\ UNCHANGED <<kind, file, aside, updates, harmed>>

\* A mistake the checks must catch: the file itself is opened and written.
WriteInPlace(t) ==
    /\ task[t].at = "write"
    /\ file' = Damaged
    /\ task' = [task EXCEPT ![t].at = "rename"]
    /\ UNCHANGED <<kind, aside, lock, faults, updates, harmed>>

\* atomic_write: the directory and the temporary file beside the target.
WriteTemporary(t) ==
    /\ task[t].at = "write"
    /\ task' = [task EXCEPT ![t].at = "rename"]
    /\ UNCHANGED <<kind, file, aside, lock, faults, updates, harmed>>

\* atomic_write: the rename over the target, after which the change is reported done.
Rename(t) ==
    /\ task[t].at = "rename"
    /\ file' = Holding(Apply(kind, task[t].change, task[t].base))
    /\ Ends(t)
    /\ UNCHANGED <<kind, aside, faults, updates, harmed>>

\* Either step failed: the command reports it.
WriteFails(t) ==
    /\ task[t].at \in {"write", "rename"}
    /\ Fault
    /\ Ends(t)
    /\ UNCHANGED <<kind, file, aside, updates, harmed>>

-----------------------------------------------------------------------------
\* Something else than the app damaged the file, between two changes.
Damage ==
    /\ file.is = "log" /\ lock = Nobody /\ Fault
    /\ file' = Damaged /\ harmed' = TRUE
    /\ UNCHANGED <<kind, aside, lock, task, updates>>

\* The process ends, or the power goes; the app starts again.
Crash ==
    /\ \E t \in Thread : task[t].at # "idle"
    /\ Fault
    /\ task' = [t \in Thread |-> NoTask] /\ lock' = Nobody
    /\ UNCHANGED <<kind, file, aside, updates, harmed>>

StoreNext ==
    \/ \E t \in Thread :
          \/ \E change \in ChangeTo(kind) : Update(t, change)
          \/ Load(t) \/ Read(t) \/ ReadFails(t) \/ Quarantine(t) \/ QuarantineFails(t)
          \/ WriteTemporary(t) \/ Rename(t) \/ WriteFails(t)
    \/ Damage \/ Crash

StoreSpec == StoreInit /\ [][StoreNext]_storeVars

-----------------------------------------------------------------------------
\* Whatever threads, crashes and failures do to one another, the file is a log changed by
\* one whole change at a time (persist.rs atomic_write, JsonStore::update).
Kept == INSTANCE KeptLog WITH log <- file.log
ChangesAreWhole == Kept!Spec
=============================================================================
