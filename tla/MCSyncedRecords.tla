--------------------------- MODULE MCSyncedRecords ---------------------------
(* Instances for TLC of records and their deletions: what a sync makes of them, and what  *)
(* becomes of a connection's secrets, which SyncPass leaves out, when it is edited or     *)
(* deleted.  Each behaviour is of one of the two.                                         *)
EXTENDS SyncPass, ConnectionSecrets, TLC

CONSTANTS d1, d2, Folder, Secret, Thread, Unknown, Sync, LastTime

VARIABLES
    part, clock, keyring, remote, version, task, sync

connectionVars ==
    <<clock, disk, cache, ring, keyring, remote, version, task, sync, secrets_lock, failures,
      typed, torn>>

C == INSTANCE Connections WITH now <- clock, server <- remote,
        MaxTime <- LastTime

ASSUME ConnectionsAssumption == C!NamesAssumption

NoSkew == [d \in {d1, d2} |-> 0]

\* Every device holds every record since time 0.
RecordsAtZero == {[s \in Store |-> [i \in Id |-> PutAt(0, 1)]]}

OfSync(A)        == part = "sync" /\ A /\ UNCHANGED <<part, connectionVars>>
OfConnections(A) == part = "connections" /\ A /\ UNCHANGED <<part, vars>>

\* The connections stay in one of their initial states while records are synced.
NoConnections == ~keyring /\ \A i \in Id : disk[i] = C!Absent

InitPart ==
    /\ part \in {"sync", "connections"}
    /\ Init
    /\ C!Init /\ (part = "sync" => NoConnections)

NextSync ==
    \/ OfSync(Tick) \/ OfSync(PremiumLapses) \/ OfSync(PremiumRenewed)
    \/ \E d \in Device :
        \/ OfSync(UserEdits(d)) \/ OfSync(SyncStep(d)) \/ OfSync(Fault(d))

NextConnections ==
    \/ OfConnections(C!Load) \/ OfConnections(C!Crash) \/ OfConnections(C!SyncStep)
    \/ \E t \in Thread :
        \/ OfConnections(C!CommandStep(t))
        \/ \E i \in Id :
            \/ OfConnections(C!NewSecrets(t, i)) \/ OfConnections(C!FindForEdit(t, i))
            \/ OfConnections(C!DeleteRecord(t, i))
    \/ \E i \in Id :
        \/ OfConnections(C!SetOpen(i)) \/ OfConnections(C!OtherDevice(i))
        \/ \E f \in Folder \cup {None} : OfConnections(C!Move(i, f))
    \/ \E f \in Folder : OfConnections(C!DetachFolder(f))

NextPart == NextSync \/ NextConnections

SpecPart == InitPart /\ [][NextPart]_<<part, vars, connectionVars>>

==============================================================================
