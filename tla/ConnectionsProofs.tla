-------------------------- MODULE ConnectionsProofs -------------------------
(***************************************************************************)
(* Connections for any number of connections, commands, secrets, changes   *)
(* and failures.                                                           *)
(*                                                                         *)
(* The secrets follow the stamps: a copy of a record, on the server or in  *)
(* the memory of the sync, that has the stamp of the record here carries   *)
(* the secret typed here, and no copy has the stamp of an edit whose       *)
(* secret is yet to be written.  Both hold as long as nothing failed and   *)
(* no sync read a torn edit (Clean); the rest of Inv holds whatever fails. *)
(***************************************************************************)
EXTENDS Connections, TLAPS

-----------------------------------------------------------------------------
(* The inductive invariant. *)

Place == Folder \cup {None}
Known == Secret \cup {None}

Written == [updated_at : Nat, deleted : BOOLEAN, auth : BOOLEAN, folder_id : Place, open : BOOLEAN]
Config == {Absent} \cup Written

\* What is not there, or deleted, has no secrets.
Entry == {e \in [config : Config, secrets : Known \cup {Unknown}] : IsLive(e.config) \/ e.secrets = None}

Copies == [Id -> Entry]

Task ==
    {Idle} \cup [at : {"add"}, id : Id, auth : {TRUE}] \cup [at : {"forget"}, id : Id] \cup
    [at : {"edit", "secret"}, id : Id, auth : BOOLEAN, secret : Known, folder_id : Place,
     open : BOOLEAN, stamp : Nat]

SyncState ==
    [at : {"idle", "secrets", "upload", "write", "save"}, remote : Copies, version : Nat,
     before : Copies, merged : Copies, todo : SUBSET Id]

TypedState == [updated_at : Nat \cup {-2}, secret : Known]

\* The type invariant: the cache is the file's contents, when there is one.
TypeOK ==
    /\ now \in Nat /\ failures \in Nat /\ version \in Nat
    /\ disk \in [Id -> Config] /\ cache \in {Uncached, disk}
    /\ ring \in [Id -> Known] /\ keyring \in BOOLEAN
    /\ server \in Copies /\ sync \in SyncState
    /\ task \in [Thread -> Task] /\ secrets_lock \in Thread \cup {None, Sync}
    /\ typed \in [Id -> TypedState] /\ torn \in BOOLEAN

\* The copies a sync gives to, or gets from, the server.
Shares(i) == {server[i], sync.remote[i], sync.merged[i]}

\* No copy is ahead of the clock, nor of a connection that is not here.
Order ==
    \A i \in Id :
        /\ disk[i].updated_at <= now /\ typed[i].updated_at <= disk[i].updated_at
        /\ \A x \in Shares(i) \cup {sync.before[i]} :
               /\ x.config.updated_at <= now
               /\ x.config # Absent => disk[i] # Absent

\* What a sync has read is older than the record here or of the same change, and what it
\* merged is no older than what it read, or the same change.
Mirror ==
    /\ sync.at \in {"secrets", "upload", "write"} =>
         \A i \in Id : LET b == sync.before[i].config
                       IN  /\ b.updated_at <= disk[i].updated_at
                           /\ b.updated_at = disk[i].updated_at => b.deleted = disk[i].deleted
    /\ sync.at \in {"upload", "write"} =>
         \A i \in Id : LET b == sync.before[i].config
                           m == sync.merged[i].config
                       IN  /\ b.updated_at <= m.updated_at
                           /\ b.updated_at = m.updated_at => b.deleted = m.deleted
    /\ sync.at # "save" => sync.todo = {}

Locks ==
    /\ \A t \in Thread : secrets_lock = t <=> task[t].at \in {"secret", "forget"}
    /\ secrets_lock = Sync <=> sync.at = "save"

\* An edit that types a secret, or removes it.
Retypes(k) == ~(k.auth /\ k.secret = None)

\* What a command leaves between its two writes.
Halfway ==
    \A t \in Thread : LET k == task[t] IN
        /\ k.at = "add" => /\ disk[k.id] = Absent
                           /\ \A u \in Thread : task[u].at = "add" /\ task[u].id = k.id => u = t
        /\ k.at = "secret" => /\ IsLive(disk[k.id]) /\ k.stamp <= disk[k.id].updated_at
                              /\ Retypes(k) => typed[k.id].updated_at < disk[k.id].updated_at
        /\ k.at = "forget" => disk[k.id].deleted

\* Without a keyring there are no secrets.
Keyless == ~keyring => \A i \in Id : ring[i] = None /\ typed[i].secret = None

\* The secret typed last is the connection's still.
Lasts(i) == ~disk[i].deleted /\ typed[i].updated_at = disk[i].updated_at

Forgotten(i) == \E t \in Thread : task[t].at = "forget" /\ task[t].id = i

\* The keychain fits the records, but for what a deletion or a sync is about to write.
Fits ==
    \A i \in Id : i \notin sync.todo =>
        /\ disk[i].deleted => ring[i] = None \/ Forgotten(i)
        /\ Lasts(i) => ring[i] = typed[i].secret

\* What a sync is about to write fits them too.
Saves ==
    \A i \in sync.todo : keyring =>
        /\ disk[i].deleted => sync.merged[i].secrets = None
        /\ Lasts(i) => sync.merged[i].secrets = typed[i].secret

\* What a sync has read of a record is with the secret the keychain has.
Reads ==
    sync.at \in {"upload", "write"} /\ keyring =>
        \A i \in Id : LET b == sync.before[i]
                      IN  IsLive(b.config) /\ b.config.updated_at = disk[i].updated_at => b.secrets = ring[i]

\* A copy of the record here is with the secret typed here.
Agree ==
    \A i \in Id : \A x \in Shares(i) :
        keyring /\ ~x.config.deleted /\ Lasts(i) /\ x.config.updated_at = disk[i].updated_at
            => x.secrets = typed[i].secret

\* No copy is of an edit whose secret is yet to be written.
Untorn ==
    \A t \in Thread : task[t].at = "secret" =>
        LET i == task[t].id
        IN  /\ \A x \in Shares(i) : x.config.updated_at # disk[i].updated_at
            /\ sync.at \in {"upload", "write"} => sync.before[i].config.updated_at < task[t].stamp

Clean == Fits /\ Saves /\ Reads /\ Agree /\ Untorn

Inv == TypeOK /\ Order /\ Mirror /\ Locks /\ Halfway /\ Keyless /\ (failures = 0 /\ ~torn => Clean)

-----------------------------------------------------------------------------
(* Records, copies of them, and merges. *)

LEMMA ConfigFacts ==
    ASSUME NEW c \in Config
    PROVE  /\ c.updated_at \in Nat \cup {-1} /\ c.deleted \in BOOLEAN /\ c.open \in BOOLEAN
           /\ c = Absent <=> c.updated_at = -1
           /\ IsLive(c) <=> c.updated_at \in Nat /\ ~c.deleted
           /\ c.deleted => c.updated_at \in Nat
           /\ c.folder_id \in Place
<1>1. CASE c = Absent
  <2>1. c.updated_at = -1 /\ c.deleted = FALSE /\ c.open = FALSE /\ c.folder_id = None
    BY <1>1 DEF Absent
  <2>2. -1 \notin Nat /\ ~IsLive(c)
    BY <1>1 DEF IsLive
  <2>4. c.deleted \in BOOLEAN /\ c.open \in BOOLEAN /\ ~c.deleted
    BY <2>1
  <2>3. c.folder_id \in Place
    BY <2>1 DEF Place
  <2> QED BY <1>1, <2>1, <2>2, <2>3, <2>4
<1>2. CASE c \in Written
  <2>1. c.updated_at \in Nat /\ c.deleted \in BOOLEAN /\ c.open \in BOOLEAN /\ c.folder_id \in Place
    BY <1>2 DEF Written
  <2>2. Absent.updated_at = -1
    BY DEF Absent
  <2> QED BY <2>1, <2>2 DEF IsLive
<1> QED BY <1>1, <1>2 DEF Config

LEMMA Opened ==
    ASSUME NEW c \in Config, NEW o \in BOOLEAN, o => c # Absent
    PROVE  /\ [c EXCEPT !.open = o] \in Config
           /\ [c EXCEPT !.open = o].updated_at = c.updated_at
           /\ [c EXCEPT !.open = o].deleted = c.deleted
<1>1. CASE c = Absent
  <2>1. o = FALSE
    BY <1>1
  <2>3. [Absent EXCEPT !.open = FALSE] = Absent
    <3> DEFINE R == [updated_at : Int, deleted : BOOLEAN, auth : BOOLEAN, folder_id : {None}, open : BOOLEAN]
    <3>1. Absent \in R /\ ~Absent.open
      BY DEF Absent
    <3>2. \A r \in R : ~r.open => [r EXCEPT !.open = FALSE] = r
      OBVIOUS
    <3> QED BY <3>1, <3>2
  <2>2. [c EXCEPT !.open = o] = Absent
    BY <1>1, <2>1, <2>3
  <2> QED BY <1>1, <2>2 DEF Config
<1>2. CASE c \in Written
  BY <1>2 DEF Config, Written
<1> QED BY <1>1, <1>2 DEF Config

LEMMA SharedFacts ==
    ASSUME NEW c \in Config
    PROVE  SharedPart(c).updated_at = c.updated_at /\ SharedPart(c).deleted = c.deleted
<1>1. SharedPart(c) = [c EXCEPT !.open = FALSE] /\ FALSE \in BOOLEAN
  BY DEF SharedPart
<1> QED BY <1>1, Opened

LEMMA AbsentIs == Absent \in Config /\ Absent.updated_at = -1 /\ ~Absent.deleted
BY DEF Config, Absent

LEMMA EntryFacts ==
    ASSUME NEW e \in Entry
    PROVE  /\ e.config \in Config /\ e.secrets \in Known \cup {Unknown}
           /\ e.config.deleted \/ e.config = Absent => e.secrets = None
BY DEF Entry, IsLive

LEMMA EntryMade ==
    ASSUME NEW c \in Config, NEW s \in Known \cup {Unknown}, IsLive(c) \/ s = None
    PROVE  [config |-> c, secrets |-> s] \in Entry
BY DEF Entry

LEMMA EmptyCopies == Empty \in Copies /\ \A i \in Id : Empty[i].config = Absent /\ Empty[i].secrets = None
BY AbsentIs DEF Empty, Copies, Entry, Known

LEMMA CollectIs ==
    ASSUME NamesAssumption, NEW c \in Config, NEW s \in Known, keyring \in BOOLEAN
    PROVE  /\ Collect(c, s) \in Entry /\ Collect(c, s).config = c
           /\ IsLive(c) /\ keyring => Collect(c, s).secrets = s
<1>1. Collect(c, s) = [config |-> c,
                       secrets |-> IF c.deleted \/ c = Absent THEN None ELSE IF ~keyring THEN Unknown ELSE s]
  BY DEF Collect
<1>2. c.deleted \/ c = Absent <=> ~IsLive(c)
  BY DEF IsLive
<1> QED BY <1>1, <1>2 DEF Entry, Known

\* A merge takes the newer record, and never a secret other than the newer one's.
LEMMA MergedIs ==
    ASSUME NamesAssumption, NEW mine \in Copies, NEW theirs \in Copies, NEW i \in Id
    PROVE  LET e == Merged(mine, theirs)[i]
               m == mine[i]
               t == theirs[i]
           IN  /\ e \in Entry
               /\ e.config.updated_at >= m.config.updated_at
               /\ e.config.updated_at \in {m.config.updated_at, t.config.updated_at}
               /\ e.config.updated_at = m.config.updated_at => e.config.deleted = m.config.deleted
               /\ \A s \in Known :
                    /\ ~e.config.deleted
                    /\ t.config.updated_at = e.config.updated_at /\ ~t.config.deleted => t.secrets = s
                    /\ m.config.updated_at = e.config.updated_at /\ ~m.config.deleted => m.secrets = s
                    => e.secrets = s
<1> DEFINE m == mine[i]
           t == theirs[i]
           c == Wins(m.config, t.config)
           s == WinningSecrets(c, m, t)
<1>1. m \in Entry /\ t \in Entry
  BY DEF Copies
<1>2. Merged(mine, theirs)[i] = [config |-> c, secrets |-> s]
  BY DEF Merged
<1>3. m.config \in Config /\ t.config \in Config /\ m.secrets \in Known \cup {Unknown} /\ t.secrets \in Known \cup {Unknown}
      /\ (m.config.deleted \/ m.config = Absent => m.secrets = None)
      /\ (t.config.deleted \/ t.config = Absent => t.secrets = None)
  BY <1>1, EntryFacts
<1> HIDE DEF m, t
<1>4. /\ c \in Config
      /\ \/ c = m.config /\ ~(t.config.updated_at > m.config.updated_at)
         \/ /\ t.config.updated_at > m.config.updated_at /\ c.updated_at = t.config.updated_at
            /\ c.deleted = t.config.deleted /\ SharedPart(c) = SharedPart(t.config)
  <2>1. CASE t.config.updated_at > m.config.updated_at
    <3> DEFINE o == IsLive(m.config) /\ m.config.open /\ ~t.config.deleted
    <3>1. c = [t.config EXCEPT !.open = o]
      BY <2>1 DEF Wins
    <3>2. t.config # Absent
      BY <1>3, <2>1, ConfigFacts
    <3>3. o \in BOOLEAN
      BY <1>3, ConfigFacts
    <3>4. c \in Config /\ c.updated_at = t.config.updated_at /\ c.deleted = t.config.deleted
      BY <1>3, <3>1, <3>2, <3>3, Opened
    <3>5. SharedPart(c) = SharedPart(t.config)
      BY <3>1 DEF SharedPart
    <3> QED BY <2>1, <3>4, <3>5
  <2>2. CASE ~(t.config.updated_at > m.config.updated_at)
    BY <1>3, <2>2 DEF Wins
  <2> QED BY <2>1, <2>2
<1> HIDE DEF c
<1>5. /\ c.updated_at >= m.config.updated_at
      /\ c.updated_at \in {m.config.updated_at, t.config.updated_at}
      /\ c.updated_at = m.config.updated_at => c.deleted = m.config.deleted
  BY <1>3, <1>4, ConfigFacts
<1> DEFINE won == IF SharedPart(t.config) = SharedPart(c) THEN t ELSE m
           other == IF won = m THEN t ELSE m
<1>6. s = IF c.deleted THEN None
          ELSE IF won.secrets = Unknown /\ other.config # Absent THEN other.secrets ELSE won.secrets
  BY DEF WinningSecrets
<1>7. won.config.updated_at = c.updated_at /\ won.config.deleted = c.deleted
  BY <1>3, <1>4, SharedFacts
<1>8. s \in Known \cup {Unknown} /\ (IsLive(c) \/ s = None)
  <2>1. c = Absent => won.config = Absent
    BY <1>3, <1>4, <1>7, ConfigFacts
  <2>2. Unknown \notin Known /\ None \in Known
    BY DEF NamesAssumption, Known
  <2>3. won.secrets \in Known \cup {Unknown} /\ other.secrets \in Known \cup {Unknown}
        /\ (won.config = Absent => won.secrets = None)
    BY <1>3
  <2> QED BY <1>6, <2>1, <2>2, <2>3 DEF IsLive
<1>9. ASSUME NEW x \in Known, ~c.deleted,
             t.config.updated_at = c.updated_at /\ ~t.config.deleted => t.secrets = x,
             m.config.updated_at = c.updated_at /\ ~m.config.deleted => m.secrets = x
      PROVE  s = x
  <2>1. won.secrets = x
    BY <1>7, <1>9
  <2>2. x # Unknown
    BY DEF NamesAssumption, Known
  <2> QED BY <1>6, <1>9, <2>1, <2>2
<1>10. [config |-> c, secrets |-> s] \in Entry
  BY <1>4, <1>8, EntryMade
<1> HIDE DEF s, won, other
<1>11. Merged(mine, theirs)[i].config = c /\ Merged(mine, theirs)[i].secrets = s
  BY <1>2
<1> QED BY <1>2, <1>5, <1>9, <1>10, <1>11 DEF m, t

-----------------------------------------------------------------------------
(* Where every action leaves the state. *)

LEMMA CurrentIsDisk == ASSUME TypeOK PROVE Current = disk
BY DEF TypeOK, Current

\* What the variables hold, without the sets they are taken from.
LEMMA TypeFacts ==
    ASSUME TypeOK
    PROVE  /\ \A i \in Id : /\ disk[i] \in Config /\ ring[i] \in Known /\ typed[i] \in TypedState
                            /\ \A x \in Shares(i) \cup {sync.before[i]} : x \in Entry
           /\ \A t \in Thread : task[t] \in Task
           /\ sync.todo \subseteq Id
BY DEF TypeOK, Copies, Shares, SyncState

LEMMA TaskFacts ==
    ASSUME NEW k \in Task
    PROVE  /\ k.at \in {"idle", "add", "forget", "edit", "secret"}
           /\ k.at = "idle" <=> k = Idle
           /\ k.at # "idle" => k.id \in Id
           /\ k.at \in {"edit", "secret"} =>
                k \in [at : {"edit", "secret"}, id : Id, auth : BOOLEAN, secret : Known, folder_id : Place,
                       open : BOOLEAN, stamp : Nat]
<1>0. Idle.at = "idle"
  BY DEF Idle
<1>1. CASE k = Idle
  <2>1. k.at = "idle"
    BY <1>0, <1>1
  <2> QED BY <1>1, <2>1
<1>2. CASE k \in [at : {"add"}, id : Id, auth : {TRUE}] \cup [at : {"forget"}, id : Id]
  <2>1. k.at \in {"add", "forget"} /\ k.id \in Id
    BY <1>2
  <2> QED BY <1>0, <2>1
<1>3. CASE k \in [at : {"edit", "secret"}, id : Id, auth : BOOLEAN, secret : Known, folder_id : Place,
                  open : BOOLEAN, stamp : Nat]
  <2>1. k.at \in {"edit", "secret"} /\ k.id \in Id
    BY <1>3
  <2> QED BY <1>0, <1>3, <2>1
<1> QED BY <1>1, <1>2, <1>3 DEF Task

LEMMA InvInit ==
    ASSUME NamesAssumption, Init
    PROVE  Inv
<1>1. [Absent EXCEPT !.updated_at = 0, !.auth = TRUE] \in Written
  <2>1. Absent \in [updated_at : Int, deleted : BOOLEAN, auth : BOOLEAN, folder_id : Place, open : BOOLEAN]
    BY DEF Absent, Place
  <2> QED BY <2>1 DEF Written
<1>2. disk \in [Id -> Config]
  BY <1>1 DEF Init, Config
<1>3. TypeOK
  <2>1. NothingTyped \in TypedState
    BY DEF NothingTyped, TypedState, Known
  <2>2. NoSync \in SyncState
    BY EmptyCopies DEF NoSync, SyncState
  <2>3. ring \in [Id -> Known]
    BY DEF Init, Known
  <2> QED BY <1>2, <2>1, <2>2, <2>3, EmptyCopies DEF TypeOK, Init, Task
<1>4. \A i \in Id : disk[i].updated_at <= 0 /\ ~disk[i].deleted /\ disk[i].updated_at \in {-1, 0}
  <2> DEFINE fresh == [Absent EXCEPT !.updated_at = 0, !.auth = TRUE]
  <2>1. Absent \in [updated_at : Int, deleted : BOOLEAN, auth : BOOLEAN, folder_id : Place, open : BOOLEAN]
    BY DEF Absent, Place
  <2>2. fresh.updated_at = 0 /\ fresh.deleted = Absent.deleted
    BY <2>1
  <2> HIDE DEF fresh
  <2>3. \A i \in Id : disk[i] \in {Absent, fresh}
    BY DEF Init, fresh
  <2> QED BY <2>2, <2>3, AbsentIs
<1>5. \A i \in Id : \A x \in Shares(i) \cup {sync.before[i]} : x.config = Absent
  BY EmptyCopies DEF Init, Shares, NoSync
<1>6. \A i \in Id : typed[i].updated_at = -2 /\ typed[i].secret = None
  BY DEF Init, NothingTyped
<1>7. \A t \in Thread : task[t].at = "idle"
  BY DEF Init, Idle
<1>8. sync.at = "idle" /\ sync.todo = {} /\ secrets_lock = None /\ now = 0
  BY DEF Init, NoSync
<1>9. Order
  BY <1>4, <1>5, <1>6, <1>8, AbsentIs DEF Order
<1>10. Mirror /\ Halfway
  BY <1>7, <1>8 DEF Mirror, Halfway
<1>11. Locks
  BY <1>7, <1>8 DEF Locks, NamesAssumption
<1>12. Keyless
  BY <1>6 DEF Init, Keyless
<1>13. Clean
  <2>1. \A i \in Id : ~Lasts(i)
    BY <1>4, <1>6 DEF Lasts
  <2>2. Fits
    BY <1>4, <2>1 DEF Fits
  <2>3. Saves /\ Reads /\ Agree /\ Untorn
    BY <1>7, <1>8, <2>1 DEF Saves, Reads, Agree, Untorn
  <2> QED BY <2>2, <2>3 DEF Clean
<1> QED BY <1>3, <1>9, <1>10, <1>11, <1>12, <1>13 DEF Inv

-----------------------------------------------------------------------------
(* Changes of the records that are stamped. *)

\* The records in which are stamped now, and nothing else about connections changes but
\* what such a change leaves typed; which is empty when the file is not written.
Stamped(which) ==
    /\ now' = now + 1 /\ failures' >= failures /\ failures' \in Nat
    /\ disk' \in [Id -> Config] /\ cache' \in {Uncached, disk'}
    /\ \A i \in Id \ which : disk'[i] = disk[i]
    /\ \A i \in which : disk'[i].updated_at = now' /\ ~disk[i].deleted
    /\ typed' \in [Id -> TypedState]
    /\ \A i \in Id : \/ typed'[i] = typed[i]
                     \/ /\ i \in which /\ IsLive(disk[i]) /\ typed[i].updated_at = disk[i].updated_at
                        /\ typed'[i].updated_at = now' /\ typed'[i].secret = typed[i].secret
    /\ UNCHANGED <<ring, keyring, server, version, sync, torn>>

\* What the command that did it goes on with.
Turns(which) ==
    /\ task' \in [Thread -> Task] /\ secrets_lock' \in Thread \cup {None, Sync}
    /\ \A t \in Thread :
         \/ task'[t] = task[t] /\ (secrets_lock' = t => secrets_lock = t)
         \/ task'[t] = Idle /\ task[t].at \in {"add", "edit"} /\ secrets_lock' = secrets_lock
         \/ /\ task[t].at \notin {"secret", "forget"} /\ secrets_lock = None /\ secrets_lock' = t
            /\ task'[t].id \in which
            /\ \/ task'[t].at = "forget" /\ disk'[task'[t].id].deleted
               \/ /\ task'[t].at = "secret" /\ task'[t].stamp = now' /\ ~disk'[task'[t].id].deleted
                  /\ Retypes(task'[t]) => typed'[task'[t].id] = typed[task'[t].id]
    /\ secrets_lock' = secrets_lock \/ (secrets_lock = None /\ secrets_lock' \in Thread)
    /\ \A i \in which :
         /\ disk[i] = Absent => \E t \in Thread : task[t].at = "add" /\ task[t].id = i /\ task'[t] = Idle
         /\ disk'[i].deleted => secrets_lock = None /\ Forgotten(i)'

LEMMA StampedType ==
    ASSUME TypeOK, NEW which \in SUBSET Id, Stamped(which), Turns(which)
    PROVE  TypeOK'
<1>1. now' \in Nat
  BY DEF TypeOK, Stamped
<1>2. /\ disk' \in [Id -> Config] /\ cache' \in {Uncached, disk'} /\ typed' \in [Id -> TypedState]
      /\ task' \in [Thread -> Task] /\ secrets_lock' \in Thread \cup {None, Sync} /\ failures' \in Nat
  BY DEF Stamped, Turns
<1> QED BY <1>1, <1>2 DEF TypeOK, Stamped

\* The order of the stamps after it.
LEMMA StampedOrder ==
    ASSUME TypeOK, Order, Mirror, NEW which \in SUBSET Id, Stamped(which)
    PROVE  Order' /\ Mirror'
<1> USE DEF Stamped
<1>1. \A i \in Id : Shares(i)' = Shares(i)
  BY DEF Shares
<1>2. now \in Nat /\ now' = now + 1 /\ now' # -1
  BY DEF TypeOK
<1>3. \A i \in Id : disk'[i] = disk[i] \/ disk'[i].updated_at = now'
  OBVIOUS
<1>4. \A i \in Id : disk[i] \in Config /\ disk'[i] \in Config
  BY DEF TypeOK
<1>5. \A i \in Id : disk[i].updated_at <= disk'[i].updated_at
                    /\ (disk'[i] = disk[i] \/ disk[i].updated_at < disk'[i].updated_at)
  BY <1>2, <1>3, <1>4, ConfigFacts DEF Order
<1>6. Order'
  <2> SUFFICES ASSUME NEW i \in Id
               PROVE  /\ disk'[i].updated_at <= now' /\ typed'[i].updated_at <= disk'[i].updated_at
                      /\ \A x \in Shares(i) \cup {sync.before[i]} :
                             x.config.updated_at <= now' /\ (x.config # Absent => disk'[i] # Absent)
    BY <1>1 DEF Order
  <2>1. disk'[i].updated_at <= now'
    BY <1>2, <1>3, <1>4, ConfigFacts DEF Order
  <2>2. typed'[i].updated_at <= disk'[i].updated_at
    <3>1. typed[i].updated_at \in Int /\ disk[i].updated_at \in Int /\ disk'[i].updated_at \in Int
          /\ typed[i].updated_at <= disk[i].updated_at
      BY <1>4, ConfigFacts DEF TypeOK, TypedState, Order
    <3>2. typed'[i] = typed[i] \/ (typed'[i].updated_at = now' /\ disk'[i].updated_at = now')
      OBVIOUS
    <3> QED BY <1>2, <1>5, <3>1, <3>2
  <2>3. ASSUME NEW x \in Shares(i) \cup {sync.before[i]}
        PROVE  x.config.updated_at <= now' /\ (x.config # Absent => disk'[i] # Absent)
    <3>1. x.config \in Config /\ x.config.updated_at <= now /\ (x.config # Absent => disk[i] # Absent)
      BY <2>3, TypeFacts, EntryFacts DEF Order
    <3> QED BY <1>2, <1>3, <1>4, <3>1, ConfigFacts
  <2> QED BY <2>1, <2>2, <2>3
<1>7. Mirror'
  <2>1. \A i \in Id : sync.before[i].config \in Config
    BY TypeFacts, EntryFacts
  <2>2. ASSUME sync.at \in {"secrets", "upload", "write"}, NEW i \in Id
        PROVE  LET b == sync.before[i].config
               IN  /\ b.updated_at <= disk'[i].updated_at
                   /\ b.updated_at = disk'[i].updated_at => b.deleted = disk'[i].deleted
    <3>1. /\ sync.before[i].config.updated_at <= disk[i].updated_at
          /\ sync.before[i].config.updated_at = disk[i].updated_at =>
               sync.before[i].config.deleted = disk[i].deleted
      BY <2>2 DEF Mirror
    <3> QED BY <1>4, <1>5, <2>1, <3>1, ConfigFacts
  <2> QED BY <2>2 DEF Mirror
<1> QED BY <1>6, <1>7

LEMMA StampedHalfway ==
    ASSUME NamesAssumption, TypeOK, Order, Locks, Halfway, Keyless, NEW which \in SUBSET Id,
           Stamped(which), Turns(which)
    PROVE  Locks' /\ Halfway' /\ Keyless'
<1>1. now \in Nat /\ now' = now + 1 /\ sync' = sync
  BY DEF TypeOK, Stamped
<1>2. Locks'
  <2>1. ASSUME NEW t \in Thread
        PROVE  secrets_lock' = t <=> task'[t].at \in {"secret", "forget"}
    <3>0. secrets_lock = t <=> task[t].at \in {"secret", "forget"}
      BY DEF Locks
    <3>1. CASE task'[t] = task[t] /\ (secrets_lock' = t => secrets_lock = t)
      BY <3>0, <3>1 DEF Turns, NamesAssumption
    <3>2. CASE task'[t] = Idle /\ task[t].at \in {"add", "edit"} /\ secrets_lock' = secrets_lock
      BY <3>0, <3>2 DEF Idle
    <3>3. CASE secrets_lock' = t /\ task'[t].at \in {"secret", "forget"}
      BY <3>3
    <3> QED BY <3>1, <3>2, <3>3 DEF Turns
  <2>2. secrets_lock' = Sync <=> sync'.at = "save"
    BY <1>1 DEF Locks, Turns, NamesAssumption
  <2> QED BY <2>1, <2>2 DEF Locks
<1>3. Halfway'
  <2> SUFFICES ASSUME NEW t \in Thread
               PROVE  /\ task'[t].at = "add" =>
                           /\ disk'[task'[t].id] = Absent
                           /\ \A u \in Thread : task'[u].at = "add" /\ task'[u].id = task'[t].id => u = t
                      /\ task'[t].at = "secret" =>
                           /\ IsLive(disk'[task'[t].id]) /\ task'[t].stamp <= disk'[task'[t].id].updated_at
                           /\ Retypes(task'[t]) =>
                                typed'[task'[t].id].updated_at < disk'[task'[t].id].updated_at
                      /\ task'[t].at = "forget" => disk'[task'[t].id].deleted
    BY DEF Halfway, Retypes
  <2> DEFINE i == task'[t].id
  <2>0. \A u \in Thread : task'[u].at = "add" => task'[u] = task[u]
    BY DEF Turns, Idle
  <2>1. ASSUME task'[t].at = "add"
        PROVE  disk'[i] = Absent /\ \A u \in Thread : task'[u].at = "add" /\ task'[u].id = i => u = t
    <3>1. task[t].at = "add" /\ task'[t] = task[t] /\ disk[i] = Absent /\ i \in Id
      BY <2>0, <2>1, TypeFacts, TaskFacts DEF Halfway
    <3>2. i \notin which
      <4>1. ASSUME i \in which
            PROVE  FALSE
        <5>1. PICK u \in Thread : task[u].at = "add" /\ task[u].id = i /\ task'[u] = Idle
          BY <3>1, <4>1 DEF Turns
        <5>2. u = t
          BY <3>1, <5>1 DEF Halfway
        <5> QED BY <2>1, <5>1, <5>2 DEF Idle
      <4> QED BY <4>1
    <3>3. disk'[i] = Absent
      BY <3>1, <3>2 DEF Stamped
    <3> QED BY <2>0, <3>1, <3>3 DEF Halfway
  <2>2. ASSUME task'[t].at = "secret"
        PROVE  /\ IsLive(disk'[i]) /\ task'[t].stamp <= disk'[i].updated_at
               /\ Retypes(task'[t]) => typed'[i].updated_at < disk'[i].updated_at
    <3>0. i \in Id
      BY <2>2, TaskFacts DEF Turns
    <3>1. disk[i] \in Config /\ disk'[i] \in Config /\ typed[i].updated_at \in Int
          /\ typed[i].updated_at <= disk[i].updated_at /\ disk[i].updated_at <= now
      BY <3>0 DEF TypeOK, Stamped, Order, TypedState
    <3>2. CASE task'[t] = task[t]
      <4>1. /\ IsLive(disk[i]) /\ task[t].stamp <= disk[i].updated_at
            /\ Retypes(task[t]) => typed[i].updated_at < disk[i].updated_at
        BY <2>2, <3>2 DEF Halfway
      <4>2. task[t].stamp \in Nat
        BY <2>2, <3>2, TypeFacts, TaskFacts
      <4>3. CASE i \notin which
        BY <3>0, <3>2, <4>1, <4>3 DEF Stamped
      <4>4. CASE i \in which
        <5>1. secrets_lock = t /\ ~disk'[i].deleted /\ disk'[i].updated_at = now'
          BY <2>2, <3>2, <4>4 DEF Locks, Turns, Stamped, NamesAssumption
        <5>2. IsLive(disk'[i])
          BY <1>1, <3>1, <5>1, ConfigFacts
        <5>3. task[t].stamp <= disk'[i].updated_at
          BY <1>1, <3>1, <4>1, <4>2, <5>1, ConfigFacts
        <5>4. ASSUME Retypes(task[t])
              PROVE  typed'[i].updated_at < disk'[i].updated_at
          <6>1. typed[i].updated_at < disk[i].updated_at
            BY <4>1, <5>4
          <6>2. typed'[i] = typed[i]
            BY <3>0, <3>1, <6>1, ConfigFacts DEF Stamped
          <6> QED BY <1>1, <3>1, <5>1, <6>2, ConfigFacts
        <5> QED BY <3>2, <5>2, <5>3, <5>4
      <4> QED BY <4>3, <4>4
    <3>3. CASE task'[t] # task[t]
      <4>1. /\ i \in which /\ task'[t].stamp = now' /\ ~disk'[i].deleted
            /\ Retypes(task'[t]) => typed'[i] = typed[i]
        BY <2>2, <3>3 DEF Turns, Idle
      <4>2. disk'[i].updated_at = now'
        BY <4>1 DEF Stamped
      <4> QED BY <1>1, <3>1, <4>1, <4>2, ConfigFacts
    <3> QED BY <3>2, <3>3
  <2>3. ASSUME task'[t].at = "forget"
        PROVE  disk'[i].deleted
    <3>1. CASE task'[t] = task[t]
      <4>1. disk[i].deleted /\ i \in Id
        BY <2>3, <3>1, TypeFacts, TaskFacts DEF Halfway
      <4> QED BY <4>1 DEF Stamped
    <3>2. CASE task'[t] # task[t]
      BY <2>3, <3>2 DEF Turns, Idle
    <3> QED BY <3>1, <3>2
  <2> QED BY <2>1, <2>2, <2>3
<1>4. Keyless'
  <2>1. \A i \in Id : typed'[i].secret = typed[i].secret
    BY DEF Stamped
  <2> QED BY <2>1 DEF Keyless, Stamped
<1> QED BY <1>2, <1>3, <1>4

\* What fits the records fits them after it.
LEMMA StampedClean ==
    ASSUME NamesAssumption, TypeOK, Order, Mirror, Locks, Halfway, Clean, NEW which \in SUBSET Id,
           Stamped(which), Turns(which)
    PROVE  Clean'
<1>1. now \in Nat /\ now' = now + 1 /\ UNCHANGED <<ring, keyring, server, sync>>
  BY DEF TypeOK, Stamped
<1>2. \A i \in Id : Shares(i)' = Shares(i)
  BY <1>1 DEF Shares
<1>3. \A i \in Id : /\ disk[i] \in Config /\ disk'[i] \in Config
                    /\ typed[i].updated_at \in Int /\ typed[i].updated_at <= disk[i].updated_at
                    /\ disk[i].updated_at <= now
  BY DEF TypeOK, Stamped, TypedState, Order
<1>4. \A i \in Id : \A x \in Shares(i) \cup {sync.before[i]} : x.config.updated_at \in Int /\ x.config.updated_at <= now
  BY TypeFacts, EntryFacts, ConfigFacts DEF Order
\* A secret typed last before is so still, and one that is so now was so before.
<1>5. \A i \in Id : Lasts(i)' => Lasts(i) /\ typed'[i].secret = typed[i].secret
  <2> SUFFICES ASSUME NEW i \in Id, ~disk'[i].deleted, typed'[i].updated_at = disk'[i].updated_at
               PROVE  Lasts(i) /\ typed'[i].secret = typed[i].secret
    BY DEF Lasts
  <2>1. CASE i \notin which
    BY <2>1 DEF Stamped, Lasts
  <2>2. CASE i \in which
    <3>1. disk'[i].updated_at = now' /\ ~disk[i].deleted
      BY <2>2 DEF Stamped
    <3>2. typed'[i] # typed[i]
      BY <1>1, <1>3, <3>1, ConfigFacts
    <3> QED BY <3>1, <3>2 DEF Stamped, Lasts
  <2> QED BY <2>1, <2>2
<1>6. \A i \in Id : disk'[i] = disk[i] \/ disk'[i].updated_at = now'
  BY DEF Stamped
<1>7. \A i \in Id : disk'[i].deleted => disk[i].deleted \/ (Forgotten(i)' /\ secrets_lock = None)
  BY <1>6 DEF Stamped, Turns
<1>8. \A i \in Id : Forgotten(i) => Forgotten(i)'
  <2> SUFFICES ASSUME NEW i \in Id, NEW t \in Thread, task[t].at = "forget", task[t].id = i
               PROVE  task'[t] = task[t]
    BY DEF Forgotten
  <2> QED BY DEF Turns
<1>9. Fits'
  <2> SUFFICES ASSUME NEW i \in Id, i \notin sync.todo
               PROVE  /\ disk'[i].deleted => ring[i] = None \/ Forgotten(i)'
                      /\ Lasts(i)' => ring[i] = typed'[i].secret
    BY <1>1 DEF Fits
  <2>1. (disk[i].deleted => ring[i] = None \/ Forgotten(i)) /\ (Lasts(i) => ring[i] = typed[i].secret)
    BY DEF Clean, Fits
  <2> QED BY <1>5, <1>7, <1>8, <2>1
<1>10. Saves'
  <2> SUFFICES ASSUME NEW i \in sync.todo, keyring
               PROVE  /\ disk'[i].deleted => sync.merged[i].secrets = None
                      /\ Lasts(i)' => sync.merged[i].secrets = typed'[i].secret
    BY <1>1 DEF Saves
  <2>1. i \in Id /\ secrets_lock # None
    BY TypeFacts DEF Mirror, Locks, NamesAssumption
  <2>2. (disk[i].deleted => sync.merged[i].secrets = None) /\ (Lasts(i) => sync.merged[i].secrets = typed[i].secret)
    BY DEF Clean, Saves
  <2> QED BY <1>5, <1>7, <2>1, <2>2
<1>11. Reads'
  <2> SUFFICES ASSUME sync.at \in {"upload", "write"}, keyring, NEW i \in Id, IsLive(sync.before[i].config),
                      sync.before[i].config.updated_at = disk'[i].updated_at
               PROVE  sync.before[i].secrets = ring[i]
    BY <1>1 DEF Reads
  <2>1. disk'[i] = disk[i]
    BY <1>1, <1>4, <1>6
  <2> QED BY <2>1 DEF Clean, Reads
<1>12. Agree'
  <2> SUFFICES ASSUME NEW i \in Id, NEW x \in Shares(i), keyring, ~x.config.deleted, Lasts(i)',
                      x.config.updated_at = disk'[i].updated_at
               PROVE  x.secrets = typed'[i].secret
    BY <1>1, <1>2 DEF Agree
  <2>1. disk'[i] = disk[i]
    BY <1>1, <1>4, <1>6
  <2> QED BY <1>5, <2>1 DEF Clean, Agree
<1>13. Untorn'
  <2>3. \A u \in Thread : task'[u].at = "secret" => task'[u].id \in Id
    BY TaskFacts DEF Turns
  <2> SUFFICES ASSUME NEW t \in Thread, task'[t].at = "secret"
               PROVE  /\ \A x \in Shares(task'[t].id) : x.config.updated_at # disk'[task'[t].id].updated_at
                      /\ sync.at \in {"upload", "write"} =>
                           sync.before[task'[t].id].config.updated_at < task'[t].stamp
    BY <1>1, <1>2, <2>3 DEF Untorn
  <2> DEFINE i == task'[t].id
  <2>0. i \in Id
    BY <2>3
  <2>1. CASE task'[t] = task[t]
    <3>1. /\ \A x \in Shares(i) : x.config.updated_at # disk[i].updated_at
          /\ sync.at \in {"upload", "write"} => sync.before[i].config.updated_at < task[t].stamp
      BY <2>1 DEF Clean, Untorn
    <3>2. \A x \in Shares(i) : x.config.updated_at # disk'[i].updated_at
      BY <1>1, <1>4, <1>6, <2>0, <3>1
    <3> QED BY <2>1, <3>1, <3>2
  <2>2. CASE task'[t] # task[t]
    <3>1. i \in which /\ task'[t].stamp = now'
      BY <2>2 DEF Turns, Idle
    <3>2. disk'[i].updated_at = now'
      BY <3>1 DEF Stamped
    <3> QED BY <1>1, <1>4, <2>0, <3>1, <3>2
  <2> QED BY <2>1, <2>2
<1> QED BY <1>9, <1>10, <1>11, <1>12, <1>13 DEF Clean

LEMMA StampedInv ==
    ASSUME NamesAssumption, Inv, NEW which \in SUBSET Id, Stamped(which), Turns(which)
    PROVE  Inv'
<1>1. TypeOK' /\ Order' /\ Mirror' /\ Locks' /\ Halfway' /\ Keyless'
  BY StampedType, StampedOrder, StampedHalfway DEF Inv
<1>2. failures' = 0 /\ ~torn' => failures = 0 /\ ~torn
  BY DEF Inv, TypeOK, Stamped
<1>3. failures' = 0 /\ ~torn' => Clean'
  BY <1>2, StampedClean DEF Inv
<1> QED BY <1>1, <1>3 DEF Inv

\* The commands that change records are such changes.
LEMMA AddStamps ==
    ASSUME TypeOK, Halfway, NEW t \in Thread, Add(t)
    PROVE  \E which \in SUBSET Id : Stamped(which) /\ Turns(which)
<1> DEFINE i == task[t].id
<1>1. i \in Id /\ disk[i] = Absent /\ task[t].at = "add" /\ Current = disk
  BY CurrentIsDisk, TypeFacts, TaskFacts DEF Add, Halfway
<1>2. now \in Nat /\ failures \in Nat /\ now' = now + 1 /\ now' \in Nat
  BY DEF TypeOK, Add, Stamps
<1>3. task' = [task EXCEPT ![t] = Idle] /\ Idle \in Task
  BY DEF Add, Does, Task
<1>4. Turns({}) /\ UNCHANGED <<ring, keyring, server, version, sync, typed, torn, secrets_lock>>
  BY <1>1, <1>3 DEF Add, Turns, TypeOK, watched
<1>6. PICK open \in BOOLEAN :
         LET recs == [Current EXCEPT ![i] = [Absent EXCEPT !.updated_at = now', !.auth = TRUE, !.open = open]]
         IN  Write(recs) \/ Refuse(recs)
  BY DEF Add
<1> DEFINE r == [Absent EXCEPT !.updated_at = now', !.auth = TRUE, !.open = open]
<1>7. r \in Written /\ r.updated_at = now' /\ ~r.deleted
  <2>1. Absent \in [updated_at : Int, deleted : {FALSE}, auth : BOOLEAN, folder_id : Place, open : BOOLEAN]
    BY DEF Absent, Place
  <2> QED BY <1>2, <2>1 DEF Written
<1> HIDE DEF r
<1>8. CASE Write([disk EXCEPT ![i] = r])
  <2>1. disk' = [disk EXCEPT ![i] = r] /\ cache' = disk' /\ failures' = failures
    BY <1>8 DEF Write
  <2>2. Stamped({i})
    BY <1>1, <1>2, <1>4, <1>7, <2>1, AbsentIs DEF Stamped, TypeOK, Config
  <2>3. Turns({i})
    BY <1>1, <1>3, <1>4, <1>7, <2>1 DEF Turns, TypeOK
  <2> QED BY <1>1, <2>2, <2>3
<1>9. CASE Refuse([disk EXCEPT ![i] = r])
  <2>1. disk' = disk /\ cache' = Uncached /\ failures' = failures + 1
    BY <1>9 DEF Refuse, Fault
  <2>2. Stamped({})
    BY <1>2, <1>4, <2>1 DEF Stamped, TypeOK
  <2> QED BY <1>4, <2>2
<1> QED BY <1>1, <1>6, <1>8, <1>9 DEF r

LEMMA UpdateStamps ==
    ASSUME TypeOK, Order, NEW t \in Thread, UpdateRecord(t), now' # now
    PROVE  \E which \in SUBSET Id : Stamped(which) /\ Turns(which)
<1> DEFINE k == task[t]
           i == k.id
           r == Edited(k, now')
           n == [k EXCEPT !.at = "secret", !.stamp = now']
<1>0. k.at = "edit"
  BY DEF UpdateRecord
<1>1. /\ i \in Id /\ Current = disk
      /\ k \in [at : {"edit", "secret"}, id : Id, auth : BOOLEAN, secret : Known, folder_id : Place,
                open : BOOLEAN, stamp : Nat]
  BY <1>0, CurrentIsDisk, TypeFacts, TaskFacts
<1>2. now \in Nat /\ failures \in Nat /\ now' = now + 1 /\ now' \in Nat /\ IsLive(disk[i]) /\ secrets_lock = None
  BY <1>1 DEF TypeOK, UpdateRecord, Stamps
<1>3. UNCHANGED <<ring, keyring, server, version, sync, torn>>
  BY DEF UpdateRecord
<1>4. r \in Written /\ r.updated_at = now' /\ ~r.deleted
  BY <1>1, <1>2 DEF Edited, Written
<1>5. n \in Task /\ n.at = "secret" /\ n.id = i /\ n.stamp = now' /\ n.auth = k.auth /\ n.secret = k.secret
  BY <1>1, <1>2 DEF Task
<1> HIDE DEF r, n
<1>6. CASE /\ Write([disk EXCEPT ![i] = r]) /\ Does(t, n) /\ secrets_lock' = t
           /\ IF k.auth /\ k.secret = None THEN StaysTyped({i}) ELSE UNCHANGED typed
  <2>1. disk' = [disk EXCEPT ![i] = r] /\ cache' = disk' /\ failures' = failures /\ task' = [task EXCEPT ![t] = n]
    BY <1>6 DEF Write, Does
  <2>2. /\ typed' \in [Id -> TypedState]
        /\ \A j \in Id : typed'[j] = typed[j] \/
             /\ j = i /\ typed[j].updated_at = disk[j].updated_at /\ k.auth /\ k.secret = None
             /\ typed'[j].updated_at = now' /\ typed'[j].secret = typed[j].secret
    <3>1. typed \in [Id -> TypedState]
      BY DEF TypeOK
    <3>2. CASE k.auth /\ k.secret = None
      <4>1. typed' = [j \in Id |-> IF j = i /\ typed[j].updated_at = disk[j].updated_at
                                   THEN [typed[j] EXCEPT !.updated_at = now'] ELSE typed[j]]
        BY <1>1, <1>6, <3>2 DEF StaysTyped
      <4>2. \A j \in Id : [typed[j] EXCEPT !.updated_at = now'] \in TypedState
                          /\ [typed[j] EXCEPT !.updated_at = now'].updated_at = now'
                          /\ [typed[j] EXCEPT !.updated_at = now'].secret = typed[j].secret
        BY <1>2, <3>1 DEF TypedState
      <4> QED BY <3>1, <3>2, <4>1, <4>2
    <3>3. CASE ~(k.auth /\ k.secret = None)
      BY <1>6, <3>1, <3>3
    <3> QED BY <3>2, <3>3
  <2>3. Stamped({i})
    <3>1. disk' \in [Id -> Config] /\ \A j \in Id \ {i} : disk'[j] = disk[j]
      BY <1>4, <2>1 DEF TypeOK, Config
    <3>2. disk'[i].updated_at = now' /\ ~disk[i].deleted
      BY <1>1, <1>2, <1>4, <2>1 DEF IsLive, TypeOK
    <3> QED BY <1>2, <1>3, <2>1, <2>2, <3>1, <3>2 DEF Stamped
  <2>4. Turns({i})
    <3>1. task' \in [Thread -> Task] /\ task'[t] = n /\ \A u \in Thread \ {t} : task'[u] = task[u]
      BY <1>5, <2>1 DEF TypeOK
    <3>2. Retypes(n) => typed'[i] = typed[i]
      BY <1>1, <1>5, <2>2 DEF Retypes
    <3>3. ~disk'[i].deleted /\ disk[i] # Absent
      BY <1>1, <1>2, <1>4, <2>1 DEF IsLive, TypeOK
    <3> QED BY <1>0, <1>2, <1>5, <1>6, <3>1, <3>2, <3>3 DEF Turns
  <2> QED BY <1>1, <2>3, <2>4
<1>7. CASE Refuse([disk EXCEPT ![i] = r]) /\ Does(t, Idle) /\ UNCHANGED <<secrets_lock, typed>>
  <2>1. disk' = disk /\ cache' = Uncached /\ failures' = failures + 1 /\ task' = [task EXCEPT ![t] = Idle]
    BY <1>7 DEF Refuse, Fault, Does
  <2>2. Stamped({})
    BY <1>2, <1>3, <1>7, <2>1 DEF Stamped, TypeOK
  <2>3. Turns({})
    BY <1>0, <1>7, <2>1 DEF Turns, TypeOK, Task
  <2> QED BY <2>2, <2>3
<1> QED BY <1>1, <1>2, <1>6, <1>7 DEF UpdateRecord, r, n

LEMMA DeleteStamps ==
    ASSUME TypeOK, NEW t \in Thread, NEW i \in Id, DeleteRecord(t, i)
    PROVE  \E which \in SUBSET Id : Stamped(which) /\ Turns(which)
<1> DEFINE r == Emptied(now')
           n == [at |-> "forget", id |-> i]
<1>1. /\ Current = disk /\ IsLive(disk[i]) /\ secrets_lock = None /\ task[t] = Idle
      /\ now \in Nat /\ failures \in Nat /\ now' = now + 1 /\ now' \in Nat
  BY CurrentIsDisk DEF TypeOK, DeleteRecord, Stamps, LockSecrets
<1>2. UNCHANGED <<ring, keyring, server, version, sync, typed, torn>>
  BY DEF DeleteRecord, watched
<1>3. r \in Written /\ r.updated_at = now' /\ r.deleted
  <2>1. Absent \in [updated_at : Int, deleted : BOOLEAN, auth : BOOLEAN, folder_id : Place, open : BOOLEAN]
    BY DEF Absent, Place
  <2> QED BY <1>1, <2>1 DEF Written, Emptied
<1>4. n \in Task /\ n.at = "forget" /\ n.id = i
  BY DEF Task
<1> HIDE DEF r, n
<1>5. CASE Write([disk EXCEPT ![i] = r]) /\ LockSecrets(t) /\ Does(t, n)
  <2>1. /\ disk' = [disk EXCEPT ![i] = r] /\ cache' = disk' /\ failures' = failures
        /\ task' = [task EXCEPT ![t] = n] /\ secrets_lock' = t
    BY <1>5 DEF Write, Does, LockSecrets
  <2>2. Stamped({i})
    <3>1. disk' \in [Id -> Config] /\ \A j \in Id \ {i} : disk'[j] = disk[j]
      BY <1>3, <2>1 DEF TypeOK, Config
    <3>2. disk'[i].updated_at = now' /\ ~disk[i].deleted
      BY <1>1, <1>3, <2>1 DEF IsLive, TypeOK
    <3> QED BY <1>1, <1>2, <2>1, <3>1, <3>2 DEF Stamped, TypeOK
  <2>3. Turns({i})
    <3>1. task' \in [Thread -> Task] /\ task'[t] = n /\ \A u \in Thread \ {t} : task'[u] = task[u]
      BY <1>4, <2>1 DEF TypeOK
    <3>2. disk'[i].deleted /\ disk[i] # Absent
      BY <1>1, <1>3, <2>1 DEF IsLive, TypeOK
    <3>3. Forgotten(i)'
      BY <1>4, <3>1 DEF Forgotten
    <3> QED BY <1>1, <1>4, <2>1, <3>1, <3>2, <3>3 DEF Turns, Idle
  <2> QED BY <2>2, <2>3
<1>6. CASE Refuse([disk EXCEPT ![i] = r]) /\ UNCHANGED cmdVars
  <2>1. disk' = disk /\ cache' = Uncached /\ failures' = failures + 1 /\ UNCHANGED <<task, secrets_lock>>
    BY <1>6 DEF Refuse, Fault, cmdVars
  <2>2. Stamped({}) /\ Turns({})
    BY <1>1, <1>2, <2>1 DEF Stamped, Turns, TypeOK
  <2> QED BY <2>2
<1> QED BY <1>1, <1>5, <1>6 DEF DeleteRecord, r, n

LEMMA EditStamps ==
    ASSUME TypeOK, NEW which \in SUBSET Id, NEW folder \in Place, EditWhere(which, folder)
    PROVE  \E w \in SUBSET Id : Stamped(w) /\ Turns(w)
<1> DEFINE recs == [i \in Id |-> IF i \in which THEN [disk[i] EXCEPT !.updated_at = now', !.folder_id = folder]
                                 ELSE disk[i]]
<1>1. /\ Current = disk /\ \A i \in which : IsLive(disk[i])
      /\ now \in Nat /\ failures \in Nat /\ now' = now + 1 /\ now' \in Nat
  <2> HIDE DEF recs
  <2>1. Current = disk
    BY CurrentIsDisk
  <2>2. (\A i \in which : IsLive(Current[i])) /\ now' = now + 1
    BY DEF EditWhere, Stamps
  <2>3. now \in Nat /\ failures \in Nat
    BY DEF TypeOK
  <2> QED BY <2>1, <2>2, <2>3
<1>2. UNCHANGED <<ring, keyring, server, version, sync, torn, task, secrets_lock>>
  BY DEF EditWhere, cmdVars
<1>3. \A i \in which : /\ [disk[i] EXCEPT !.updated_at = now', !.folder_id = folder] \in Written
                       /\ [disk[i] EXCEPT !.updated_at = now', !.folder_id = folder].updated_at = now'
                       /\ ~[disk[i] EXCEPT !.updated_at = now', !.folder_id = folder].deleted
  <2> SUFFICES ASSUME NEW i \in which
               PROVE  /\ [disk[i] EXCEPT !.updated_at = now', !.folder_id = folder] \in Written
                      /\ [disk[i] EXCEPT !.updated_at = now', !.folder_id = folder].updated_at = now'
                      /\ ~[disk[i] EXCEPT !.updated_at = now', !.folder_id = folder].deleted
    OBVIOUS
  <2>1. disk[i] \in Written /\ ~disk[i].deleted
    BY <1>1 DEF TypeOK, IsLive, Config
  <2> QED BY <1>1, <2>1 DEF Written
<1>4. CASE Write(recs) /\ StaysTyped(which)
  <2>1. disk' = recs /\ cache' = disk' /\ failures' = failures
    BY <1>4 DEF Write
  <2>2. typed' = [i \in Id |-> IF i \in which /\ typed[i].updated_at = disk[i].updated_at
                               THEN [typed[i] EXCEPT !.updated_at = now'] ELSE typed[i]]
    BY <1>1, <1>4 DEF StaysTyped
  <2>3. \A i \in Id : /\ [typed[i] EXCEPT !.updated_at = now'] \in TypedState
                      /\ [typed[i] EXCEPT !.updated_at = now'].updated_at = now'
                      /\ [typed[i] EXCEPT !.updated_at = now'].secret = typed[i].secret
    BY <1>1 DEF TypeOK, TypedState
  <2>4. typed' \in [Id -> TypedState]
    BY <2>2, <2>3 DEF TypeOK
  <2>5. disk' \in [Id -> Config]
    BY <1>3, <2>1 DEF TypeOK, Config
  <2>6. \A i \in which : disk'[i].updated_at = now' /\ ~disk'[i].deleted /\ ~disk[i].deleted /\ disk[i] # Absent
    BY <1>1, <1>3, <2>1 DEF IsLive
  <2>7. \A i \in Id \ which : disk'[i] = disk[i]
    BY <2>1
  <2>8. \A i \in Id : \/ typed'[i] = typed[i]
                      \/ /\ i \in which /\ IsLive(disk[i]) /\ typed[i].updated_at = disk[i].updated_at
                         /\ typed'[i].updated_at = now' /\ typed'[i].secret = typed[i].secret
    BY <1>1, <2>2, <2>3
  <2>9. Stamped(which)
    <3> HIDE DEF recs
    <3>1. now' = now + 1 /\ failures' >= failures /\ failures' \in Nat /\ cache' \in {Uncached, disk'}
      BY <1>1, <2>1
    <3> QED BY <1>2, <2>4, <2>5, <2>6, <2>7, <2>8, <3>1 DEF Stamped
  <2>10. Turns(which)
    BY <1>2, <2>6 DEF Turns, TypeOK
  <2> QED BY <2>9, <2>10
<1>5. CASE Refuse(recs) /\ UNCHANGED typed
  <2> HIDE DEF recs
  <2>1. disk' = disk /\ cache' = Uncached /\ failures' = failures + 1
    BY <1>5 DEF Refuse, Fault
  <2>2. Stamped({})
    <3>1. failures' >= failures /\ failures' \in Nat
      BY <1>1, <2>1
    <3>2. disk' \in [Id -> Config] /\ typed' \in [Id -> TypedState]
      BY <1>5, <2>1 DEF TypeOK
    <3> QED BY <1>1, <1>2, <1>5, <2>1, <3>1, <3>2 DEF Stamped
  <2>3. Turns({})
    BY <1>2 DEF Turns, TypeOK
  <2> QED BY <2>2, <2>3
<1> QED BY <1>1, <1>4, <1>5 DEF EditWhere

-----------------------------------------------------------------------------
(* Changes of the commands that stamp no record. *)

\* Nothing changes but which connections are open, what is cached, and the commands that
\* hold nothing.
Quiet ==
    /\ failures' >= failures /\ failures' \in Nat
    /\ disk' \in [Id -> Config] /\ cache' \in {Uncached, disk'}
    /\ \A i \in Id : disk'[i].updated_at = disk[i].updated_at /\ disk'[i].deleted = disk[i].deleted
    /\ task' \in [Thread -> Task]
    /\ \A t \in Thread : \/ task'[t] = task[t]
                         \/ task[t].at \in {"idle", "edit"} /\ task'[t].at \in {"idle", "edit"}
    /\ UNCHANGED <<now, ring, keyring, server, version, sync, secrets_lock, typed, torn>>

LEMMA QuietInv ==
    ASSUME NamesAssumption, Inv, Quiet
    PROVE  Inv'
<1> USE DEF Quiet
<1>1. TypeOK'
  BY DEF Inv, TypeOK
<1>2. \A i \in Id : Shares(i)' = Shares(i)
  BY DEF Shares
<1>3. \A i \in Id : (disk'[i] = Absent <=> disk[i] = Absent) /\ (IsLive(disk'[i]) <=> IsLive(disk[i]))
  BY ConfigFacts DEF Inv, TypeOK
<1>4. \A i \in Id : Lasts(i)' <=> Lasts(i)
  BY DEF Lasts
<1>5. \A t \in Thread : task[t].at \in {"add", "secret", "forget"} \/ task'[t].at \in {"add", "secret", "forget"}
                          => task'[t] = task[t]
  OBVIOUS
<1>6. \A i \in Id : Forgotten(i)' <=> Forgotten(i)
  BY <1>5 DEF Forgotten
<1>7. \A t \in Thread : task[t].at # "idle" => task[t].id \in Id
  BY TypeFacts, TaskFacts DEF Inv
<1>8. Order'
  BY <1>2, <1>3 DEF Order, Inv
<1>9. Mirror' /\ Keyless'
  BY DEF Mirror, Keyless, Inv
<1>10. Locks'
  BY <1>5 DEF Locks, Inv
<1>11. Halfway'
  <2> SUFFICES ASSUME NEW t \in Thread
               PROVE  /\ task'[t].at = "add" =>
                           /\ disk'[task'[t].id] = Absent
                           /\ \A u \in Thread : task'[u].at = "add" /\ task'[u].id = task'[t].id => u = t
                      /\ task'[t].at = "secret" =>
                           /\ IsLive(disk'[task'[t].id]) /\ task'[t].stamp <= disk'[task'[t].id].updated_at
                           /\ Retypes(task'[t]) =>
                                typed[task'[t].id].updated_at < disk'[task'[t].id].updated_at
                      /\ task'[t].at = "forget" => disk'[task'[t].id].deleted
    BY DEF Halfway, Retypes
  <2>1. task'[t].at \in {"add", "secret", "forget"} => task'[t] = task[t] /\ task[t].id \in Id
    BY <1>5, <1>7
  <2>2. Halfway
    BY DEF Inv
  <2> QED BY <1>3, <1>5, <2>1, <2>2 DEF Halfway
<1>12. ASSUME Clean
       PROVE  Clean'
  <2>1. Fits' /\ Saves'
    BY <1>4, <1>6, <1>12, TypeFacts DEF Clean, Fits, Saves, Inv
  <2>2. Reads' /\ Agree'
    BY <1>2, <1>4, <1>12 DEF Clean, Reads, Agree
  <2>3. Untorn'
    BY <1>2, <1>5, <1>7, <1>12 DEF Clean, Untorn
  <2> QED BY <2>1, <2>2, <2>3 DEF Clean
<1>13. failures' = 0 /\ ~torn' => failures = 0 /\ ~torn
  BY DEF Inv, TypeOK
<1> QED BY <1>1, <1>8, <1>9, <1>10, <1>11, <1>12, <1>13 DEF Inv

LEMMA FindIsQuiet ==
    ASSUME TypeOK, NEW t \in Thread, NEW i \in Id, FindForEdit(t, i)
    PROVE  Quiet
<1>1. Current = disk /\ task[t] = Idle /\ disk[i] \in Config
  BY CurrentIsDisk DEF FindForEdit, TypeOK
<1>2. PICK auth \in BOOLEAN, secret \in Known :
        Does(t, [at |-> "edit", id |-> i, auth |-> auth, secret |-> secret, folder_id |-> disk[i].folder_id,
                 open |-> disk[i].open \/ disk[i].deleted, stamp |-> 0])
  BY <1>1 DEF FindForEdit, Known
<1> DEFINE n == [at |-> "edit", id |-> i, auth |-> auth, secret |-> secret, folder_id |-> disk[i].folder_id,
                 open |-> disk[i].open \/ disk[i].deleted, stamp |-> 0]
<1>3. n \in Task /\ n.at = "edit"
  <2>1. disk[i].folder_id \in Place /\ (disk[i].open \/ disk[i].deleted) \in BOOLEAN
    BY <1>1, ConfigFacts
  <2> QED BY <2>1 DEF Task
<1> HIDE DEF n
<1>4. task' = [task EXCEPT ![t] = n]
  BY <1>2 DEF Does, n
<1>5. task' \in [Thread -> Task] /\ task'[t] = n /\ \A u \in Thread \ {t} : task'[u] = task[u]
  BY <1>3, <1>4 DEF TypeOK
<1>6. UNCHANGED <<now, disk, ring, keyring, server, version, sync, secrets_lock, failures, typed, torn>> /\ cache' = disk
  BY <1>1 DEF FindForEdit, watched
<1> QED BY <1>1, <1>3, <1>5, <1>6 DEF Quiet, TypeOK, Idle

\* An edit of a connection deleted meanwhile ends without a change.
LEMMA UpdateIsQuiet ==
    ASSUME TypeOK, NEW t \in Thread, UpdateRecord(t), now' = now
    PROVE  Quiet
<1>1. ~Stamps /\ task[t].at = "edit"
  BY DEF Stamps, TypeOK, UpdateRecord
<1>2. Does(t, Idle) /\ UNCHANGED <<now, disk, cache, secrets_lock, failures, typed, ring, keyring, server, version, sync, torn>>
  BY <1>1 DEF UpdateRecord, storeVars
<1>3. task' \in [Thread -> Task] /\ task'[t] = Idle /\ \A u \in Thread \ {t} : task'[u] = task[u]
  BY <1>2 DEF TypeOK, Does, Task
<1> QED BY <1>1, <1>2, <1>3 DEF Quiet, TypeOK, Idle

LEMMA SetOpenIsQuiet ==
    ASSUME TypeOK, NEW i \in Id, SetOpen(i)
    PROVE  Quiet
<1> DEFINE r == [disk[i] EXCEPT !.open = ~@]
<1>1. Current = disk /\ disk[i] \in Config /\ disk[i] # Absent
  BY CurrentIsDisk DEF SetOpen, TypeOK, IsLive
<1>2. r \in Config /\ r.updated_at = disk[i].updated_at /\ r.deleted = disk[i].deleted
  BY <1>1, ConfigFacts, Opened
<1>3. [disk EXCEPT ![i].open = ~@] = [disk EXCEPT ![i] = r]
  OBVIOUS
<1> HIDE DEF r
<1>4. UNCHANGED <<now, ring, keyring, server, version, sync, secrets_lock, typed, torn, task>>
  BY DEF SetOpen, cmdVars, watched
<1>5. CASE Write([disk EXCEPT ![i] = r])
  <2>1. disk' = [disk EXCEPT ![i] = r] /\ cache' = disk' /\ failures' = failures
    BY <1>5 DEF Write
  <2>2. disk' \in [Id -> Config] /\ disk'[i] = r /\ \A j \in Id \ {i} : disk'[j] = disk[j]
    BY <1>2, <2>1 DEF TypeOK
  <2> QED BY <1>2, <1>4, <2>1, <2>2 DEF Quiet, TypeOK
<1>6. CASE Refuse([disk EXCEPT ![i] = r])
  BY <1>4, <1>6 DEF Quiet, TypeOK, Refuse, Fault
<1> QED BY <1>1, <1>3, <1>5, <1>6 DEF SetOpen

\* The secrets of a connection that is not here yet.
LEMMA NewSecretsInv ==
    ASSUME NamesAssumption, Inv, NEW t \in Thread, NEW i \in Id, NewSecrets(t, i)
    PROVE  Inv'
<1> DEFINE n == [at |-> "add", id |-> i, auth |-> TRUE]
<1>1. Current = disk /\ disk[i] = Absent /\ ring[i] = None /\ task[t] = Idle
  BY CurrentIsDisk DEF NewSecrets, Inv
<1>2. PICK secret \in SecretsFrom(i) :
        (secret # None => keyring) /\ ring' = [ring EXCEPT ![i] = secret] /\ Does(t, n)
  BY DEF NewSecrets
<1>3. secret \in Known
  BY DEF SecretsFrom, Known, Inv, TypeOK
<1>4. n \in Task /\ n.at = "add" /\ n.id = i
  BY DEF Task
<1> HIDE DEF n
<1>5. /\ UNCHANGED <<now, disk, cache, keyring, server, version, sync, secrets_lock, failures, typed, torn>>
      /\ task' = [task EXCEPT ![t] = n]
  BY <1>2 DEF NewSecrets, storeVars, watched, Does
<1>6. task' \in [Thread -> Task] /\ task'[t] = n /\ \A u \in Thread \ {t} : task'[u] = task[u]
  BY <1>4, <1>5 DEF Inv, TypeOK
<1>7. ring' \in [Id -> Known] /\ ring'[i] = secret /\ \A j \in Id \ {i} : ring'[j] = ring[j]
  BY <1>2, <1>3 DEF Inv, TypeOK
<1>8. TypeOK'
  BY <1>5, <1>6, <1>7 DEF Inv, TypeOK
<1>9. \A j \in Id : Shares(j)' = Shares(j) /\ (Lasts(j)' <=> Lasts(j))
  BY <1>5 DEF Shares, Lasts
<1>10. disk[i].updated_at = -1 /\ ~disk[i].deleted /\ ~Lasts(i)
  <2>1. typed[i].updated_at \in Nat \cup {-2}
    BY DEF Inv, TypeOK, TypedState
  <2> QED BY <1>1, <2>1, AbsentIs DEF Lasts
<1>11. Order' /\ Mirror'
  BY <1>5, <1>9 DEF Order, Mirror, Inv
<1>12. task[t].at = "idle"
  BY <1>1 DEF Idle
<1>13. Locks'
  BY <1>4, <1>5, <1>6, <1>12 DEF Locks, Inv
<1>14. Halfway'
  <2> SUFFICES ASSUME NEW u \in Thread
               PROVE  /\ task'[u].at = "add" =>
                           /\ disk[task'[u].id] = Absent
                           /\ \A w \in Thread : task'[w].at = "add" /\ task'[w].id = task'[u].id => w = u
                      /\ task'[u].at = "secret" =>
                           /\ IsLive(disk[task'[u].id]) /\ task'[u].stamp <= disk[task'[u].id].updated_at
                           /\ Retypes(task'[u]) =>
                                typed[task'[u].id].updated_at < disk[task'[u].id].updated_at
                      /\ task'[u].at = "forget" => disk[task'[u].id].deleted
    BY <1>5 DEF Halfway, Retypes
  <2>1. \A w \in Thread : task[w].at = "add" => task[w].id # i
    BY DEF NewSecrets, Idle
  <2>2. Halfway
    BY DEF Inv
  <2>3. CASE u = t
    BY <1>1, <1>4, <1>6, <2>1, <2>3
  <2>4. CASE u # t
    <3>1. task'[u] = task[u]
      BY <1>6, <2>4
    <3>2. task'[u].at = "add" => \A w \in Thread : task'[w].at = "add" /\ task'[w].id = task'[u].id => w = u
      BY <1>4, <1>6, <2>1, <2>2, <3>1 DEF Halfway
    <3> QED BY <2>2, <3>1, <3>2 DEF Halfway
  <2> QED BY <2>3, <2>4
<1>15. Keyless'
  BY <1>1, <1>2, <1>5, <1>7 DEF Keyless, Inv
<1>16. ASSUME Clean
       PROVE  Clean'
  <2>1. \A j \in Id : Forgotten(j) => Forgotten(j)'
    BY <1>6, <1>12 DEF Forgotten
  <2>2. Fits'
    BY <1>5, <1>7, <1>9, <1>10, <1>16, <2>1 DEF Clean, Fits
  <2>3. Saves'
    BY <1>5, <1>9, <1>16, TypeFacts DEF Clean, Saves, Inv
  <2>4. Reads'
    <3> SUFFICES ASSUME sync.at \in {"upload", "write"}, keyring, NEW j \in Id, IsLive(sync.before[j].config),
                        sync.before[j].config.updated_at = disk[j].updated_at
                 PROVE  sync.before[j].secrets = ring'[j]
      BY <1>5 DEF Reads
    <3>1. sync.before[j].config \in Config
      BY TypeFacts, EntryFacts DEF Inv
    <3>2. j # i
      BY <1>10, <3>1, ConfigFacts
    <3> QED BY <1>7, <1>16, <3>2 DEF Clean, Reads
  <2>5. Agree' /\ Untorn'
    BY <1>4, <1>5, <1>6, <1>9, <1>16, TypeFacts, TaskFacts DEF Clean, Agree, Untorn, Inv
  <2> QED BY <2>2, <2>3, <2>4, <2>5 DEF Clean
<1> QED BY <1>5, <1>8, <1>11, <1>13, <1>14, <1>15, <1>16 DEF Inv

\* A command under the secrets lock is the only one there, and no sync is saving.
LEMMA HolderFacts ==
    ASSUME NamesAssumption, Inv, NEW t \in Thread, task[t].at \in {"secret", "forget"}
    PROVE  /\ secrets_lock = t /\ sync.at # "save" /\ sync.todo = {}
           /\ \A u \in Thread \ {t} : task[u].at \notin {"secret", "forget"}
BY DEF Inv, Locks, Mirror, NamesAssumption

\* Its end, after which nobody is between two writes.
LEMMA HolderEnds ==
    ASSUME NamesAssumption, Inv, NEW t \in Thread, task[t].at \in {"secret", "forget"},
           UnlockSecrets(t), Does(t, Idle), UNCHANGED <<disk, sync>>
    PROVE  /\ task' \in [Thread -> Task] /\ secrets_lock' \in Thread \cup {None, Sync}
           /\ Locks' /\ Halfway' /\ Untorn' /\ Saves'
           /\ \A i \in Id : Forgotten(i) => task[t].at = "forget" /\ task[t].id = i
<1>1. task' = [task EXCEPT ![t] = Idle] /\ secrets_lock' = None
  BY DEF Does, UnlockSecrets
<1>2. task' \in [Thread -> Task] /\ task'[t] = Idle /\ \A u \in Thread \ {t} : task'[u] = task[u]
  BY <1>1 DEF Inv, TypeOK, Task
<1>3. \A u \in Thread : task'[u].at \notin {"secret", "forget"}
  BY <1>2, HolderFacts DEF Idle
<1>4. Locks'
  BY <1>1, <1>3, HolderFacts DEF Locks, NamesAssumption
<1>5. Halfway'
  <2>1. \A u \in Thread : task'[u].at = "add" => task'[u] = task[u]
    BY <1>2 DEF Idle
  <2>2. \A u \in Thread : task'[u].at = "add" => disk[task'[u].id] = Absent /\
          \A w \in Thread : task'[w].at = "add" /\ task'[w].id = task'[u].id => w = u
    BY <2>1 DEF Inv, Halfway
  <2> QED BY <1>3, <2>2 DEF Halfway
<1>6. Untorn' /\ Saves'
  BY <1>3, HolderFacts DEF Untorn, Saves
<1>7. \A i \in Id : Forgotten(i) => task[t].at = "forget" /\ task[t].id = i
  BY HolderFacts DEF Forgotten
<1> QED BY <1>1, <1>2, <1>4, <1>5, <1>6, <1>7

\* The secret an edit leaves is the one it typed.
LEMMA UpdateSecretInv ==
    ASSUME NamesAssumption, Inv, NEW t \in Thread, UpdateSecret(t)
    PROVE  Inv'
<1> DEFINE k == task[t]
           i == k.id
           new == IF ~k.auth THEN None ELSE IF k.secret = None THEN ring[i] ELSE k.secret
<1>1. /\ k.at = "secret" /\ Current = disk /\ i \in Id /\ k.auth \in BOOLEAN /\ k.secret \in Known /\ k.stamp \in Nat
  <2>1. k.at = "secret" /\ k \in Task
    BY TypeFacts DEF UpdateSecret, Inv
  <2> QED BY <2>1, TaskFacts, CurrentIsDisk DEF Inv
<1>2. /\ IsLive(disk[i]) /\ k.stamp <= disk[i].updated_at
      /\ Retypes(k) => typed[i].updated_at < disk[i].updated_at
  BY <1>1 DEF Inv, Halfway
<1>3. disk[i] \in Config /\ disk[i].updated_at \in Nat /\ ~disk[i].deleted
  BY <1>1, <1>2, ConfigFacts DEF Inv, TypeOK
<1>4. UNCHANGED <<now, disk, cache, keyring, server, version, sync, torn>>
      /\ UnlockSecrets(t) /\ Does(t, Idle)
  BY DEF UpdateSecret, storeVars
<1>5. /\ task' \in [Thread -> Task] /\ secrets_lock' \in Thread \cup {None, Sync}
      /\ Locks' /\ Halfway' /\ Untorn' /\ Saves'
      /\ \A j \in Id : ~Forgotten(j)
  BY <1>1, <1>4, HolderEnds
<1>6. new \in Known
  BY <1>1 DEF Known, Inv, TypeOK
<1> HIDE DEF new
<1>7. \/ /\ (k.auth /\ k.secret # None) => keyring
         /\ ring' = [ring EXCEPT ![i] = IF keyring THEN new ELSE @] /\ failures' = failures
         /\ typed' = IF Retypes(k) THEN [typed EXCEPT ![i] = [updated_at |-> disk[i].updated_at, secret |-> new]]
                     ELSE typed
      \/ failures' = failures + 1 /\ ring' = ring /\ typed' = typed
  BY <1>1 DEF UpdateSecret, Fault, Retypes, new
<1>8. failures' \in Nat /\ (failures' = 0 => failures = 0)
  BY <1>7 DEF Inv, TypeOK
<1>9. /\ ring' \in [Id -> Known] /\ typed' \in [Id -> TypedState]
      /\ \A j \in Id \ {i} : ring'[j] = ring[j] /\ typed'[j] = typed[j]
      /\ typed'[i] = typed[i] \/ typed'[i].updated_at = disk[i].updated_at
  <2>1. [updated_at |-> disk[i].updated_at, secret |-> new] \in TypedState
    BY <1>3, <1>6 DEF TypedState
  <2>2. typed \in [Id -> TypedState] /\ ring \in [Id -> Known]
    BY DEF Inv, TypeOK
  <2> QED BY <1>6, <1>7, <2>1, <2>2
<1>10. TypeOK'
  BY <1>4, <1>5, <1>8, <1>9 DEF Inv, TypeOK
<1>11. \A j \in Id : Shares(j)' = Shares(j)
  BY <1>4 DEF Shares
<1>12. Order' /\ Mirror'
  BY <1>3, <1>4, <1>9, <1>11 DEF Order, Mirror, Inv
<1>13. Keyless'
  <2> SUFFICES ASSUME ~keyring, NEW j \in Id
               PROVE  ring'[j] = None /\ typed'[j].secret = None
    BY <1>4 DEF Keyless
  <2>1. ring[j] = None /\ typed[j].secret = None
    BY DEF Inv, Keyless
  <2>2. ring'[j] = ring[j]
    BY <1>7, <1>9 DEF Inv, TypeOK
  <2>3. j = i /\ Retypes(k) /\ failures' = failures => new = None
    BY <1>7 DEF new, Retypes, Inv, TypeOK
  <2>4. typed'[j].secret \in {typed[j].secret, None}
    BY <1>7, <1>9, <2>3 DEF Inv, TypeOK
  <2> QED BY <2>1, <2>2, <2>4
<1>14. ASSUME Clean, failures' = 0
       PROVE  Clean'
  <2>1. /\ (k.auth /\ k.secret # None) => keyring
        /\ ring'[i] = IF keyring THEN new ELSE ring[i]
        /\ typed'[i] = IF Retypes(k) THEN [updated_at |-> disk[i].updated_at, secret |-> new] ELSE typed[i]
    BY <1>1, <1>7, <1>14 DEF Inv, TypeOK
  <2>2. sync.todo = {} /\ sync.at # "save"
    BY <1>1, HolderFacts
  <2>3. Fits'
    <3> SUFFICES ASSUME NEW j \in Id
                 PROVE  /\ disk[j].deleted => ring'[j] = None \/ Forgotten(j)'
                        /\ Lasts(j)' => ring'[j] = typed'[j].secret
      BY <1>4 DEF Fits
    <3>1. (disk[j].deleted => ring[j] = None) /\ (Lasts(j) => ring[j] = typed[j].secret)
      BY <1>5, <1>14, <2>2 DEF Clean, Fits
    <3>2. CASE j # i
      BY <1>4, <1>9, <3>1, <3>2 DEF Lasts
    <3>3. CASE j = i /\ ~Retypes(k)
      <4>1. typed'[i] = typed[i] /\ ring'[i] = ring[i]
        BY <2>1, <3>3 DEF new, Retypes
      <4> QED BY <1>3, <1>4, <3>1, <3>3, <4>1 DEF Lasts
    <3>4. CASE j = i /\ Retypes(k)
      <4>1. typed'[i].secret = new
        BY <2>1, <3>4
      <4>2. ~keyring => ring[i] = None /\ new = None
        BY <1>1, <2>1, <3>4 DEF Inv, Keyless, new, Retypes
      <4> QED BY <1>3, <2>1, <3>4, <4>1, <4>2
    <3> QED BY <3>2, <3>3, <3>4
  <2>4. Reads'
    <3> SUFFICES ASSUME sync.at \in {"upload", "write"}, keyring, NEW j \in Id, IsLive(sync.before[j].config),
                        sync.before[j].config.updated_at = disk[j].updated_at
                 PROVE  sync.before[j].secrets = ring'[j]
      BY <1>4 DEF Reads
    <3>1. j # i
      BY <1>1, <1>2, <1>3, <1>14 DEF Clean, Untorn
    <3> QED BY <1>9, <1>14, <3>1 DEF Clean, Reads
  <2>5. Agree'
    <3> SUFFICES ASSUME NEW j \in Id, NEW x \in Shares(j), keyring, ~x.config.deleted, Lasts(j)',
                        x.config.updated_at = disk[j].updated_at
                 PROVE  x.secrets = typed'[j].secret
      BY <1>4, <1>11 DEF Agree
    <3>1. j # i
      BY <1>1, <1>14 DEF Clean, Untorn
    <3> QED BY <1>4, <1>9, <1>14, <3>1 DEF Clean, Agree, Lasts
  <2> QED BY <1>5, <2>3, <2>4, <2>5 DEF Clean
<1> QED BY <1>4, <1>5, <1>8, <1>10, <1>12, <1>13, <1>14 DEF Inv

\* A deletion leaves none.
LEMMA DeleteSecretsInv ==
    ASSUME NamesAssumption, Inv, NEW t \in Thread, DeleteSecrets(t)
    PROVE  Inv'
<1> DEFINE i == task[t].id
<1>1. task[t].at = "forget" /\ i \in Id /\ disk[i].deleted
  BY TypeFacts, TaskFacts DEF DeleteSecrets, Inv, Halfway
<1>2. UNCHANGED <<now, disk, cache, keyring, server, version, sync, typed, torn>>
      /\ UnlockSecrets(t) /\ Does(t, Idle)
  BY DEF DeleteSecrets, storeVars, watched
<1>3. /\ task' \in [Thread -> Task] /\ secrets_lock' \in Thread \cup {None, Sync}
      /\ Locks' /\ Halfway' /\ Untorn' /\ Saves'
      /\ \A j \in Id : Forgotten(j) => j = i
  BY <1>1, <1>2, HolderEnds
<1>4. \/ ring' = [ring EXCEPT ![i] = None] /\ failures' = failures
      \/ ring' = ring /\ failures' = failures + 1
  BY DEF DeleteSecrets, Fault
<1>5. /\ failures' \in Nat /\ (failures' = 0 => failures = 0)
      /\ ring' \in [Id -> Known] /\ \A j \in Id : ring'[j] = ring[j] \/ (j = i /\ ring'[j] = None)
      /\ failures' = 0 => ring'[i] = None
  BY <1>1, <1>4 DEF Inv, TypeOK, Known
<1>6. TypeOK'
  BY <1>2, <1>3, <1>5 DEF Inv, TypeOK
<1>7. \A j \in Id : Shares(j)' = Shares(j) /\ (Lasts(j)' <=> Lasts(j)) /\ (j = i => ~Lasts(j))
  BY <1>1, <1>2 DEF Shares, Lasts
<1>8. Order' /\ Mirror' /\ Keyless'
  BY <1>2, <1>5, <1>7 DEF Order, Mirror, Keyless, Inv
<1>9. ASSUME Clean, failures' = 0
      PROVE  Clean'
  <2>1. sync.todo = {} /\ sync.at # "save"
    BY <1>1, HolderFacts
  <2>2. Fits'
    <3>1. \A j \in Id : /\ disk[j].deleted => ring'[j] = None
                        /\ Lasts(j) => ring'[j] = typed[j].secret
      BY <1>3, <1>5, <1>7, <1>9, <2>1 DEF Clean, Fits
    <3> QED BY <1>2, <1>7, <3>1 DEF Fits
  <2>3. Reads'
    <3> SUFFICES ASSUME sync.at \in {"upload", "write"}, keyring, NEW j \in Id, IsLive(sync.before[j].config),
                        sync.before[j].config.updated_at = disk[j].updated_at
                 PROVE  sync.before[j].secrets = ring'[j]
      BY <1>2 DEF Reads
    <3>1. j # i
      BY <1>1 DEF Inv, Mirror, IsLive
    <3> QED BY <1>5, <1>9, <3>1 DEF Clean, Reads
  <2>4. Agree'
    BY <1>2, <1>7, <1>9 DEF Clean, Agree
  <2> QED BY <1>3, <2>2, <2>3, <2>4 DEF Clean
<1> QED BY <1>2, <1>3, <1>5, <1>6, <1>8, <1>9 DEF Inv

\* What another device changes is new to everybody.
LEMMA OtherDeviceInv ==
    ASSUME NamesAssumption, Inv, NEW i \in Id, OtherDevice(i)
    PROVE  Inv'
<1>1. now \in Nat /\ now' = now + 1 /\ now' \in Nat /\ server[i].config # Absent
  BY DEF OtherDevice, Stamps, Inv, TypeOK
<1>2. UNCHANGED <<disk, cache, ring, keyring, task, secrets_lock, sync, failures, typed, torn>> /\ version' = version + 1
  BY DEF OtherDevice, storeVars, cmdVars, watched
<1>3. PICK e \in Entry : server' = [server EXCEPT ![i] = e] /\ e.config.updated_at = now' /\ e.config # Absent
  <2>1. PICK deleted \in BOOLEAN, secret \in Known \cup {Unknown} :
          server' = [server EXCEPT ![i] =
               IF deleted THEN [config |-> Emptied(now'), secrets |-> None]
               ELSE [config |-> [Absent EXCEPT !.updated_at = now', !.auth = TRUE], secrets |-> secret]]
    BY DEF OtherDevice, Known
  <2>2. Absent \in [updated_at : Int, deleted : {FALSE}, auth : BOOLEAN, folder_id : Place, open : BOOLEAN]
    BY DEF Absent, Place
  <2> DEFINE gone == Emptied(now')
             live == [Absent EXCEPT !.updated_at = now', !.auth = TRUE]
  <2>3. gone \in Written /\ gone.updated_at = now' /\ live \in Written /\ live.updated_at = now' /\ ~live.deleted
    BY <1>1, <2>2 DEF Emptied, Written
  <2> HIDE DEF gone, live
  <2>4. gone \in Config /\ live \in Config /\ IsLive(live) /\ gone # Absent /\ live # Absent /\ None \in Known
    BY <1>1, <2>3, AbsentIs DEF Config, IsLive, Known
  <2>5. [config |-> gone, secrets |-> None] \in Entry /\ [config |-> live, secrets |-> secret] \in Entry
    BY <2>4, EntryMade
  <2> QED BY <2>1, <2>3, <2>4, <2>5 DEF gone, live
<1>4. server' \in Copies /\ server'[i] = e /\ \A j \in Id \ {i} : server'[j] = server[j]
  BY <1>3 DEF Inv, TypeOK, Copies
<1>5. TypeOK'
  BY <1>1, <1>2, <1>4 DEF Inv, TypeOK
<1>6. \A j \in Id : \A x \in Shares(j)' : x \in Shares(j) \/ (j = i /\ x = e)
  BY <1>2, <1>4 DEF Shares
<1>7. \A j \in Id : /\ disk[j].updated_at \in Int /\ disk[j].updated_at <= now
                    /\ \A x \in Shares(j) \cup {sync.before[j]} : x.config.updated_at \in Int
  BY TypeFacts, EntryFacts, ConfigFacts DEF Inv, Order
<1>8. disk[i] # Absent
  BY <1>1 DEF Inv, Order, Shares
<1>9. Order'
  <2> SUFFICES ASSUME NEW j \in Id
               PROVE  /\ disk[j].updated_at <= now' /\ typed[j].updated_at <= disk[j].updated_at
                      /\ \A x \in Shares(j)' \cup {sync.before[j]} :
                             x.config.updated_at <= now' /\ (x.config # Absent => disk[j] # Absent)
    BY <1>2 DEF Order
  <2>1. /\ disk[j].updated_at <= now /\ typed[j].updated_at <= disk[j].updated_at
        /\ \A x \in Shares(j) \cup {sync.before[j]} :
               x.config.updated_at <= now /\ (x.config # Absent => disk[j] # Absent)
    BY DEF Inv, Order
  <2>2. \A n \in Int : n <= now => n <= now'
    BY <1>1
  <2> QED BY <1>1, <1>3, <1>6, <1>7, <1>8, <2>1, <2>2
<1>10. Mirror' /\ Locks' /\ Keyless'
  BY <1>2 DEF Mirror, Locks, Keyless, Inv
<1>11. Halfway'
  BY <1>2 DEF Halfway, Inv
<1>12. ASSUME Clean
       PROVE  Clean'
  <2>1. \A j \in Id : (Lasts(j)' <=> Lasts(j)) /\ (Forgotten(j)' <=> Forgotten(j))
    BY <1>2 DEF Lasts, Forgotten
  <2>2. Fits' /\ Saves' /\ Reads'
    BY <1>2, <1>12, <2>1, TypeFacts DEF Clean, Fits, Saves, Reads, Inv
  <2>3. \A j \in Id : \A x \in Shares(j)' : x.config.updated_at = disk[j].updated_at => x \in Shares(j)
    BY <1>1, <1>3, <1>6, <1>7
  <2>4. Agree'
    BY <1>2, <1>12, <2>1, <2>3 DEF Clean, Agree
  <2>5. Untorn'
    BY <1>2, <1>12, <2>3, TypeFacts, TaskFacts DEF Clean, Untorn, Inv
  <2> QED BY <2>2, <2>4, <2>5 DEF Clean
<1> QED BY <1>2, <1>5, <1>9, <1>10, <1>11, <1>12 DEF Inv

-----------------------------------------------------------------------------
(* The steps of a sync. *)

\* The order of the stamps, when a sync takes copies of what is here or of each other.
LEMMA CopiesOrder ==
    ASSUME TypeOK, Order, UNCHANGED <<now, disk, typed>>,
           \A i \in Id : \A x \in Shares(i)' \cup {sync'.before[i]} :
               /\ x.config \in Config
               /\ \/ x.config.updated_at \in {-1, disk[i].updated_at}
                  \/ \E y \in Shares(i) \cup {sync.before[i]} : x.config.updated_at = y.config.updated_at
    PROVE  Order'
<1> SUFFICES ASSUME NEW i \in Id, NEW x \in Shares(i)' \cup {sync'.before[i]}
             PROVE  x.config.updated_at <= now /\ (x.config # Absent => disk[i] # Absent)
  BY DEF Order
<1>1. disk[i] \in Config /\ disk[i].updated_at <= now /\ now \in Nat /\ x.config \in Config
  BY DEF TypeOK, Order
<1>2. CASE x.config.updated_at \in {-1, disk[i].updated_at}
  BY <1>1, <1>2, ConfigFacts
<1>3. ASSUME NEW y \in Shares(i) \cup {sync.before[i]}, x.config.updated_at = y.config.updated_at
      PROVE  x.config.updated_at <= now /\ (x.config # Absent => disk[i] # Absent)
  <2>1. y.config \in Config /\ y.config.updated_at <= now /\ (y.config # Absent => disk[i] # Absent)
    BY <1>3, TypeFacts, EntryFacts DEF Order
  <2> QED BY <1>1, <1>3, <2>1, ConfigFacts
<1> QED BY <1>2, <1>3

\* A step of the sync that adds no copy keeps what holds of the copies.
LEMMA FewerCopies ==
    ASSUME NamesAssumption, Inv, UNCHANGED <<now, disk, typed>>, sync' \in SyncState, server' \in Copies,
           \A i \in Id : /\ Shares(i)' \subseteq Shares(i) \cup {Empty[i]}
                         /\ sync'.before[i].config \in {Absent, disk[i], sync.before[i].config}
    PROVE  /\ Order'
           /\ Agree /\ UNCHANGED keyring => Agree'
           /\ Untorn => \A t \in Thread, i \in Id : task[t].at = "secret" /\ task[t].id = i =>
                \A x \in Shares(i)' : x.config.updated_at # disk[i].updated_at
<1>1. \A i \in Id : \A x \in Shares(i)' \cup {sync'.before[i]} :
               /\ x.config \in Config
               /\ \/ x.config.updated_at \in {-1, disk[i].updated_at}
                  \/ \E y \in Shares(i) \cup {sync.before[i]} : x.config.updated_at = y.config.updated_at
  <2> SUFFICES ASSUME NEW i \in Id, NEW x \in Shares(i)' \cup {sync'.before[i]}
               PROVE  /\ x.config \in Config
                      /\ \/ x.config.updated_at \in {-1, disk[i].updated_at}
                         \/ \E y \in Shares(i) \cup {sync.before[i]} : x.config.updated_at = y.config.updated_at
    OBVIOUS
  <2>1. x.config \in {Absent, disk[i]} \/ \E y \in Shares(i) \cup {sync.before[i]} : x.config = y.config
    BY EmptyCopies
  <2>2. disk[i] \in Config /\ \A y \in Shares(i) \cup {sync.before[i]} : y.config \in Config
    BY TypeFacts, EntryFacts DEF Inv
  <2> QED BY <2>1, <2>2, AbsentIs
<1>2. Order'
  BY <1>1, CopiesOrder DEF Inv
<1>3. \A i \in Id : typed[i].updated_at # -1 /\ (Lasts(i)' <=> Lasts(i))
  BY DEF Inv, TypeOK, TypedState, Lasts
<1>4. ASSUME Agree, UNCHANGED keyring
      PROVE  Agree'
  <2> SUFFICES ASSUME NEW i \in Id, NEW x \in Shares(i)', keyring, ~x.config.deleted, Lasts(i),
                      x.config.updated_at = disk[i].updated_at
               PROVE  x.secrets = typed[i].secret
    BY <1>3, <1>4 DEF Agree
  <2>1. x # Empty[i]
    BY <1>3, EmptyCopies, AbsentIs DEF Lasts
  <2> QED BY <1>4, <2>1 DEF Agree
<1>5. ASSUME Untorn, NEW t \in Thread, NEW i \in Id, task[t].at = "secret", task[t].id = i, NEW x \in Shares(i)'
      PROVE  x.config.updated_at # disk[i].updated_at
  <2>1. IsLive(disk[i]) /\ disk[i] \in Config
    BY <1>5, TypeFacts DEF Inv, Halfway
  <2>2. disk[i].updated_at # -1
    BY <2>1, ConfigFacts
  <2>3. \A y \in Shares(i) : y.config.updated_at # disk[i].updated_at
    BY <1>5 DEF Untorn
  <2> QED BY <1>5, <2>1, <2>2, <2>3, EmptyCopies, AbsentIs
<1> QED BY <1>2, <1>4, <1>5

\* NoSync, and a sync with nothing left to save.
LEMMA NoSyncFacts ==
    /\ NoSync \in SyncState /\ [NoSync EXCEPT !.at = "save"] \in SyncState
    /\ NoSync.at = "idle" /\ [NoSync EXCEPT !.at = "save"].at = "save"
    /\ \A s \in {NoSync, [NoSync EXCEPT !.at = "save"]} :
         s.todo = {} /\ s.remote = Empty /\ s.merged = Empty /\ s.before = Empty
<1>1. NoSync \in SyncState /\ NoSync.at = "idle"
      /\ NoSync.todo = {} /\ NoSync.remote = Empty /\ NoSync.merged = Empty /\ NoSync.before = Empty
  BY EmptyCopies DEF NoSync, SyncState
<1> HIDE DEF NoSync
<1> QED BY <1>1 DEF SyncState

\* A sync that gives up, or that has nothing to write.
LEMMA SyncDropsInv ==
    ASSUME NamesAssumption, Inv, sync' \in {NoSync, [NoSync EXCEPT !.at = "save"]},
           sync'.at = "save" <=> secrets_lock' = Sync,
           secrets_lock' \in {None, Sync} \cup Thread, cache' \in {Uncached, disk},
           failures' \in Nat, failures' >= failures,
           failures' > 0 \/ (sync.todo = {} /\ UNCHANGED <<task, torn>>),
           task' \in [Thread -> Task],
           \A t \in Thread : \/ task'[t] = task[t] /\ (secrets_lock' = t <=> secrets_lock = t)
                             \/ task'[t] = Idle /\ secrets_lock' # t,
           UNCHANGED <<now, disk, ring, keyring, server, version, typed, torn>>
    PROVE  Inv'
<1>1. sync' \in SyncState /\ sync'.todo = {} /\ sync'.at \in {"idle", "save"}
      /\ sync'.remote = Empty /\ sync'.merged = Empty /\ sync'.before = Empty
  BY NoSyncFacts
<1>2. TypeOK'
  BY <1>1 DEF Inv, TypeOK
<1>3. \A i \in Id : /\ Shares(i)' \subseteq Shares(i) \cup {Empty[i]}
                    /\ sync'.before[i].config \in {Absent, disk[i], sync.before[i].config}
  BY <1>1, EmptyCopies DEF Shares
<1>4. server' \in Copies
  BY <1>2 DEF TypeOK
<1>5. Order'
  BY <1>1, <1>3, <1>4, FewerCopies
<1>6. Mirror'
  BY <1>1 DEF Mirror
<1>7. Locks'
  <2>1. \A t \in Thread : secrets_lock' = t <=> task'[t].at \in {"secret", "forget"}
    BY DEF Inv, Locks, Idle
  <2> QED BY <2>1 DEF Locks
<1>8. Halfway'
  <2>1. \A t \in Thread : task'[t].at \in {"add", "secret", "forget"} => task'[t] = task[t]
    BY DEF Idle
  <2> QED BY <2>1 DEF Inv, Halfway, Retypes
<1>9. Keyless'
  BY DEF Inv, Keyless
<1>10. ASSUME Clean, failures' = 0
       PROVE  Clean'
  <2>1. sync.todo = {} /\ UNCHANGED <<task, torn>>
    BY <1>10
  <2>2. \A i \in Id : (Forgotten(i)' <=> Forgotten(i)) /\ (Lasts(i)' <=> Lasts(i))
    BY <2>1 DEF Forgotten, Lasts
  <2>3. Fits' /\ Saves' /\ Reads'
    BY <1>1, <1>10, <2>1, <2>2 DEF Clean, Fits, Saves, Reads
  <2>4. Agree'
    BY <1>1, <1>3, <1>4, <1>10, FewerCopies DEF Clean
  <2>5. \A t \in Thread, i \in Id : task[t].at = "secret" /\ task[t].id = i =>
          \A x \in Shares(i)' : x.config.updated_at # disk[i].updated_at
    BY <1>1, <1>3, <1>4, <1>10, FewerCopies DEF Clean
  <2>6. Untorn'
    BY <1>1, <2>1, <2>5, TypeFacts, TaskFacts DEF Untorn, Inv
  <2> QED BY <2>3, <2>4, <2>6 DEF Clean
<1>11. failures' = 0 => failures = 0
  BY DEF Inv, TypeOK
<1> QED BY <1>2, <1>5, <1>6, <1>7, <1>8, <1>9, <1>10, <1>11 DEF Inv

LEMMA CrashInv ==
    ASSUME NamesAssumption, Inv, Crash
    PROVE  Inv'
<1>1. failures' = failures + 1 /\ cache' = Uncached /\ sync' = NoSync /\ secrets_lock' = None
      /\ UNCHANGED <<now, disk, ring, keyring, server, version, typed, torn>>
  BY DEF Crash, Fault, watched
<1>2. failures \in Nat /\ failures' > 0
  BY <1>1 DEF Inv, TypeOK
<1>3. task' \in [Thread -> Task] /\ \A t \in Thread : task'[t] = Idle
  BY DEF Crash, Task
<1> QED BY <1>1, <1>2, <1>3, NoSyncFacts, SyncDropsInv DEF NamesAssumption

LEMMA SyncEndsInv ==
    ASSUME NamesAssumption, Inv, SyncEnds
    PROVE  Inv'
<1>1. sync.todo = {} /\ sync' = NoSync /\ secrets_lock = Sync /\ secrets_lock' = None
      /\ UNCHANGED <<now, disk, cache, ring, keyring, server, version, task, failures, typed, torn>>
  BY DEF SyncEnds, UnlockSecrets, Syncs, storeVars, watched
<1>2. failures \in Nat /\ cache \in {Uncached, disk} /\ task \in [Thread -> Task]
  BY DEF Inv, TypeOK
<1> QED BY <1>1, <1>2, NoSyncFacts, SyncDropsInv DEF NamesAssumption

LEMMA SyncRecordsInv ==
    ASSUME NamesAssumption, Inv, SyncRecords
    PROVE  Inv'
<1> DEFINE read == [i \in Id |-> [config |-> disk[i], secrets |-> None]]
           s == [NoSync EXCEPT !.at = "secrets", !.remote = server, !.version = version, !.before = read]
<1>1. Current = disk /\ sync.at = "idle" /\ sync.todo = {} /\ \A i \in Id : disk[i] \in Config
  BY CurrentIsDisk DEF SyncRecords, Inv, Mirror, TypeOK
<1>2. sync' = s /\ cache' = disk
      /\ UNCHANGED <<now, disk, ring, keyring, server, version, task, secrets_lock, failures, typed, torn>>
  BY <1>1 DEF SyncRecords, Syncs, cmdVars, watched
<1>3. read \in Copies /\ \A i \in Id : read[i].config = disk[i]
  BY <1>1, EntryMade DEF Copies, Known
<1> HIDE DEF read
<1>4. sync' \in SyncState /\ sync'.at = "secrets" /\ sync'.remote = server /\ sync'.before = read
      /\ sync'.merged = Empty /\ sync'.todo = {}
  <2>1. NoSync \in SyncState /\ NoSync.todo = {} /\ NoSync.merged = Empty
    BY NoSyncFacts
  <2>2. server \in Copies /\ version \in Nat
    BY DEF Inv, TypeOK
  <2> HIDE DEF NoSync
  <2> QED BY <1>2, <1>3, <2>1, <2>2 DEF SyncState
<1> HIDE DEF s
<1>5. TypeOK'
  BY <1>2, <1>4 DEF Inv, TypeOK
<1>6. \A i \in Id : /\ Shares(i)' \subseteq Shares(i) \cup {Empty[i]}
                    /\ sync'.before[i].config \in {Absent, disk[i], sync.before[i].config}
  BY <1>2, <1>3, <1>4 DEF Shares
<1>7. server' \in Copies
  BY <1>5 DEF TypeOK
<1>8. Order'
  BY <1>2, <1>4, <1>6, <1>7, FewerCopies
<1>9. Mirror'
  BY <1>1, <1>2, <1>3, <1>4, ConfigFacts DEF Mirror
<1>10. Locks' /\ Halfway' /\ Keyless'
  BY <1>1, <1>2, <1>4 DEF Inv, Locks, Halfway, Keyless
<1>11. ASSUME Clean
       PROVE  Clean'
  <2>1. \A i \in Id : (Forgotten(i)' <=> Forgotten(i)) /\ (Lasts(i)' <=> Lasts(i))
    BY <1>2 DEF Forgotten, Lasts
  <2>2. Fits' /\ Saves' /\ Reads'
    BY <1>1, <1>2, <1>4, <1>11, <2>1 DEF Clean, Fits, Saves, Reads
  <2>3. Agree'
    BY <1>2, <1>4, <1>6, <1>7, <1>11, FewerCopies DEF Clean
  <2>4. \A t \in Thread, i \in Id : task[t].at = "secret" /\ task[t].id = i =>
          \A x \in Shares(i)' : x.config.updated_at # disk[i].updated_at
    BY <1>2, <1>4, <1>6, <1>7, <1>11, FewerCopies DEF Clean
  <2>5. Untorn'
    BY <1>2, <1>4, <2>4, TypeFacts, TaskFacts DEF Untorn, Inv
  <2> QED BY <2>2, <2>3, <2>5 DEF Clean
<1> QED BY <1>2, <1>5, <1>8, <1>9, <1>10, <1>11 DEF Inv

\* The secrets read of each record, and the merge.
LEMMA SyncSecretsInv ==
    ASSUME NamesAssumption, Inv, SyncSecrets
    PROVE  Inv'
<1> DEFINE read == [i \in Id |-> Collect(sync.before[i].config, ring[i])]
           s == [sync EXCEPT !.at = "upload", !.before = read, !.merged = Merged(read, sync.remote)]
<1>1. sync.at = "secrets" /\ sync.todo = {} /\ sync \in SyncState /\ keyring \in BOOLEAN /\ secrets_lock # Sync
  BY DEF SyncSecrets, Inv, Mirror, Locks, TypeOK
<1>2. UNCHANGED <<now, disk, cache, ring, keyring, server, version, task, secrets_lock, typed>>
  BY DEF SyncSecrets, storeVars, cmdVars
<1>3. CASE Fault /\ Syncs(NoSync) /\ UNCHANGED torn
  <2>1. failures \in Nat /\ cache \in {Uncached, disk} /\ task \in [Thread -> Task]
        /\ secrets_lock \in {None, Sync} \cup Thread
    BY DEF Inv, TypeOK
  <2>2. failures' = failures + 1 /\ sync' = NoSync
    BY <1>3 DEF Fault, Syncs
  <2>3. failures' \in Nat /\ failures' >= failures /\ failures' > 0
    BY <2>1, <2>2
  <2>4. ~(sync'.at = "save")
    BY <2>2, NoSyncFacts
  <2>5. \A t \in Thread : task'[t] = task[t] /\ (secrets_lock' = t <=> secrets_lock = t)
    BY <1>2
  <2> QED BY <1>1, <1>2, <1>3, <2>1, <2>2, <2>3, <2>4, <2>5, SyncDropsInv
<1>4. CASE /\ Syncs(s) /\ UNCHANGED failures
           /\ torn' = (torn \/ \E t \in Thread : ReadWithoutSecret(t))
  <2>1. \A i \in Id : sync.before[i].config \in Config /\ ring[i] \in Known
    BY TypeFacts, EntryFacts DEF Inv
  <2>2. \A i \in Id : /\ read[i] \in Entry /\ read[i].config = sync.before[i].config
                      /\ IsLive(sync.before[i].config) /\ keyring => read[i].secrets = ring[i]
    BY <1>1, <2>1, CollectIs
  <2>3. read \in Copies /\ sync.remote \in Copies
    BY <1>1, <2>2 DEF Copies, SyncState
  <2> HIDE DEF read
  <2> DEFINE merged == Merged(read, sync.remote)
  <2>4. merged \in Copies
    <3>1. \A i \in Id : merged[i] \in Entry
      BY <2>3, MergedIs
    <3>2. merged = [i \in Id |-> merged[i]]
      BY DEF Merged
    <3> QED BY <3>1, <3>2 DEF Copies
  <2>5. \A i \in Id :
          /\ merged[i].config.updated_at >= read[i].config.updated_at
          /\ merged[i].config.updated_at \in {read[i].config.updated_at, sync.remote[i].config.updated_at}
          /\ merged[i].config.updated_at = read[i].config.updated_at =>
               merged[i].config.deleted = read[i].config.deleted
          /\ \A x \in Known :
               /\ ~merged[i].config.deleted
               /\ sync.remote[i].config.updated_at = merged[i].config.updated_at /\ ~sync.remote[i].config.deleted
                    => sync.remote[i].secrets = x
               /\ read[i].config.updated_at = merged[i].config.updated_at /\ ~read[i].config.deleted
                    => read[i].secrets = x
               => merged[i].secrets = x
    BY <2>3, MergedIs
  <2> HIDE DEF merged
  <2>6. /\ sync' \in SyncState /\ sync'.at = "upload" /\ sync'.before = read /\ sync'.merged = merged
        /\ sync'.remote = sync.remote /\ sync'.todo = {}
    BY <1>1, <1>4, <2>3, <2>4 DEF Syncs, SyncState, merged
  <2> HIDE DEF s
  <2>7. torn' \in BOOLEAN /\ (~torn' => ~torn /\ \A t \in Thread : ~ReadWithoutSecret(t))
    BY <1>4 DEF Inv, TypeOK
  <2>8. TypeOK'
    BY <1>2, <1>4, <2>6, <2>7 DEF Inv, TypeOK
  <2>9. \A i \in Id : /\ merged[i].config \in Config
                      /\ merged[i].config.updated_at \in {sync.before[i].config.updated_at,
                                                          sync.remote[i].config.updated_at}
                      /\ Shares(i)' \subseteq Shares(i) \cup {merged[i]} /\ sync.remote[i] \in Shares(i)
                      /\ sync'.before[i].config = sync.before[i].config
    BY <1>2, <2>2, <2>4, <2>5, <2>6, EntryFacts DEF Shares, Copies
  <2>10. Order'
    <3>0. \A i \in Id : \A y \in Shares(i) \cup {sync.before[i]} : y.config \in Config
      BY TypeFacts, EntryFacts DEF Inv
    <3>1. \A i \in Id : \A x \in Shares(i)' \cup {sync'.before[i]} :
            /\ x.config \in Config
            /\ \E y \in Shares(i) \cup {sync.before[i]} : x.config.updated_at = y.config.updated_at
      <4> SUFFICES ASSUME NEW i \in Id, NEW x \in Shares(i)' \cup {sync'.before[i]}
                   PROVE  /\ x.config \in Config
                          /\ \E y \in Shares(i) \cup {sync.before[i]} : x.config.updated_at = y.config.updated_at
        OBVIOUS
      <4>1. CASE x \in Shares(i)
        BY <3>0, <4>1
      <4>2. CASE x = merged[i]
        BY <2>9, <4>2
      <4>3. CASE x = sync'.before[i]
        BY <2>9, <3>0, <4>3
      <4> QED BY <2>9, <4>1, <4>2, <4>3
    <3> QED BY <1>2, <3>1, CopiesOrder DEF Inv
  <2>11. Mirror'
    <3>1. \A i \in Id : /\ merged[i].config.updated_at \in Int /\ read[i].config.updated_at \in Int
      BY <2>1, <2>2, <2>9, ConfigFacts
    <3>2. \A i \in Id : /\ read[i].config.updated_at <= merged[i].config.updated_at
                        /\ read[i].config.updated_at = merged[i].config.updated_at =>
                             read[i].config.deleted = merged[i].config.deleted
      BY <2>5, <3>1
    <3>3. \A i \in Id : /\ read[i].config.updated_at <= disk[i].updated_at
                        /\ read[i].config.updated_at = disk[i].updated_at =>
                             read[i].config.deleted = disk[i].deleted
      BY <1>1, <2>2 DEF Inv, Mirror
    <3> QED BY <1>2, <2>6, <3>2, <3>3 DEF Mirror
  <2>12. Locks' /\ Halfway' /\ Keyless'
    BY <1>1, <1>2, <2>6 DEF Inv, Locks, Halfway, Keyless
  <2>13. ASSUME Clean, ~torn'
         PROVE  Clean'
    <3>1. \A i \in Id : (Forgotten(i)' <=> Forgotten(i)) /\ (Lasts(i)' <=> Lasts(i))
      BY <1>2 DEF Forgotten, Lasts
    <3>2. Fits' /\ Saves'
      BY <1>1, <1>2, <2>6, <2>13, <3>1 DEF Clean, Fits, Saves
    <3>3. Reads'
      BY <1>2, <2>2, <2>6 DEF Reads
    <3>4. Agree'
      <4> SUFFICES ASSUME NEW i \in Id, NEW x \in Shares(i)', keyring, ~x.config.deleted, Lasts(i),
                          x.config.updated_at = disk[i].updated_at
                   PROVE  x.secrets = typed[i].secret
        BY <1>2, <3>1 DEF Agree
      <4>1. CASE x \in Shares(i)
        BY <2>13, <4>1 DEF Clean, Agree
      <4>2. CASE x = merged[i]
        <5>1. typed[i].secret \in Known /\ typed[i].updated_at # -1
          BY DEF Inv, TypeOK, TypedState
        <5>2. sync.remote[i].config.updated_at = disk[i].updated_at /\ ~sync.remote[i].config.deleted
                => sync.remote[i].secrets = typed[i].secret
          BY <2>13 DEF Clean, Agree, Shares
        <5>3. ASSUME read[i].config.updated_at = disk[i].updated_at, ~read[i].config.deleted
              PROVE  read[i].secrets = typed[i].secret
          <6>1. IsLive(sync.before[i].config)
            BY <2>1, <2>2, <5>1, <5>3, ConfigFacts DEF Lasts, IsLive
          <6>2. ring[i] = typed[i].secret
            BY <1>1, <2>13 DEF Clean, Fits
          <6> QED BY <2>2, <6>1, <6>2
        <5> QED BY <2>5, <4>2, <5>1, <5>2, <5>3
      <4> QED BY <2>9, <4>1, <4>2
    <3>5. Untorn'
      <4> SUFFICES ASSUME NEW t \in Thread, NEW i \in Id, task[t].at = "secret", task[t].id = i
                   PROVE  /\ \A x \in Shares(i)' : x.config.updated_at # disk[i].updated_at
                          /\ sync'.before[i].config.updated_at < task[t].stamp
        BY <1>2, TypeFacts, TaskFacts DEF Untorn, Inv
      <4>1. /\ task[t].stamp <= disk[i].updated_at /\ task[t].stamp \in Nat
            /\ disk[i].updated_at \in Int /\ sync.before[i].config.updated_at \in Int
        BY <2>1, TypeFacts, TaskFacts, ConfigFacts DEF Inv, Halfway
      <4>2. ~(sync.before[i].config.updated_at >= task[t].stamp)
        BY <2>7, <2>13 DEF ReadWithoutSecret
      <4>3. sync.before[i].config.updated_at < task[t].stamp /\ sync.before[i].config.updated_at # disk[i].updated_at
        BY <4>1, <4>2
      <4>4. \A x \in Shares(i) : x.config.updated_at # disk[i].updated_at
        BY <2>13 DEF Clean, Untorn
      <4>5. merged[i].config.updated_at # disk[i].updated_at
        BY <2>9, <4>3, <4>4
      <4> QED BY <2>9, <4>3, <4>4, <4>5
    <3> QED BY <3>2, <3>3, <3>4, <3>5 DEF Clean
  <2> QED BY <1>4, <2>7, <2>8, <2>10, <2>11, <2>12, <2>13 DEF Inv
<1> QED BY <1>3, <1>4 DEF SyncSecrets

\* The upload hands over what was merged.
LEMMA SyncUploadInv ==
    ASSUME NamesAssumption, Inv, SyncUpload
    PROVE  Inv'
<1>1. sync.at = "upload" /\ sync.todo = {} /\ sync \in SyncState /\ secrets_lock # Sync
  BY DEF SyncUpload, Inv, Mirror, Locks, TypeOK
<1>2. UNCHANGED <<now, disk, cache, ring, keyring, task, secrets_lock, failures, typed, torn>>
  BY DEF SyncUpload, storeVars, cmdVars, watched
<1>3. CASE Syncs(NoSync) /\ UNCHANGED <<server, version>>
  <2>1. failures \in Nat /\ cache \in {Uncached, disk} /\ task \in [Thread -> Task]
        /\ secrets_lock \in {None, Sync} \cup Thread
    BY DEF Inv, TypeOK
  <2>2. sync' = NoSync /\ ~(sync'.at = "save")
    BY <1>3, NoSyncFacts DEF Syncs
  <2> QED BY <1>1, <1>2, <1>3, <2>1, <2>2, SyncDropsInv
<1>4. CASE /\ Syncs([sync EXCEPT !.at = "write", !.remote = Empty])
           /\ server' \in {server, sync.merged} /\ version' \in {version, version + 1}
  <2>1. /\ sync' \in SyncState /\ sync'.at = "write" /\ sync'.before = sync.before /\ sync'.merged = sync.merged
        /\ sync'.remote = Empty /\ sync'.todo = {}
    BY <1>1, <1>4, EmptyCopies DEF Syncs, SyncState
  <2>2. server' \in Copies /\ version' \in Nat
    BY <1>1, <1>4 DEF Inv, TypeOK, SyncState
  <2>3. TypeOK'
    BY <1>2, <2>1, <2>2 DEF Inv, TypeOK
  <2>4. \A i \in Id : /\ Shares(i)' \subseteq Shares(i) \cup {Empty[i]}
                      /\ sync'.before[i].config \in {Absent, disk[i], sync.before[i].config}
    BY <1>4, <2>1 DEF Shares
  <2>5. Order'
    BY <1>2, <2>1, <2>2, <2>4, FewerCopies
  <2>6. Mirror' /\ Locks' /\ Halfway' /\ Keyless'
    BY <1>1, <1>2, <2>1 DEF Inv, Mirror, Locks, Halfway, Keyless
  <2>7. ASSUME Clean
        PROVE  Clean'
    <3>1. \A i \in Id : (Forgotten(i)' <=> Forgotten(i)) /\ (Lasts(i)' <=> Lasts(i))
      BY <1>2 DEF Forgotten, Lasts
    <3>2. Fits' /\ Saves' /\ Reads'
      BY <1>1, <1>2, <2>1, <2>7, <3>1 DEF Clean, Fits, Saves, Reads
    <3>3. Agree'
      BY <1>2, <2>1, <2>2, <2>4, <2>7, FewerCopies DEF Clean
    <3>4. \A t \in Thread, i \in Id : task[t].at = "secret" /\ task[t].id = i =>
            \A x \in Shares(i)' : x.config.updated_at # disk[i].updated_at
      BY <1>2, <2>1, <2>2, <2>4, <2>7, FewerCopies DEF Clean
    <3>5. Untorn'
      BY <1>1, <1>2, <2>1, <2>7, <3>4, TypeFacts, TaskFacts DEF Clean, Untorn, Inv
    <3> QED BY <3>2, <3>3, <3>5 DEF Clean
  <2> QED BY <1>2, <2>3, <2>5, <2>6, <2>7 DEF Inv
<1> QED BY <1>3, <1>4 DEF SyncUpload

\* The records are written over the ones they were merged from.
LEMMA SyncWriteInv ==
    ASSUME NamesAssumption, Inv, SyncWrite
    PROVE  Inv'
<1>1. sync.at = "write" /\ sync.todo = {} /\ sync \in SyncState /\ secrets_lock = None /\ secrets_lock' = Sync
      /\ Current = disk
  BY CurrentIsDisk DEF SyncWrite, LockSecrets, Inv, Mirror, TypeOK
<1>2. UNCHANGED <<now, ring, keyring, server, version, task, typed, torn>>
  BY DEF SyncWrite, watched
<1>3. \A t \in Thread : task[t].at \notin {"secret", "forget"} /\ secrets_lock' # t
  BY <1>1 DEF Inv, Locks, NamesAssumption
<1>4. CASE /\ sync' = [NoSync EXCEPT !.at = "save"] /\ disk' = disk /\ cache' \in {Uncached, disk}
           /\ failures' \in {failures, failures + 1}
  <2>1. failures' \in Nat /\ failures' >= failures /\ task \in [Thread -> Task]
    BY <1>4 DEF Inv, TypeOK
  <2>2. sync'.at = "save"
    BY <1>4, NoSyncFacts
  <2>3. \A t \in Thread : task'[t] = task[t] /\ (secrets_lock' = t <=> secrets_lock = t)
    BY <1>1, <1>2, <1>3 DEF NamesAssumption
  <2> QED BY <1>1, <1>2, <1>4, <2>1, <2>2, <2>3, SyncDropsInv
<1>5. CASE /\ Shared(disk) = Shared(Configs(sync.before))
           /\ Write(MergedKeepingOpen(disk))
           /\ Syncs([sync EXCEPT !.at = "save", !.before = Empty, !.todo = ToSave])
  <2>1. disk' = MergedKeepingOpen(disk) /\ cache' = disk' /\ failures' = failures
    BY <1>5 DEF Write
  <2>2. /\ sync' \in SyncState /\ sync'.at = "save" /\ sync'.before = Empty /\ sync'.merged = sync.merged
        /\ sync'.remote = sync.remote /\ sync'.todo = ToSave
    BY <1>1, <1>5, EmptyCopies DEF Syncs, SyncState, ToSave
  <2>3. \A i \in Id : /\ disk[i] \in Config /\ sync.before[i] \in Entry /\ sync.merged[i] \in Entry
                      /\ sync.before[i].config \in Config /\ sync.merged[i].config \in Config
    BY TypeFacts, EntryFacts DEF Inv, Shares
  \* The record here is the one that was read.
  <2>4. \A i \in Id : disk[i].updated_at = sync.before[i].config.updated_at
                      /\ disk[i].deleted = sync.before[i].config.deleted
    <3> SUFFICES ASSUME NEW i \in Id
                 PROVE  disk[i].updated_at = sync.before[i].config.updated_at
                        /\ disk[i].deleted = sync.before[i].config.deleted
      OBVIOUS
    <3>1. Shared(disk)[i] = SharedPart(disk[i]) /\ Shared(Configs(sync.before))[i] = SharedPart(sync.before[i].config)
      BY DEF Shared, Configs
    <3>2. SharedPart(disk[i]) = SharedPart(sync.before[i].config)
      BY <1>5, <3>1
    <3> QED BY <2>3, <3>2, SharedFacts
  <2>5. \A i \in Id : /\ disk'[i] \in Config /\ disk'[i].updated_at = sync.merged[i].config.updated_at
                      /\ disk'[i].deleted = sync.merged[i].config.deleted
    <3> SUFFICES ASSUME NEW i \in Id
                 PROVE  /\ disk'[i] \in Config /\ disk'[i].updated_at = sync.merged[i].config.updated_at
                        /\ disk'[i].deleted = sync.merged[i].config.deleted
      OBVIOUS
    <3> DEFINE r == sync.merged[i].config
    <3>1. disk'[i] = IF IsLive(r) /\ disk[i] # Absent THEN [r EXCEPT !.open = disk[i].open] ELSE r
      BY <2>1 DEF MergedKeepingOpen
    <3>2. r \in Config /\ disk[i].open \in BOOLEAN /\ (IsLive(r) => r # Absent)
      BY <2>3, ConfigFacts DEF IsLive
    <3> HIDE DEF r
    <3>3. CASE IsLive(r) /\ disk[i] # Absent
      <4>1. disk'[i] = [r EXCEPT !.open = disk[i].open]
        BY <3>1, <3>3
      <4> QED BY <3>2, <3>3, <4>1, Opened DEF r
    <3>4. CASE ~(IsLive(r) /\ disk[i] # Absent)
      BY <3>1, <3>2, <3>4 DEF r
    <3> QED BY <3>3, <3>4
  <2>6. \A i \in Id : /\ disk[i].updated_at <= disk'[i].updated_at
                      /\ disk[i].updated_at = disk'[i].updated_at => disk[i].deleted = disk'[i].deleted
                      /\ disk[i].updated_at \in Int /\ disk'[i].updated_at \in Int
                      /\ disk'[i].updated_at <= now
                      /\ (disk'[i] # Absent <=> disk[i] # Absent)
    <3> SUFFICES ASSUME NEW i \in Id
                 PROVE  /\ disk[i].updated_at <= disk'[i].updated_at
                        /\ disk[i].updated_at = disk'[i].updated_at => disk[i].deleted = disk'[i].deleted
                        /\ disk[i].updated_at \in Int /\ disk'[i].updated_at \in Int
                        /\ disk'[i].updated_at <= now
                        /\ (disk'[i] # Absent <=> disk[i] # Absent)
      OBVIOUS
    <3>1. LET b == sync.before[i].config
              m == sync.merged[i].config
          IN  b.updated_at <= m.updated_at /\ (b.updated_at = m.updated_at => b.deleted = m.deleted)
      BY <1>1 DEF Inv, Mirror
    <3>2. sync.merged[i].config.updated_at <= now /\ (sync.merged[i].config # Absent => disk[i] # Absent)
      BY DEF Inv, Order, Shares
    <3>3. /\ disk[i].updated_at \in Nat \cup {-1} /\ disk'[i].updated_at \in Nat \cup {-1}
          /\ (disk[i] = Absent <=> disk[i].updated_at = -1) /\ (disk'[i] = Absent <=> disk'[i].updated_at = -1)
          /\ (sync.merged[i].config = Absent <=> sync.merged[i].config.updated_at = -1)
      BY <2>3, <2>5, ConfigFacts
    <3> QED BY <2>4, <2>5, <3>1, <3>2, <3>3
  <2>7. disk' \in [Id -> Config]
    BY <2>1, <2>5 DEF MergedKeepingOpen
  <2>8. TypeOK'
    BY <1>1, <1>2, <2>1, <2>2, <2>7 DEF Inv, TypeOK
  <2>9. \A i \in Id : Shares(i)' = Shares(i)
    BY <1>2, <2>2 DEF Shares
  <2>10. Order'
    <3> SUFFICES ASSUME NEW i \in Id
                 PROVE  /\ disk'[i].updated_at <= now /\ typed[i].updated_at <= disk'[i].updated_at
                        /\ \A x \in Shares(i) \cup {Empty[i]} :
                               x.config.updated_at <= now /\ (x.config # Absent => disk'[i] # Absent)
      BY <1>2, <2>2, <2>9 DEF Order
    <3>1. /\ typed[i].updated_at \in Int /\ typed[i].updated_at <= disk[i].updated_at /\ now \in Nat
          /\ \A x \in Shares(i) : x.config.updated_at <= now /\ (x.config # Absent => disk[i] # Absent)
      BY DEF Inv, TypeOK, TypedState, Order
    <3> QED BY <2>6, <3>1, EmptyCopies, AbsentIs
  <2>11. Mirror' /\ Locks' /\ Keyless'
    BY <1>1, <1>2, <1>3, <2>2 DEF Inv, Mirror, Locks, Keyless
  <2>12. Halfway'
    <3>1. \A t \in Thread : task[t].at = "add" => task[t].id \in Id
      BY TypeFacts, TaskFacts DEF Inv
    <3> QED BY <1>2, <1>3, <2>6, <3>1 DEF Inv, Halfway
  <2>13. ASSUME Clean
         PROVE  Clean'
    <3>1. \A i \in Id : ~Forgotten(i)
      BY <1>3 DEF Forgotten
    \* What was typed last was so before the write.
    <3>2. \A i \in Id : Lasts(i)' => Lasts(i) /\ disk'[i].updated_at = disk[i].updated_at
      <4> SUFFICES ASSUME NEW i \in Id, ~disk'[i].deleted, typed[i].updated_at = disk'[i].updated_at
                   PROVE  Lasts(i) /\ disk'[i].updated_at = disk[i].updated_at
        BY <1>2 DEF Lasts
      <4>1. typed[i].updated_at \in Int /\ typed[i].updated_at <= disk[i].updated_at
        BY DEF Inv, TypeOK, TypedState, Order
      <4> QED BY <2>6, <4>1 DEF Lasts
    <3>3. Fits'
      <4> SUFFICES ASSUME NEW i \in Id, i \notin ToSave
                   PROVE  /\ disk'[i].deleted => ring[i] = None
                          /\ Lasts(i)' => ring[i] = typed[i].secret
        BY <1>2, <2>2 DEF Fits
      <4> DEFINE b == sync.before[i]
                 c == sync.merged[i]
      <4>1. (disk[i].deleted => ring[i] = None) /\ (Lasts(i) => ring[i] = typed[i].secret)
        BY <1>1, <2>13, <3>1 DEF Clean, Fits
      <4>2. ASSUME disk'[i].deleted
            PROVE  ring[i] = None
        <5>1. c.config.deleted /\ c.secrets = None
          BY <2>3, <2>5, <4>2, EntryFacts
        <5>2. SharedPart(b.config) = SharedPart(c.config) \/ Held(b) = Held(c)
          BY DEF ToSave
        <5>3. CASE SharedPart(b.config) = SharedPart(c.config)
          <6>1. disk[i].deleted
            BY <2>3, <2>4, <5>1, <5>3, SharedFacts
          <6> QED BY <4>1, <6>1
        <5>4. CASE Held(b) = Held(c) /\ ~disk[i].deleted /\ keyring
          <6>1. disk[i] # Absent
            BY <2>3, <2>5, <2>6, <4>2, AbsentIs
          <6>2. IsLive(b.config)
            BY <2>3, <2>4, <5>4, <6>1, ConfigFacts
          <6>3. b.secrets = ring[i]
            BY <1>1, <2>4, <2>13, <5>4, <6>2 DEF Clean, Reads
          <6>4. ring[i] # Unknown
            BY DEF Inv, TypeOK, Known, NamesAssumption
          <6> QED BY <5>1, <5>4, <6>3, <6>4 DEF Held, NamesAssumption
        <5>5. CASE ~keyring
          BY <5>5 DEF Inv, Keyless
        <5> QED BY <4>1, <5>2, <5>3, <5>4, <5>5
      <4> QED BY <3>2, <4>1, <4>2
    <3>4. Saves'
      <4> SUFFICES ASSUME NEW i \in Id, keyring
                   PROVE  /\ disk'[i].deleted => sync.merged[i].secrets = None
                          /\ Lasts(i)' => sync.merged[i].secrets = typed[i].secret
        BY <1>2, <2>2 DEF Saves, ToSave
      <4>1. disk'[i].deleted => sync.merged[i].secrets = None
        BY <2>3, <2>5, EntryFacts
      <4>2. ASSUME Lasts(i)'
            PROVE  sync.merged[i].secrets = typed[i].secret
        <5>1. Lasts(i) /\ sync.merged[i].config.updated_at = disk[i].updated_at
              /\ ~sync.merged[i].config.deleted
          BY <2>5, <2>6, <3>2, <4>2 DEF Lasts
        <5> QED BY <2>13, <5>1 DEF Clean, Agree, Shares
      <4> QED BY <4>1, <4>2
    <3>5. Reads' /\ Untorn'
      BY <1>2, <1>3, <2>2 DEF Reads, Untorn
    <3>6. Agree'
      <4> SUFFICES ASSUME NEW i \in Id, NEW x \in Shares(i), keyring, ~x.config.deleted, Lasts(i)',
                          x.config.updated_at = disk'[i].updated_at
                   PROVE  x.secrets = typed[i].secret
        BY <1>2, <2>9 DEF Agree
      <4> QED BY <2>13, <3>2 DEF Clean, Agree
    <3> QED BY <3>3, <3>4, <3>5, <3>6 DEF Clean
  <2> QED BY <1>2, <2>1, <2>8, <2>10, <2>11, <2>12, <2>13 DEF Inv
<1> QED
  <2>1. \/ Shared(disk) # Shared(Configs(sync.before)) /\ cache' = disk
           /\ sync' = [NoSync EXCEPT !.at = "save"] /\ UNCHANGED <<disk, failures>>
        \/ Shared(disk) = Shared(Configs(sync.before)) /\ Refuse(MergedKeepingOpen(disk))
           /\ sync' = [NoSync EXCEPT !.at = "save"]
        \/ Shared(disk) = Shared(Configs(sync.before)) /\ Write(MergedKeepingOpen(disk))
           /\ Syncs([sync EXCEPT !.at = "save", !.before = Empty, !.todo = ToSave])
    BY <1>1 DEF SyncWrite, Syncs
  <2> QED BY <1>4, <1>5, <2>1 DEF Refuse, Fault

\* The secrets of one record follow it.
LEMMA SyncSaveSecretInv ==
    ASSUME NamesAssumption, Inv, NEW i \in Id, SyncSaveSecret(i)
    PROVE  Inv'
<1>1. sync.at = "save" /\ i \in sync.todo /\ sync \in SyncState /\ secrets_lock = Sync
  BY DEF SyncSaveSecret, Inv, Locks, TypeOK
<1>2. UNCHANGED <<now, disk, cache, keyring, server, version, task, secrets_lock, typed, torn>>
      /\ sync' = [sync EXCEPT !.todo = @ \ {i}]
  BY DEF SyncSaveSecret, storeVars, cmdVars, watched, Syncs
<1>3. /\ sync' \in SyncState /\ sync'.at = "save" /\ sync'.before = sync.before /\ sync'.merged = sync.merged
      /\ sync'.remote = sync.remote /\ sync'.todo = sync.todo \ {i}
  BY <1>1, <1>2 DEF SyncState
<1>4. /\ \/ /\ sync.merged[i].secrets # Unknown /\ keyring
            /\ ring' = [ring EXCEPT ![i] = sync.merged[i].secrets] /\ failures' = failures
         \/ ~keyring /\ ring' = ring /\ failures' = failures
         \/ failures' = failures + 1 /\ ring' = ring
  BY DEF SyncSaveSecret, Fault
<1>5. failures' \in Nat /\ (failures' = 0 => failures = 0)
  BY <1>4 DEF Inv, TypeOK
<1>6. ring' \in [Id -> Known] /\ \A j \in Id \ {i} : ring'[j] = ring[j]
  <2>1. sync.merged[i].secrets \in Known \cup {Unknown} /\ ring \in [Id -> Known]
    BY TypeFacts, EntryFacts DEF Inv, TypeOK, Shares
  <2> QED BY <1>4, <2>1
<1>7. TypeOK'
  BY <1>2, <1>3, <1>5, <1>6 DEF Inv, TypeOK
<1>8. \A j \in Id : Shares(j)' = Shares(j) /\ (Lasts(j)' <=> Lasts(j)) /\ (Forgotten(j)' <=> Forgotten(j))
  BY <1>2, <1>3 DEF Shares, Lasts, Forgotten
<1>9. Order' /\ Mirror' /\ Locks' /\ Halfway' /\ Keyless'
  BY <1>1, <1>2, <1>3, <1>4, <1>8 DEF Inv, Order, Mirror, Locks, Halfway, Keyless
<1>10. ASSUME Clean, failures' = 0
       PROVE  Clean'
  <2>1. /\ disk[i].deleted => ring'[i] = None
        /\ Lasts(i) => ring'[i] = typed[i].secret
    <3>1. CASE keyring /\ ring' = [ring EXCEPT ![i] = sync.merged[i].secrets]
      <4>1. ring'[i] = sync.merged[i].secrets
        BY <3>1 DEF Inv, TypeOK
      <4> QED BY <1>1, <1>10, <3>1, <4>1 DEF Clean, Saves
    <3>2. CASE ~keyring /\ ring' = ring
      BY <3>2 DEF Inv, Keyless
    <3> QED BY <1>4, <1>10, <3>1, <3>2 DEF Inv, TypeOK
  <2>2. Fits'
    <3> SUFFICES ASSUME NEW j \in Id, j = i \/ j \notin sync.todo
                 PROVE  /\ disk[j].deleted => ring'[j] = None \/ Forgotten(j)
                        /\ Lasts(j) => ring'[j] = typed[j].secret
      BY <1>2, <1>3, <1>8 DEF Fits
    <3> QED BY <1>6, <1>10, <2>1 DEF Clean, Fits
  <2>3. Saves'
    BY <1>1, <1>2, <1>3, <1>8, <1>10 DEF Clean, Saves, SyncState
  <2>4. Reads' /\ Agree' /\ Untorn'
    BY <1>2, <1>3, <1>8, <1>10, TypeFacts, TaskFacts DEF Clean, Reads, Agree, Untorn, Inv
  <2> QED BY <2>2, <2>3, <2>4 DEF Clean
<1> QED BY <1>2, <1>5, <1>7, <1>9, <1>10 DEF Inv

-----------------------------------------------------------------------------
(* The theorems. *)

\* When nobody holds the secrets lock, nothing is half written.
LEMMA Unlocked ==
    ASSUME NamesAssumption, Inv, secrets_lock = None
    PROVE  sync.todo = {} /\ \A i \in Id : ~Forgotten(i)
BY DEF Inv, Locks, Mirror, Forgotten, NamesAssumption

LEMMA InvNext ==
    ASSUME NamesAssumption, Inv, [Next]_vars
    PROVE  Inv'
<1>1. failures \in Nat /\ cache \in {Uncached, disk} /\ task \in [Thread -> Task] /\ disk \in [Id -> Config]
      /\ TypeOK /\ Order /\ Halfway
  BY DEF Inv, TypeOK
<1>2. CASE Load \/ UNCHANGED vars
  <2>1. Quiet
    BY <1>1, <1>2 DEF Quiet, Load, vars, cmdVars, watched
  <2> QED BY <2>1, QuietInv
<1>3. CASE Crash
  BY <1>3, CrashInv
<1>4. CASE SyncStep
  BY <1>4, SyncRecordsInv, SyncSecretsInv, SyncUploadInv, SyncWriteInv, SyncEndsInv, SyncSaveSecretInv DEF SyncStep
<1>5. ASSUME NEW t \in Thread, CommandStep(t)
      PROVE  Inv'
  <2>1. CASE Add(t)
    BY <1>1, <2>1, AddStamps, StampedInv
  <2>2. CASE UpdateRecord(t) /\ now' = now
    BY <1>1, <2>2, UpdateIsQuiet, QuietInv
  <2>3. CASE UpdateRecord(t) /\ now' # now
    BY <1>1, <2>3, UpdateStamps, StampedInv
  <2>4. CASE UpdateSecret(t) \/ DeleteSecrets(t)
    BY <2>4, UpdateSecretInv, DeleteSecretsInv
  <2> QED BY <1>5, <2>1, <2>2, <2>3, <2>4 DEF CommandStep
<1>6. ASSUME NEW t \in Thread, NEW i \in Id, NewSecrets(t, i) \/ FindForEdit(t, i) \/ DeleteRecord(t, i)
      PROVE  Inv'
  <2>1. CASE NewSecrets(t, i)
    BY <2>1, NewSecretsInv
  <2>2. CASE FindForEdit(t, i)
    BY <1>1, <2>2, FindIsQuiet, QuietInv
  <2>3. CASE DeleteRecord(t, i)
    BY <1>1, <2>3, DeleteStamps, StampedInv
  <2> QED BY <1>6, <2>1, <2>2, <2>3
<1>7. ASSUME NEW i \in Id, SetOpen(i) \/ OtherDevice(i)
      PROVE  Inv'
  BY <1>1, <1>7, SetOpenIsQuiet, QuietInv, OtherDeviceInv
<1>8. ASSUME NEW which \in SUBSET Id, NEW folder \in Place, EditWhere(which, folder)
      PROVE  Inv'
  BY <1>1, <1>8, EditStamps, StampedInv
<1>9. ASSUME NEW i \in Id, NEW f \in Folder \cup {None}, Move(i, f)
      PROVE  Inv'
  BY <1>8, <1>9 DEF Move, Place
<1>10. ASSUME NEW f \in Folder, DetachFolder(f)
       PROVE  Inv'
  BY <1>8, <1>10 DEF DetachFolder, Place
<1> QED BY <1>2, <1>3, <1>4, <1>5, <1>6, <1>7, <1>9, <1>10 DEF Next

LEMMA InvHolds == ASSUME NamesAssumption PROVE Spec => []Inv
<1>1. Init => Inv
  BY InvInit
<1>2. Inv /\ [Next]_vars => Inv'
  BY InvNext
<1> QED BY <1>1, <1>2, PTL DEF Spec

\* The records, secrets, copies, commands and the sync have their types, and the cache is
\* the file's contents whenever there is one, whatever fails (Storage, SyncedConnection).
THEOREM TypeCorrect == ASSUME NamesAssumption PROVE Spec => []TypeOK
<1>1. Inv => TypeOK
  BY DEF Inv
<1> QED BY <1>1, InvHolds, PTL

\* A deleted connection leaves no secret in the keychain, for any number of commands and
\* connections at once with a sync, unless a keychain or file write failed, the app was
\* killed or a sync read a torn edit (delete_connection, save_edit, write_if_unchanged).
THEOREM DeletionForgetsSecrets == ASSUME NamesAssumption PROVE Spec => []DeletedKeepsNoSecrets
<1>1. NamesAssumption /\ Inv => DeletedKeepsNoSecrets
  <2> SUFFICES ASSUME Inv, failures = 0, ~torn, secrets_lock = None, NEW i \in DOMAIN ring, Current[i].deleted
               PROVE  ring[i] = None
    BY DEF DeletedKeepsNoSecrets
  <2>1. i \in Id /\ Current = disk /\ Clean
    BY CurrentIsDisk DEF Inv, TypeOK
  <2> QED BY <2>1, Unlocked DEF Clean, Fits
<1> QED BY <1>1, InvHolds, PTL

\* The secret typed last here is the keychain's as long as the record has the stamp of that
\* edit, or of a later change here that left the secret alone, for any number of commands
\* and connections at once with a sync, under the same conditions (save_edit, edit_where,
\* write_if_unchanged).
THEOREM TypedSecretKept == ASSUME NamesAssumption PROVE Spec => []TypedSecretLastsUnlessTorn
<1>1. NamesAssumption /\ Inv => TypedSecretLastsUnlessTorn
  <2> SUFFICES ASSUME Inv, failures = 0, ~torn, secrets_lock = None, NEW i \in DOMAIN ring,
                      ~Current[i].deleted, typed[i].updated_at = Current[i].updated_at
               PROVE  ring[i] = typed[i].secret
    BY DEF TypedSecretLastsUnlessTorn, TypedSecretLasts
  <2>1. i \in Id /\ Current = disk /\ Clean
    BY CurrentIsDisk DEF Inv, TypeOK
  <2> QED BY <2>1, Unlocked DEF Clean, Fits, Lasts
<1> QED BY <1>1, InvHolds, PTL
=============================================================================
