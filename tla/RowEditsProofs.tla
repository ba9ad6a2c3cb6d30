---------------------------- MODULE RowEditsProofs ----------------------------
(* Saves and undone edits of a table, proved for any number of tabs and keys, any  *)
(* values and any number of saves: where each of them stands, what it holds and    *)
(* what it has left in the rows.                                                   *)
EXTENDS RowEdits, TLAPS

-----------------------------------------------------------------------------
(* What statements leave. *)

\* What a statement leaves at a key it touches, whatever was there.
Leaves(s, k) == IF s.op = "delete" \/ (s.op = "update" /\ k # s.newKey) THEN NoRow ELSE s.after

\* The keys that the first n statements of c touch, and what they leave there.
TouchedBy(c, n) == {k \in Key : \E i \in 1..n : k \in Touched(c[i])}
LeftBy(c, n, k) == IF n = 2 /\ k \in Touched(c[2]) THEN Leaves(c[2], k) ELSE Leaves(c[1], k)

\* The keys and the values of a statement (build_update and its kin).
LEMMA StatementFields ==
    ASSUME NEW s \in Statement
    PROVE  /\ s.op \in {"insert", "update", "delete"} /\ s.key \in Key
           /\ s.op = "update" => s \in Edit /\ s.newKey \in Key /\ s.before \in Value /\ s.after \in Value
           /\ s.op = "insert" => s.after \in Value
           /\ Touched(s) \subseteq Key
BY DEF Statement, Edit, Touched

\* A statement writes the keys it touches and no other (insert_pg_row, update_pg_row).
LEMMA AfterIs ==
    ASSUME NEW f \in [Key -> Row], NEW s \in Statement
    PROVE  /\ After(f, s) = [k \in Key |-> IF k \in Touched(s) THEN Leaves(s, k) ELSE f[k]]
           /\ \A k \in Touched(s) : Leaves(s, k) \in Row
           /\ After(f, s) \in [Key -> Row]
<1>1. /\ s.op \in {"insert", "update", "delete"} /\ s.key \in Key
      /\ s.op = "update" => s.newKey \in Key /\ s.after \in Value
      /\ s.op = "insert" => s.after \in Value
      /\ Touched(s) \subseteq Key
  BY StatementFields
<1>2. \A k \in Touched(s) : Leaves(s, k) \in Row
  BY <1>1 DEF Leaves, Row, Touched
<1>3. CASE s.op = "insert"
  BY <1>1, <1>2, <1>3 DEF After, Inserted, Touched, Leaves
<1>4. CASE s.op = "delete"
  BY <1>1, <1>2, <1>4 DEF After, Deleted, Touched, Leaves
<1>5. CASE s.op = "update"
  BY <1>1, <1>2, <1>5 DEF After, Updated, Touched, Leaves
<1> QED BY <1>1, <1>3, <1>4, <1>5

\* A save has one or two statements (mysql_save_rows, saveRows.js).
LEMMA ChangesFields ==
    ASSUME NEW c \in Changes
    PROVE  c \in Seq(Statement) /\ Len(c) \in 1..2 /\ c[1] \in Statement /\ (Len(c) = 2 => c[2] \in Statement)
<1>1. PICK n \in 1..2 : c \in [1..n -> Statement]
  BY DEF Changes
<1>2. c \in Seq(Statement) /\ Len(c) = n
  BY <1>1
<1> QED BY <1>1, <1>2

\* All of a save's statements, on any rows.
LEMMA AfterAllIs ==
    ASSUME NEW f \in [Key -> Row], NEW c \in Changes
    PROVE  AfterAll(f, c) = [k \in Key |-> IF k \in TouchedBy(c, Len(c)) THEN LeftBy(c, Len(c), k) ELSE f[k]]
<1>1. Len(c) \in 1..2 /\ c[1] \in Statement /\ (Len(c) = 2 => c[2] \in Statement)
  BY ChangesFields
<1>2. After(f, c[1]) \in [Key -> Row]
      /\ After(f, c[1]) = [k \in Key |-> IF k \in Touched(c[1]) THEN Leaves(c[1], k) ELSE f[k]]
  BY <1>1, AfterIs
<1>3. CASE Len(c) = 1
  <2>1. \A k \in Key : k \in TouchedBy(c, 1) <=> k \in Touched(c[1])
    BY DEF TouchedBy
  <2> QED BY <1>2, <1>3, <2>1 DEF AfterAll, LeftBy
<1>4. CASE Len(c) = 2
  <2>1. \A k \in Key : k \in TouchedBy(c, 2) <=> k \in Touched(c[1]) \/ k \in Touched(c[2])
    BY DEF TouchedBy
  <2>2. AfterAll(f, c) = [k \in Key |-> IF k \in Touched(c[2]) THEN Leaves(c[2], k) ELSE After(f, c[1])[k]]
    BY <1>1, <1>2, <1>4, AfterIs DEF AfterAll
  <2> QED BY <1>2, <1>4, <2>1, <2>2 DEF LeftBy
<1> QED BY <1>1, <1>3, <1>4

-----------------------------------------------------------------------------
(* The inductive invariant. *)

\* A save that runs has done its first statements, holds the rows they touched and no
\* other, and has left there what they leave.
Running(t) == LET c == job[t].all IN
    /\ job[t].id \in 1..Len(ended) /\ ended[job[t].id] = "open"
    /\ \A e \in job[t].pending : e.save = job[t].id
    /\ c \in Changes
    /\ \E n \in 0..Len(c) :
        /\ job[t].todo = [i \in 1..(Len(c) - n) |-> c[n + i]]
        /\ \A k \in Key : /\ lock[k] = t <=> k \in TouchedBy(c, n)
                          /\ lock[k] = t => rows[k] = LeftBy(c, n, k)

\* An undo that has read its row holds that row, which is as the entry left it.
Reading(t) == \E e \in history :
    /\ job[t].todo = <<Undoing(e)>>
    /\ \A k \in Key : lock[k] = t <=> k = e.newKey
    /\ rows[e.newKey] = e.after /\ job[t].image[e.newKey] = e.after

\* The save of an entry has committed.
Kept(e) == e.save \in 1..Len(ended) /\ ended[e.save] = "committed"

JobOK(t) ==
    /\ job[t].at \in {"none", "record"} => \A k \in Key : lock[k] # t
    /\ job[t].at \in {"run", "read"} => job[t].image \in [Key -> Row]
    /\ job[t].at = "run" => Running(t)
    /\ job[t].at = "read" => Reading(t)
    /\ job[t].at = "record" => \A e \in job[t].pending : Kept(e)
    /\ job[t].at \in {"none", "read"} => job[t].pending = {}

OwnIds == \A t, u \in Tab : t # u /\ job[t].at = "run" /\ job[u].at = "run" => job[t].id # job[u].id

\* MySQL's entries are under the key the row has.
MySqlKeys ==
    engine = "mysql" => /\ \A e \in history : e.key = e.newKey
                        /\ \A t \in Tab : \A e \in job[t].pending : e.key = e.newKey

Inv ==
    /\ TypeOK /\ OwnIds /\ MySqlKeys
    /\ \A t \in Tab : JobOK(t)
    /\ \A e \in history : Kept(e)

-----------------------------------------------------------------------------
(* Types. *)

\* The entry of an edit, as it is queued.
LEMMA EntryFields ==
    ASSUME TypeOK, NEW t \in Tab, NEW s \in Edit, job[t].id \in 1..MaxJobs
    PROVE  /\ Entry(t, s) \in Recorded /\ Entry(t, s).save = job[t].id
           /\ engine = "mysql" => Entry(t, s).key = Entry(t, s).newKey
BY DEF Entry, MySqlEntry, PgEntry, EntryUnder, Recorded, Edit

\* Undoing an entry is an update of its two keys.
LEMMA UndoingFields ==
    ASSUME NEW e \in Recorded
    PROVE  /\ Undoing(e) \in Statement /\ Undoing(e).op = "update" /\ Undoing(e).key = e.newKey
           /\ Undoing(e).newKey = e.from /\ Undoing(e).after = e.before
           /\ Touched(Undoing(e)) = {e.newKey, e.from}
           /\ e.newKey \in Key /\ e.from \in Key /\ e.after \in Value /\ e.save \in 1..MaxJobs
BY DEF Recorded, Undoing, Statement, Edit, Touched

LEMMA NoJobFields ==
    /\ NoJob \in Job /\ NoJob.at = "none" /\ NoJob.pending = {}
BY NamesAssumption DEF NoJob, Job, Recorded

\* The saves and the writes of other clients that the model allows.
LEMMA Bounds ==
    ASSUME Inv
    PROVE  /\ MaxJobs \in Nat /\ MaxOthers \in Nat
           /\ others \in 0..MaxOthers /\ Len(ended) \in 0..MaxJobs /\ Len(ended) \in Nat
<1>1. MaxJobs \in Nat /\ MaxOthers \in Nat
  BY NamesAssumption
<1>2. others \in 0..MaxOthers /\ Len(ended) \in 0..MaxJobs
  BY Zenon DEF Inv, TypeOK
<1> QED BY <1>1, <1>2

LEMMA Outcomes == "open" \in Outcome /\ "committed" \in Outcome /\ "rolled back" \in Outcome
BY DEF Outcome

LEMMA EndedType ==
    ASSUME Inv
    PROVE  ended \in Seq(Outcome)
BY DEF Inv, TypeOK

\* The save of a job that runs is still open.
LEMMA RunIsOpen ==
    ASSUME Inv, NEW t \in Tab, job[t].at = "run"
    PROVE  job[t].id \in 1..Len(ended) /\ ended[job[t].id] = "open"
BY Zenon DEF Inv, JobOK, Running

\* What is durable, of rows and images of the right type.
LEMMA DurableType ==
    ASSUME Inv
    PROVE  Durable \in [Key -> Row]
<1>1. ASSUME NEW k \in Key, lock[k] # Free
      PROVE  job[lock[k]].image[k] \in Row
  <2>1. lock[k] \in Tab
    BY <1>1 DEF Inv, TypeOK
  <2>2. job[lock[k]].at \notin {"none", "record"}
    BY <2>1 DEF Inv, JobOK
  <2>3. job[lock[k]].at \in {"none", "run", "record", "read"}
    BY <2>1 DEF Inv, TypeOK, Job
  <2> QED BY <2>1, <2>2, <2>3 DEF Inv, JobOK
<1> QED BY <1>1 DEF Durable, Inv, TypeOK

-----------------------------------------------------------------------------
(* The steps. *)

\* A save that begins is the last of them.
LEMMA Appended ==
    ASSUME NEW S, NEW q \in Seq(S), NEW x \in S
    PROVE  /\ Append(q, x) \in Seq(S) /\ Len(q) \in Nat /\ Len(Append(q, x)) = Len(q) + 1
           /\ Append(q, x)[Len(q) + 1] = x
           /\ \A i \in 1..Len(q) : i \in 1..Len(Append(q, x)) /\ Append(q, x)[i] = q[i]
OBVIOUS

\* A job that a step leaves alone stays right, as long as the step leaves it its rows.
LEMMA OtherJobs ==
    ASSUME Inv, NEW u \in Tab, job'[u] = job[u],
           \A k \in Key : (lock'[k] = u <=> lock[k] = u) /\ (lock[k] = u => rows'[k] = rows[k]),
           \A e \in history : e \in history',
           \A i \in 1..Len(ended) : i \in 1..Len(ended') /\ (ended[i] = "committed" => ended'[i] = "committed"),
           job[u].at = "run" => ended'[job[u].id] = "open"
    PROVE  JobOK(u)'
<1>1. JobOK(u)
  BY DEF Inv
<1>2. ASSUME job[u].at = "run"
      PROVE  Running(u)'
  <2>1. Running(u)
    BY <1>1, <1>2 DEF JobOK
  <2> QED BY <1>2, <2>1 DEF Running, TouchedBy, LeftBy
<1>3. ASSUME job[u].at = "read"
      PROVE  Reading(u)'
  <2>1. PICK e \in history :
            /\ job[u].todo = <<Undoing(e)>> /\ \A k \in Key : lock[k] = u <=> k = e.newKey
            /\ rows[e.newKey] = e.after /\ job[u].image[e.newKey] = e.after
    BY <1>1, <1>3 DEF JobOK, Reading
  <2>2. e.newKey \in Key
    BY DEF Inv, TypeOK, Recorded
  <2> QED BY <2>1, <2>2 DEF Reading
<1>4. \A e \in job[u].pending : Kept(e) => Kept(e)'
  BY DEF Kept
<1> QED BY <1>1, <1>2, <1>3, <1>4 DEF JobOK

\* One job changes, and the others keep theirs.
LEMMA OneJob ==
    ASSUME Inv, NEW t \in Tab, NEW next \in Job, job' = [job EXCEPT ![t] = next]
    PROVE  /\ job' \in [Tab -> Job] /\ job'[t] = next
           /\ \A u \in Tab : u # t => job'[u] = job[u]
BY DEF Inv, TypeOK

LEMMA OtherClientStep ==
    ASSUME Inv, OtherClient
    PROVE  Inv'
<1>1. PICK k \in Key, v \in Value \cup {NoRow} : lock[k] = Free /\ rows' = [rows EXCEPT ![k] = v]
  BY DEF OtherClient
<1>2. UNCHANGED <<engine, lock, grid, job, history, ended>> /\ others < MaxOthers /\ others' = others + 1
  BY DEF OtherClient
<1>3. TypeOK'
  <2>1. rows' \in [Key -> Row]
    BY <1>1 DEF Inv, TypeOK, Row
  <2>2. others' \in 0..MaxOthers
    BY <1>2, Bounds
  <2> QED BY <1>2, <2>1, <2>2 DEF Inv, TypeOK
<1>4. ASSUME NEW u \in Tab
      PROVE  JobOK(u)'
  <2>1. \A q \in Key : (lock'[q] = u <=> lock[q] = u) /\ (lock[q] = u => rows'[q] = rows[q])
    BY <1>1, <1>2, NamesAssumption DEF Inv, TypeOK
  <2>2. job[u].at = "run" => ended'[job[u].id] = "open"
    BY <1>2, RunIsOpen
  <2> QED BY <1>2, <2>1, <2>2, OtherJobs
<1>5. OwnIds' /\ MySqlKeys' /\ \A e \in history' : Kept(e)'
  BY <1>2 DEF Inv, OwnIds, MySqlKeys, Kept
<1> QED BY <1>3, <1>4, <1>5 DEF Inv

LEMMA LoadStep ==
    ASSUME Inv, NEW t \in Tab, Load(t)
    PROVE  Inv'
<1>1. /\ grid' = [grid EXCEPT ![t] = Durable]
      /\ UNCHANGED <<engine, rows, lock, job, history, ended, others>>
  BY DEF Load
<1>2. TypeOK'
  <2>1. Durable \in [Key -> Row]
    BY DurableType
  <2> QED BY <1>1, <2>1 DEF Inv, TypeOK
<1>3. ASSUME NEW u \in Tab
      PROVE  JobOK(u)'
  <2>1. job[u].at = "run" => ended'[job[u].id] = "open"
    BY <1>1, RunIsOpen
  <2> QED BY <1>1, <2>1, OtherJobs
<1>4. OwnIds' /\ MySqlKeys' /\ \A e \in history' : Kept(e)'
  BY <1>1 DEF Inv, OwnIds, MySqlKeys, Kept
<1> QED BY <1>2, <1>3, <1>4 DEF Inv

\* A save begins with none of its statements done and no row held.
LEMMA StartSaveStep ==
    ASSUME Inv, NEW t \in Tab, StartSave(t)
    PROVE  Inv'
<1>1. PICK c \in Changes :
          job' = [job EXCEPT ![t] = Begun(c)]
  BY DEF StartSave
<1>2. /\ job[t].at = "none" /\ Len(ended) < MaxJobs /\ ended' = Append(ended, "open")
      /\ UNCHANGED <<engine, rows, lock, grid, history, others>>
  BY DEF StartSave
<1> DEFINE next == Begun(c)
<1>3. c \in Seq(Statement) /\ Len(c) \in 1..2
  BY ChangesFields
<1>4. /\ next \in Job /\ next.at = "run" /\ next.id = Len(ended) + 1 /\ next.todo = c /\ next.all = c
      /\ next.image = rows /\ next.pending = {}
  <2>1. Len(ended) + 1 \in 0..MaxJobs
    BY <1>2, Bounds
  <2>2. rows \in [Key -> Row]
    BY DEF Inv, TypeOK
  <2> QED BY <1>3, <2>1, <2>2 DEF Job, Begun
<1>5. job' = [job EXCEPT ![t] = next]
  BY <1>1
<1> HIDE DEF next
<1>6. /\ job' \in [Tab -> Job] /\ job'[t] = next
      /\ \A u \in Tab : u # t => job'[u] = job[u]
  BY <1>4, <1>5, OneJob
<1>7. /\ Len(ended) \in Nat /\ Len(ended') = Len(ended) + 1 /\ ended'[Len(ended) + 1] = "open"
      /\ \A i \in 1..Len(ended) : i \in 1..Len(ended') /\ ended'[i] = ended[i]
  <2>1. ended \in Seq(Outcome) /\ "open" \in Outcome
    BY EndedType, Outcomes
  <2>2. /\ Len(ended) \in Nat /\ Len(Append(ended, "open")) = Len(ended) + 1
        /\ Append(ended, "open")[Len(ended) + 1] = "open"
        /\ \A i \in 1..Len(ended) : i \in 1..Len(Append(ended, "open")) /\ Append(ended, "open")[i] = ended[i]
    BY <2>1, Appended
  <2>3. ended' = Append(ended, "open")
    BY <1>2
  <2> QED BY <2>2, <2>3
<1>8. TypeOK'
  <2>1. Len(ended') \in 0..MaxJobs
    BY <1>2, <1>7, Bounds
  <2>2. ended' \in Seq(Outcome)
    BY <1>2, Outcomes, EndedType, Appended
  <2> QED BY <1>2, <1>6, <2>1, <2>2 DEF Inv, TypeOK
<1>9. JobOK(t)'
  <2>1. /\ c = [i \in 1..(Len(c) - 0) |-> c[0 + i]]
        /\ \A k \in Key : k \notin TouchedBy(c, 0)
    BY <1>3 DEF TouchedBy
  <2>2. \A k \in Key : lock'[k] # t
    BY <1>2 DEF Inv, JobOK
  <2>3. Running(t)'
    <3>1. 0 \in 0..Len(c)
      BY <1>3
    <3>2. job'[t].id \in 1..Len(ended') /\ ended'[job'[t].id] = "open"
      <4>1. job'[t].id = Len(ended) + 1
        BY <1>4, <1>6
      <4> QED BY <1>7, <4>1
    <3>3. \A k \in Key : (lock'[k] = t <=> k \in TouchedBy(c, 0)) /\ (lock'[k] = t => rows'[k] = LeftBy(c, 0, k))
      BY <2>1, <2>2
    <3> QED BY <1>4, <1>6, <2>1, <3>1, <3>2, <3>3 DEF Running
  <2> QED BY <1>2, <1>4, <1>6, <2>3 DEF JobOK, Inv, TypeOK
<1>10. ASSUME NEW u \in Tab, u # t
       PROVE  JobOK(u)'
  <2>1. job[u].at = "run" => ended'[job[u].id] = "open"
    BY <1>7, <1>10, RunIsOpen
  <2> QED BY <1>2, <1>6, <1>7, <1>10, <2>1, OtherJobs
<1>11. OwnIds'
  <2>1. \A u \in Tab : job[u].at = "run" => job[u].id # Len(ended) + 1
    BY <1>7, RunIsOpen
  <2> QED BY <1>4, <1>6, <2>1 DEF Inv, OwnIds
<1>12. MySqlKeys' /\ \A e \in history' : Kept(e)'
  BY <1>2, <1>4, <1>6, <1>7 DEF Inv, MySqlKeys, Kept
<1> QED BY <1>8, <1>9, <1>10, <1>11, <1>12 DEF Inv

\* The statement a save executes is the next of its own.
LEMMA NextStatement ==
    ASSUME Inv, NEW t \in Tab, job[t].at = "run", job[t].todo # <<>>
    PROVE  LET c == job[t].all IN
           \E n \in 0..Len(c) :
               /\ n + 1 \in 1..Len(c) /\ Head(job[t].todo) = c[n + 1] /\ c[n + 1] \in Statement
               /\ Tail(job[t].todo) = [i \in 1..(Len(c) - (n + 1)) |-> c[(n + 1) + i]]
               /\ Tail(job[t].todo) \in Seq(Statement)
               /\ \A k \in Key : /\ lock[k] = t <=> k \in TouchedBy(c, n)
                                 /\ lock[k] = t => rows[k] = LeftBy(c, n, k)
<1> DEFINE c == job[t].all
<1>1. c \in Changes /\ \E n \in 0..Len(c) :
          /\ job[t].todo = [i \in 1..(Len(c) - n) |-> c[n + i]]
          /\ \A k \in Key : /\ lock[k] = t <=> k \in TouchedBy(c, n)
                            /\ lock[k] = t => rows[k] = LeftBy(c, n, k)
  BY DEF Inv, JobOK, Running
<1>2. job[t].todo \in Seq(Statement)
  BY DEF Inv, TypeOK, Job
<1> HIDE DEF c
<1>3. PICK n \in 0..Len(c) :
          /\ job[t].todo = [i \in 1..(Len(c) - n) |-> c[n + i]]
          /\ \A k \in Key : /\ lock[k] = t <=> k \in TouchedBy(c, n)
                            /\ lock[k] = t => rows[k] = LeftBy(c, n, k)
  BY <1>1
<1>4. c \in Seq(Statement) /\ Len(c) \in 1..2
  BY <1>1, ChangesFields
<1>5. Len(job[t].todo) = Len(c) - n /\ Len(c) - n > 0
  BY <1>2, <1>3, <1>4
<1>6. n + 1 \in 1..Len(c) /\ c[n + 1] \in Statement /\ Head(job[t].todo) = c[n + 1]
  BY <1>2, <1>3, <1>4, <1>5
<1>7. Tail(job[t].todo) = [i \in 1..(Len(c) - (n + 1)) |-> c[(n + 1) + i]]
  <2> DEFINE todo == job[t].todo
             l    == Len(c)
             s    == Tail(todo)
             r    == [i \in 1..(l - (n + 1)) |-> c[(n + 1) + i]]
  <2>1. l \in Nat /\ n \in Nat /\ todo \in Seq(Statement) /\ todo # <<>> /\ Len(todo) = l - n
    BY <1>2, <1>4, <1>5
  <2>2. s \in Seq(Statement) /\ Len(s) = l - (n + 1) /\ \A i \in 1..Len(s) : s[i] = todo[i + 1]
    BY <2>1
  <2>3. \A i \in 1..(l - n) : todo[i] = c[n + i]
    BY <1>3
  <2> HIDE DEF todo, l, s
  <2>4. \A i \in 1..Len(s) : i + 1 \in 1..(l - n) /\ n + (i + 1) = (n + 1) + i
    BY <2>1, <2>2
  <2>5. \A i \in 1..Len(s) : s[i] = c[(n + 1) + i]
    BY <2>2, <2>3, <2>4
  <2>6. s = [i \in 1..Len(s) |-> s[i]]
    BY <2>2
  <2>7. s = r
    BY <2>2, <2>5, <2>6
  <2> QED BY <2>7 DEF s, todo, l
<1>8. Tail(job[t].todo) \in Seq(Statement)
  BY <1>2, <1>5
<1> QED BY <1>3, <1>6, <1>7, <1>8 DEF c

\* What the first n + 1 statements touch and leave.
LEMMA OneMore ==
    ASSUME NEW c \in Seq(Statement), Len(c) \in 1..2, NEW n \in 0..Len(c), n + 1 \in 1..Len(c), NEW k \in Key
    PROVE  /\ k \in TouchedBy(c, n + 1) <=> k \in TouchedBy(c, n) \/ k \in Touched(c[n + 1])
           /\ k \in TouchedBy(c, n + 1) => LeftBy(c, n + 1, k) = IF k \in Touched(c[n + 1]) THEN Leaves(c[n + 1], k)
                                                              ELSE LeftBy(c, n, k)
<1>1. CASE n = 0
  <2>1. \A i \in 1..1 : i = 1
    OBVIOUS
  <2> QED BY <1>1, <2>1 DEF TouchedBy, LeftBy
<1>2. CASE n = 1
  <2>1. \A i \in 1..2 : i = 1 \/ i = 2
    OBVIOUS
  <2> QED BY <1>2, <2>1 DEF TouchedBy, LeftBy
<1> QED BY <1>1, <1>2

LEMMA ExecuteStep ==
    ASSUME Inv, NEW t \in Tab, Execute(t)
    PROVE  Inv'
<1> DEFINE s == Head(job[t].todo)
           c == job[t].all
           next == [job[t] EXCEPT !.todo = Tail(job[t].todo), !.image = Images(t, s),
                                  !.pending = IF s.op = "update" THEN job[t].pending \cup {Entry(t, s)}
                                              ELSE job[t].pending]
<1>1. /\ job[t].at = "run" /\ job[t].todo # <<>> /\ MayLock(t, s) /\ Locks(t, s)
      /\ rows' = After(rows, s) /\ UNCHANGED <<engine, grid, history, ended, others>>
      /\ job' = [job EXCEPT ![t] = next]
  BY DEF Execute
<1>2. PICK n \in 0..Len(c) :
          /\ n + 1 \in 1..Len(c) /\ s = c[n + 1] /\ s \in Statement
          /\ Tail(job[t].todo) = [i \in 1..(Len(c) - (n + 1)) |-> c[(n + 1) + i]]
          /\ Tail(job[t].todo) \in Seq(Statement)
          /\ \A k \in Key : /\ lock[k] = t <=> k \in TouchedBy(c, n)
                            /\ lock[k] = t => rows[k] = LeftBy(c, n, k)
  BY <1>1, NextStatement
<1>3. c \in Changes /\ c \in Seq(Statement) /\ Len(c) \in 1..2
  BY <1>1, ChangesFields DEF Inv, JobOK, Running
<1>4. job[t] \in Job /\ job[t].image \in [Key -> Row]
  BY <1>1 DEF Inv, TypeOK, JobOK
<1>5. /\ job[t].id \in 1..MaxJobs /\ job[t].id \in 1..Len(ended) /\ ended[job[t].id] = "open"
      /\ \A e \in job[t].pending : e.save = job[t].id
  <2>1. job[t].id \in 1..Len(ended) /\ ended[job[t].id] = "open"
    BY <1>1, RunIsOpen
  <2>2. job[t].id \in 1..MaxJobs
    BY <2>1, Bounds
  <2> QED BY <1>1, <2>1, <2>2 DEF Inv, JobOK, Running
<1>6. s.op = "update" => /\ Entry(t, s) \in Recorded /\ Entry(t, s).save = job[t].id
                         /\ engine = "mysql" => Entry(t, s).key = Entry(t, s).newKey
  <2>1. s.op = "update" => s \in Edit
    BY <1>2, StatementFields
  <2> QED BY <1>5, <2>1, EntryFields DEF Inv
<1>7. Images(t, s) \in [Key -> Row]
  BY <1>4 DEF Images, Inv, TypeOK
<1>8. /\ next \in Job /\ next.at = "run" /\ next.id = job[t].id /\ next.all = c
      /\ next.todo = Tail(job[t].todo) /\ next.image = Images(t, s)
      /\ next.pending = IF s.op = "update" THEN job[t].pending \cup {Entry(t, s)} ELSE job[t].pending
  <2> HIDE DEF s
  <2> QED BY <1>1, <1>2, <1>4, <1>6, <1>7 DEF Job
<1> HIDE DEF next, s
<1>9. /\ job' \in [Tab -> Job] /\ job'[t] = next
      /\ \A u \in Tab : u # t => job'[u] = job[u]
  BY <1>1, <1>8, OneJob
<1>10. /\ rows' = [k \in Key |-> IF k \in Touched(s) THEN Leaves(s, k) ELSE rows[k]]
       /\ rows' \in [Key -> Row]
  BY <1>1, <1>2, AfterIs DEF Inv, TypeOK
<1>11. /\ lock' \in [Key -> Tab \cup {Free}]
       /\ \A k \in Key : lock'[k] = IF k \in Touched(s) THEN t ELSE lock[k]
       /\ \A k \in Touched(s) : lock[k] \in {t, Free}
  BY <1>1 DEF Locks, MayLock, Inv, TypeOK
<1>12. TypeOK'
  BY <1>1, <1>9, <1>10, <1>11 DEF Inv, TypeOK
<1>13. JobOK(t)'
  <2>1. \A k \in Key : /\ lock'[k] = t <=> k \in TouchedBy(c, n + 1)
                       /\ lock'[k] = t => rows'[k] = LeftBy(c, n + 1, k)
    <3>1. ASSUME NEW k \in Key
          PROVE  /\ lock'[k] = t <=> k \in TouchedBy(c, n + 1)
                 /\ lock'[k] = t => rows'[k] = LeftBy(c, n + 1, k)
      <4>1. /\ k \in TouchedBy(c, n + 1) <=> k \in TouchedBy(c, n) \/ k \in Touched(s)
            /\ k \in TouchedBy(c, n + 1) => LeftBy(c, n + 1, k) = IF k \in Touched(s) THEN Leaves(s, k)
                                                               ELSE LeftBy(c, n, k)
        BY <1>2, <1>3, OneMore
      <4> QED BY <1>2, <1>10, <1>11, <4>1
    <3> QED BY <3>1
  <2>2. n + 1 \in 0..Len(c)
    BY <1>2, <1>3
  <2>3. \A e \in next.pending : e.save = next.id
    BY <1>5, <1>6, <1>8
  <2>4. Running(t)'
    <3>1. /\ job'[t].all = c /\ job'[t].id = job[t].id /\ job'[t].pending = next.pending /\ next.id = job[t].id
          /\ job'[t].todo = [i \in 1..(Len(c) - (n + 1)) |-> c[(n + 1) + i]]
      BY <1>2, <1>8, <1>9
    <3>2. job'[t].id \in 1..Len(ended') /\ ended'[job'[t].id] = "open"
      BY <1>1, <1>5, <3>1
    <3> HIDE DEF c
    <3> QED BY <1>3, <2>1, <2>2, <2>3, <3>1, <3>2 DEF Running
  <2> QED BY <1>7, <1>8, <1>9, <2>4 DEF JobOK
<1>14. ASSUME NEW u \in Tab, u # t
       PROVE  JobOK(u)'
  <2>1. \A k \in Key : (lock'[k] = u <=> lock[k] = u) /\ (lock[k] = u => rows'[k] = rows[k])
    BY <1>10, <1>11, <1>14, NamesAssumption
  <2>2. job[u].at = "run" => ended'[job[u].id] = "open"
    BY <1>1, <1>14, RunIsOpen
  <2> QED BY <1>1, <1>9, <1>14, <2>1, <2>2, OtherJobs
<1>15. OwnIds'
  BY <1>1, <1>8, <1>9 DEF Inv, OwnIds
<1>16. MySqlKeys' /\ \A e \in history' : Kept(e)'
  BY <1>1, <1>6, <1>8, <1>9 DEF Inv, MySqlKeys, Kept
<1> QED BY <1>12, <1>13, <1>14, <1>15, <1>16 DEF Inv

\* A save ends, and every other one is as it was.
Ending(q, i, x) == [q EXCEPT ![i] = x]

LEMMA EndsOne ==
    ASSUME NEW S, NEW q \in Seq(S), NEW i \in 1..Len(q), NEW x \in S
    PROVE  /\ Ending(q, i, x) \in Seq(S) /\ Len(Ending(q, i, x)) = Len(q)
           /\ \A j \in 1..Len(q) : j # i => Ending(q, i, x)[j] = q[j]
BY DEF Ending

LEMMA EndsItsOwn ==
    ASSUME Inv, NEW t \in Tab, job[t].at = "run", NEW x \in Outcome,
           ended' = Ending(ended, job[t].id, x)
    PROVE  /\ ended' \in Seq(Outcome) /\ Len(ended') = Len(ended)
           /\ ended'[job[t].id] = x /\ \A j \in 1..Len(ended) : j # job[t].id => ended'[j] = ended[j]
<1>1. ended \in Seq(Outcome)
  BY EndedType
<1> DEFINE i == job[t].id
<1>2. i \in 1..Len(ended) /\ ended' = Ending(ended, i, x)
  BY RunIsOpen
<1> HIDE DEF i
<1>3. /\ Ending(ended, i, x) \in Seq(Outcome) /\ Len(Ending(ended, i, x)) = Len(ended)
      /\ \A j \in 1..Len(ended) : j # i => Ending(ended, i, x)[j] = ended[j]
  BY <1>1, <1>2, EndsOne
<1>4. Ending(ended, i, x)[i] = x
  BY <1>1, <1>2 DEF Ending
<1> QED BY <1>2, <1>3, <1>4, Zenon DEF i

\* What a save or an undo that stops holding its rows leaves right.
LEMMA Releases ==
    ASSUME Inv, NEW t \in Tab, NEW next \in Job, job' = [job EXCEPT ![t] = next],
           next.at \in {"none", "record"}, next.at = "none" => next.pending = {},
           next.pending \subseteq job[t].pending,
           next.at = "record" => \A e \in next.pending : e.save \in 1..Len(ended') /\ ended'[e.save] = "committed",
           Unlock(t), rows' \in [Key -> Row],
           \A k \in Key : lock[k] \notin {t, Free} => rows'[k] = rows[k],
           \/ ended' = ended
           \/ job[t].at = "run" /\ \E x \in Outcome : ended' = Ending(ended, job[t].id, x),
           UNCHANGED <<engine, grid, history, others>>
    PROVE  Inv'
<1>1. /\ job' \in [Tab -> Job] /\ job'[t] = next
      /\ \A u \in Tab : u # t => job'[u] = job[u]
  BY OneJob
<1>2. /\ lock' \in [Key -> Tab \cup {Free}]
      /\ \A k \in Key : lock'[k] = IF lock[k] = t THEN Free ELSE lock[k]
  BY DEF Unlock, Inv, TypeOK
<1>3. /\ ended' \in Seq(Outcome) /\ Len(ended') = Len(ended)
      /\ \A j \in 1..Len(ended) : (job[t].at # "run" \/ j # job[t].id) => ended'[j] = ended[j]
      /\ \A j \in 1..Len(ended) : ended[j] = "committed" => ended'[j] = "committed"
  <2>1. CASE ended' = ended
    BY <2>1, EndedType
  <2>2. CASE job[t].at = "run" /\ \E x \in Outcome : ended' = Ending(ended, job[t].id, x)
    <3>1. PICK x \in Outcome : ended' = Ending(ended, job[t].id, x)
      BY <2>2
    <3>2. job[t].id \in 1..Len(ended) /\ ended[job[t].id] = "open"
      BY <2>2, RunIsOpen
    <3>3. /\ ended' \in Seq(Outcome) /\ Len(ended') = Len(ended)
          /\ ended'[job[t].id] = x /\ \A j \in 1..Len(ended) : j # job[t].id => ended'[j] = ended[j]
      BY <2>2, <3>1, EndsItsOwn
    <3> QED BY <2>2, <3>2, <3>3
  <2> QED BY <2>1, <2>2
<1>4. TypeOK'
  <2>1. Len(ended') \in 0..MaxJobs
    BY <1>3, Bounds
  <2> QED BY <1>1, <1>2, <1>3, <2>1 DEF Inv, TypeOK
<1>5. JobOK(t)'
  BY <1>1, <1>2, NamesAssumption DEF JobOK, Kept
<1>6. ASSUME NEW u \in Tab, u # t
      PROVE  JobOK(u)'
  <2>1. \A k \in Key : (lock'[k] = u <=> lock[k] = u) /\ (lock[k] = u => rows'[k] = rows[k])
    BY <1>2, <1>6, NamesAssumption
  <2>2. ASSUME job[u].at = "run"
        PROVE  ended'[job[u].id] = "open"
    <3>1. job[u].id \in 1..Len(ended) /\ ended[job[u].id] = "open"
      BY <1>6, <2>2, RunIsOpen
    <3>2. job[t].at # "run" \/ job[u].id # job[t].id
      BY <1>6, <2>2 DEF Inv, OwnIds
    <3> QED BY <1>3, <3>1, <3>2
  <2>3. \A i \in 1..Len(ended) : i \in 1..Len(ended') /\ (ended[i] = "committed" => ended'[i] = "committed")
    BY <1>3
  <2> QED BY <1>1, <1>6, <2>1, <2>2, <2>3, OtherJobs
<1>7. OwnIds'
  BY <1>1 DEF Inv, OwnIds
<1>8. MySqlKeys'
  BY <1>1 DEF Inv, MySqlKeys
<1>9. \A e \in history' : Kept(e)'
  BY <1>3 DEF Inv, Kept
<1> QED BY <1>4, <1>5, <1>6, <1>7, <1>8, <1>9 DEF Inv

\* What a rollback puts back.
LEMMA RolledBack ==
    ASSUME Inv, NEW t \in Tab, job[t].at = "run", RollBack(t)
    PROVE  /\ Unlock(t) /\ rows' \in [Key -> Row]
           /\ \A k \in Key : rows'[k] = IF lock[k] = t THEN job[t].image[k] ELSE rows[k]
<1>1. job[t].image \in [Key -> Row] /\ rows \in [Key -> Row]
  BY DEF Inv, JobOK, TypeOK
<1> QED BY <1>1 DEF RollBack, Unlock

LEMMA SaveFailsStep ==
    ASSUME Inv, NEW t \in Tab, SaveFails(t)
    PROVE  Inv'
<1>1. /\ job[t].at = "run" /\ RollBack(t) /\ job' = [job EXCEPT ![t] = NoJob]
      /\ ended' = Ending(ended, job[t].id, "rolled back")
      /\ UNCHANGED <<engine, grid, history, others>>
  BY DEF SaveFails, Ending
<1>2. /\ Unlock(t) /\ rows' \in [Key -> Row]
      /\ \A k \in Key : lock[k] \notin {t, Free} => rows'[k] = rows[k]
  BY <1>1, RolledBack
<1>3. NoJob.pending \subseteq job[t].pending
  BY NoJobFields
<1> QED BY <1>1, <1>2, <1>3, NoJobFields, Outcomes, Releases

\* The job that has its entries still to write.
LEMMA RecordingFields ==
    ASSUME Inv, NEW t \in Tab
    PROVE  /\ Recording(t) \in Job /\ Recording(t).at = "record" /\ Recording(t).pending = job[t].pending
<1>1. job[t] \in Job
  BY DEF Inv, TypeOK
<1>2. 0 \in 0..MaxJobs
  BY Bounds
<1> QED BY <1>1, <1>2 DEF Recording, Job

LEMMA CommitStep ==
    ASSUME Inv, NEW t \in Tab, Commit(t)
    PROVE  Inv'
<1>1. job[t].at = "run" /\ job[t].id \in 1..Len(ended) /\ UNCHANGED <<engine, grid, history, others>>
  BY RunIsOpen DEF Commit
<1>2. CASE /\ Unlock(t) /\ UNCHANGED rows
           /\ ended' = Ending(ended, job[t].id, "committed")
           /\ \E at \in {"none", "record"} : job' = [job EXCEPT ![t] = IF at = "none" THEN NoJob ELSE Recording(t)]
  <2>1. PICK at \in {"none", "record"} : job' = [job EXCEPT ![t] = IF at = "none" THEN NoJob ELSE Recording(t)]
    BY <1>2
  <2>2. ended'[job[t].id] = "committed" /\ Len(ended') = Len(ended)
    BY <1>1, <1>2, Outcomes, EndsItsOwn
  <2>3. \A e \in job[t].pending : e.save = job[t].id
    BY <1>1 DEF Inv, JobOK, Running
  <2>4. rows' \in [Key -> Row]
    BY <1>2 DEF Inv, TypeOK
  <2>5. CASE at = "none"
    <3>1. job' = [job EXCEPT ![t] = NoJob]
      BY <2>1, <2>5
    <3>2. NoJob.pending \subseteq job[t].pending
      BY NoJobFields
    <3> QED BY <1>1, <1>2, <2>4, <3>1, <3>2, NoJobFields, Outcomes, Releases
  <2>6. CASE at = "record"
    <3>1. job' = [job EXCEPT ![t] = Recording(t)]
      BY <2>1, <2>6
    <3>2. \A e \in Recording(t).pending : e.save \in 1..Len(ended') /\ ended'[e.save] = "committed"
      BY <1>1, <2>2, <2>3, RecordingFields
    <3> QED BY <1>1, <1>2, <2>4, <3>1, <3>2, RecordingFields, Outcomes, Releases
  <2> QED BY <2>5, <2>6
<1>3. CASE /\ RollBack(t) /\ ended' = Ending(ended, job[t].id, "rolled back")
           /\ job' = [job EXCEPT ![t] = NoJob]
  <2>1. /\ Unlock(t) /\ rows' \in [Key -> Row]
        /\ \A k \in Key : lock[k] \notin {t, Free} => rows'[k] = rows[k]
    BY <1>1, <1>3, RolledBack
  <2>2. NoJob.pending \subseteq job[t].pending
    BY NoJobFields
  <2> QED BY <1>1, <1>3, <2>1, <2>2, NoJobFields, Outcomes, Releases
<1> QED BY <1>2, <1>3 DEF Commit, Ending

\* The entries of a save are written once it has committed, or are lost.
LEMMA RecordStep ==
    ASSUME Inv, NEW t \in Tab, Record(t)
    PROVE  Inv'
<1>1. /\ job[t].at = "record" /\ job' = [job EXCEPT ![t] = NoJob]
      /\ UNCHANGED <<engine, rows, lock, grid, ended, others>>
      /\ history \subseteq history' /\ \A e \in history' : e \in history \/ e \in job[t].pending
  BY DEF Record
<1>2. /\ job' \in [Tab -> Job] /\ job'[t] = NoJob
      /\ \A u \in Tab : u # t => job'[u] = job[u]
  BY <1>1, NoJobFields, OneJob
<1>3. job[t].pending \subseteq Recorded
  BY DEF Inv, TypeOK, Job
<1>4. TypeOK'
  <2>1. history' \subseteq Recorded
    BY <1>1, <1>3 DEF Inv, TypeOK
  <2> QED BY <1>1, <1>2, <2>1 DEF Inv, TypeOK
<1>5. JobOK(t)'
  <2>1. \A k \in Key : lock[k] # t
    BY <1>1 DEF Inv, JobOK
  <2> QED BY <1>1, <1>2, <2>1, NoJobFields DEF JobOK
<1>6. ASSUME NEW u \in Tab, u # t
      PROVE  JobOK(u)'
  <2>1. job[u].at = "run" => ended'[job[u].id] = "open"
    BY <1>1, <1>6, RunIsOpen
  <2> QED BY <1>1, <1>2, <1>6, <2>1, OtherJobs
<1>7. OwnIds'
  BY <1>2, NoJobFields DEF Inv, OwnIds
<1>8. MySqlKeys'
  BY <1>1, <1>2, NoJobFields DEF Inv, MySqlKeys
<1>9. \A e \in history' : Kept(e)'
  <2>1. \A e \in job[t].pending : Kept(e)
    BY <1>1 DEF Inv, JobOK
  <2> QED BY <1>1, <2>1 DEF Inv, Kept
<1> QED BY <1>4, <1>5, <1>6, <1>7, <1>8, <1>9 DEF Inv

LEMMA UndoPgStep ==
    ASSUME Inv, NEW t \in Tab, UndoPg(t)
    PROVE  Inv'
<1>1. PICK e \in history :
          /\ \A k \in Touched(Undoing(e)) : lock[k] = Free
          /\ rows' = After(rows, Undoing(e))
  BY DEF UndoPg
<1>2. UNCHANGED <<engine, lock, grid, job, history, ended, others>>
  BY DEF UndoPg
<1>3. e \in Recorded /\ Undoing(e) \in Statement
  BY UndoingFields DEF Inv, TypeOK
<1>4. /\ rows' = [k \in Key |-> IF k \in Touched(Undoing(e)) THEN Leaves(Undoing(e), k) ELSE rows[k]]
      /\ rows' \in [Key -> Row]
  BY <1>1, <1>3, AfterIs DEF Inv, TypeOK
<1>5. TypeOK'
  BY <1>2, <1>4 DEF Inv, TypeOK
<1>6. ASSUME NEW u \in Tab
      PROVE  JobOK(u)'
  <2>1. \A k \in Key : (lock'[k] = u <=> lock[k] = u) /\ (lock[k] = u => rows'[k] = rows[k])
    BY <1>1, <1>2, <1>4, NamesAssumption
  <2>2. job[u].at = "run" => ended'[job[u].id] = "open"
    BY <1>2, RunIsOpen
  <2> QED BY <1>2, <2>1, <2>2, OtherJobs
<1>7. OwnIds' /\ MySqlKeys' /\ \A f \in history' : Kept(f)'
  BY <1>2 DEF Inv, OwnIds, MySqlKeys, Kept
<1> QED BY <1>5, <1>6, <1>7 DEF Inv

\* An undo holds the row it has compared.
LEMMA UndoReadsStep ==
    ASSUME Inv, NEW t \in Tab, UndoReads(t)
    PROVE  Inv'
<1>1. PICK e \in history :
          /\ lock[e.key] = Free /\ Unchanged(e)
          /\ lock' = [lock EXCEPT ![e.key] = t] /\ job' = [job EXCEPT ![t] = Checked(e)]
  BY DEF UndoReads
<1>2. /\ engine = "mysql" /\ job[t].at = "none"
      /\ UNCHANGED <<engine, rows, grid, history, ended, others>>
  BY DEF UndoReads
<1>3. /\ e \in Recorded /\ Undoing(e) \in Statement /\ e.newKey \in Key /\ e.key = e.newKey
  BY <1>2, UndoingFields DEF Inv, TypeOK, MySqlKeys
<1>4. /\ Checked(e) \in Job /\ Checked(e).at = "read" /\ Checked(e).todo = <<Undoing(e)>>
      /\ Checked(e).image = rows /\ Checked(e).pending = {}
  <2>1. rows \in [Key -> Row]
    BY DEF Inv, TypeOK
  <2>2. 0 \in 0..MaxJobs
    BY Bounds
  <2>3. <<Undoing(e)>> \in Seq(Statement)
    BY <1>3
  <2> QED BY <2>1, <2>2, <2>3 DEF Checked, Job
<1>5. /\ job' \in [Tab -> Job] /\ job'[t] = Checked(e)
      /\ \A u \in Tab : u # t => job'[u] = job[u]
  BY <1>1, <1>4, OneJob
<1>6. /\ lock' \in [Key -> Tab \cup {Free}]
      /\ \A k \in Key : lock'[k] = IF k = e.newKey THEN t ELSE lock[k]
      /\ lock[e.newKey] = Free /\ rows[e.newKey] = e.after
  BY <1>1, <1>3 DEF Unchanged, Inv, TypeOK
<1>7. TypeOK'
  BY <1>2, <1>5, <1>6 DEF Inv, TypeOK
<1>8. JobOK(t)'
  <2>1. \A k \in Key : lock[k] # t
    BY <1>2 DEF Inv, JobOK
  <2>2. Reading(t)'
    BY <1>2, <1>4, <1>5, <1>6, <2>1 DEF Reading
  <2>3. rows \in [Key -> Row]
    BY DEF Inv, TypeOK
  <2> QED BY <1>4, <1>5, <2>2, <2>3 DEF JobOK
<1>9. ASSUME NEW u \in Tab, u # t
      PROVE  JobOK(u)'
  <2>1. \A k \in Key : (lock'[k] = u <=> lock[k] = u) /\ (lock[k] = u => rows'[k] = rows[k])
    BY <1>2, <1>6, <1>9, NamesAssumption
  <2>2. job[u].at = "run" => ended'[job[u].id] = "open"
    BY <1>2, <1>9, RunIsOpen
  <2> QED BY <1>2, <1>5, <1>9, <2>1, <2>2, OtherJobs
<1>10. OwnIds'
  BY <1>4, <1>5 DEF Inv, OwnIds
<1>11. MySqlKeys' /\ \A f \in history' : Kept(f)'
  BY <1>2, <1>4, <1>5 DEF Inv, MySqlKeys, Kept
<1> QED BY <1>7, <1>8, <1>9, <1>10, <1>11 DEF Inv

\* The entry an undo that has read its row undoes, and what the write does to the rows.
LEMMA UndoWritesEntry ==
    ASSUME Inv, NEW t \in Tab, job[t].at = "read"
    PROVE  \E e \in history :
               /\ e \in Recorded /\ Head(job[t].todo) = Undoing(e) /\ Undoing(e) \in Statement
               /\ e.newKey \in Key /\ \A k \in Key : lock[k] = t <=> k = e.newKey
               /\ rows[e.newKey] = e.after /\ job[t].image[e.newKey] = e.after
               /\ After(rows, Undoing(e))
                  = [k \in Key |-> IF k \in Touched(Undoing(e)) THEN Leaves(Undoing(e), k) ELSE rows[k]]
               /\ After(rows, Undoing(e)) \in [Key -> Row]
<1>1. PICK e \in history :
          /\ job[t].todo = <<Undoing(e)>> /\ \A k \in Key : lock[k] = t <=> k = e.newKey
          /\ rows[e.newKey] = e.after /\ job[t].image[e.newKey] = e.after
  BY DEF Inv, JobOK, Reading
<1>2. e \in Recorded /\ Undoing(e) \in Statement /\ e.newKey \in Key
  BY UndoingFields DEF Inv, TypeOK
<1>3. rows \in [Key -> Row]
  BY DEF Inv, TypeOK
<1>4. Head(job[t].todo) = Undoing(e)
  BY <1>1
<1> QED BY <1>1, <1>2, <1>3, <1>4, AfterIs

LEMMA UndoWritesStep ==
    ASSUME Inv, NEW t \in Tab, UndoWrites(t)
    PROVE  Inv'
<1>1. /\ job[t].at = "read" /\ job' = [job EXCEPT ![t] = NoJob] /\ Unlock(t)
      /\ UNCHANGED <<engine, grid, history, ended, others>>
      /\ \/ MayLock(t, Head(job[t].todo)) /\ rows' = After(rows, Head(job[t].todo))
         \/ rows' = rows
  BY DEF UndoWrites
<1>2. PICK e \in history :
          /\ Head(job[t].todo) = Undoing(e)
          /\ After(rows, Undoing(e))
             = [k \in Key |-> IF k \in Touched(Undoing(e)) THEN Leaves(Undoing(e), k) ELSE rows[k]]
          /\ After(rows, Undoing(e)) \in [Key -> Row]
  BY <1>1, UndoWritesEntry
<1>3. rows' \in [Key -> Row] /\ \A k \in Key : lock[k] \notin {t, Free} => rows'[k] = rows[k]
  BY <1>1, <1>2 DEF MayLock, Inv, TypeOK
<1>4. NoJob.pending \subseteq job[t].pending
  BY NoJobFields
<1> QED BY <1>1, <1>3, <1>4, NoJobFields, Releases

-----------------------------------------------------------------------------
(* What holds of every behaviour. *)

LEMMA InitInv == Init => Inv
<1> SUFFICES ASSUME Init PROVE Inv
  OBVIOUS
<1>1. TypeOK
  <2>1. ended \in Seq(Outcome) /\ Len(ended) \in 0..MaxJobs /\ others \in 0..MaxOthers
    BY NamesAssumption DEF Init
  <2>2. /\ engine \in {"mysql", "postgresql"} /\ rows \in [Key -> Row] /\ lock \in [Key -> Tab \cup {Free}]
        /\ grid \in [Tab -> [Key -> Row]] /\ job \in [Tab -> Job] /\ history \subseteq Recorded
    BY NoJobFields DEF Init, Row
  <2> QED BY <2>1, <2>2 DEF TypeOK
<1>2. \A t \in Tab : JobOK(t)
  BY NoJobFields, NamesAssumption DEF Init, JobOK
<1>3. OwnIds /\ MySqlKeys /\ \A e \in history : Kept(e)
  BY NoJobFields DEF Init, OwnIds, MySqlKeys
<1> QED BY <1>1, <1>2, <1>3 DEF Inv

LEMMA NextInv == Inv /\ [Next]_vars => Inv'
<1> SUFFICES ASSUME Inv, [Next]_vars PROVE Inv'
  OBVIOUS
<1>1. CASE OtherClient
  BY <1>1, OtherClientStep
<1>2. ASSUME NEW t \in Tab,
             \/ Load(t) \/ StartSave(t) \/ Execute(t) \/ SaveFails(t) \/ Commit(t) \/ Record(t)
             \/ UndoPg(t) \/ UndoReads(t) \/ UndoWrites(t)
      PROVE  Inv'
  BY <1>2, LoadStep, StartSaveStep, ExecuteStep, SaveFailsStep, CommitStep, RecordStep, UndoPgStep,
     UndoReadsStep, UndoWritesStep
<1>3. CASE UNCHANGED vars
  <2>1. TypeOK'
    BY <1>3 DEF vars, Inv, TypeOK
  <2>2. ASSUME NEW u \in Tab
        PROVE  JobOK(u)'
    <3>1. job[u].at = "run" => ended'[job[u].id] = "open"
      BY <1>3, RunIsOpen DEF vars
    <3> QED BY <1>3, <3>1, OtherJobs DEF vars
  <2>3. OwnIds' /\ MySqlKeys' /\ \A e \in history' : Kept(e)'
    BY <1>3 DEF vars, Inv, OwnIds, MySqlKeys, Kept
  <2> QED BY <2>1, <2>2, <2>3 DEF Inv
<1> QED BY <1>1, <1>2, <1>3 DEF Next

THEOREM InvHolds == Spec => []Inv
BY InitInv, NextInv, PTL DEF Spec

\* The rows, the locks, the jobs and the history are always what they are meant to be.
THEOREM TypeCorrect == Spec => []TypeOK
BY InvHolds, PTL DEF Inv

\* Only edits that were committed are recorded: HistoryIsOfCommits of the saves of
\* mysql_save_rows and saveRows, whose entries are written after the commit.
THEOREM HistoryHolds == Spec => []HistoryIsOfCommits
<1>1. Inv => HistoryIsOfCommits
  BY DEF Inv, HistoryIsOfCommits, Kept
<1> QED BY <1>1, InvHolds, PTL

-----------------------------------------------------------------------------
(* What is durable. *)

\* What is durable changes only where a transaction ends or nobody holds the row.
LEMMA DurableNext == Inv' => Durable' \in [Key -> Row]
<1>1. Inv => Durable \in [Key -> Row]
  BY DurableType
<1>2. Inv' => (Durable \in [Key -> Row])'
  BY <1>1, PTL
<1> QED BY <1>2

LEMMA DurableAt ==
    ASSUME Inv, Inv', NEW k \in Key
    PROVE  /\ Durable[k] = IF lock[k] = Free THEN rows[k] ELSE job[lock[k]].image[k]
           /\ Durable'[k] = IF lock'[k] = Free THEN rows'[k] ELSE job'[lock'[k]].image[k]
           /\ Durable \in [Key -> Row] /\ Durable' \in [Key -> Row]
           /\ lock[k] \in Tab \cup {Free}
<1>1. lock[k] \in Tab \cup {Free}
  BY DEF Inv, TypeOK
<1>2. Durable \in [Key -> Row] /\ Durable' \in [Key -> Row]
  BY DurableType, DurableNext
<1> QED BY <1>1, <1>2 DEF Durable

\* Two tables that agree at every key.
LEMMA SameRows ==
    ASSUME NEW f \in [Key -> Row], NEW g \in [Key -> Row], \A k \in Key : f[k] = g[k]
    PROVE  f = g
OBVIOUS

\* A statement a transaction executes, or a row an undo locks, leaves what is durable.
LEMMA ExecuteKeepsDurable ==
    ASSUME Inv, Inv', NEW t \in Tab, Execute(t)
    PROVE  Durable' = Durable
<1> DEFINE s == Head(job[t].todo)
           next == [job[t] EXCEPT !.todo = Tail(job[t].todo), !.image = Images(t, s),
                                  !.pending = IF s.op = "update" THEN job[t].pending \cup {Entry(t, s)}
                                              ELSE job[t].pending]
<1>1. /\ job[t].at = "run" /\ job[t].todo # <<>> /\ MayLock(t, s) /\ Locks(t, s)
      /\ rows' = After(rows, s) /\ job' = [job EXCEPT ![t] = next]
  BY DEF Execute
<1>2. s \in Statement
  <2>1. PICK n \in 0..Len(job[t].all) : Head(job[t].todo) = job[t].all[n + 1] /\ job[t].all[n + 1] \in Statement
    BY <1>1, NextStatement
  <2> QED BY <2>1
<1>3. job[t] \in Job /\ job \in [Tab -> Job] /\ lock \in [Key -> Tab \cup {Free}] /\ rows \in [Key -> Row]
  BY DEF Inv, TypeOK
<1>4. next.image = Images(t, s)
  <2> HIDE DEF s
  <2> QED BY <1>3 DEF Job
<1> HIDE DEF next
<1>5. job'[t].image = Images(t, s) /\ \A u \in Tab : u # t => job'[u] = job[u]
  BY <1>1, <1>3, <1>4
<1> HIDE DEF s
<1>6. ASSUME NEW k \in Key
      PROVE  Durable'[k] = Durable[k]
  <2>1. /\ lock'[k] = IF k \in Touched(s) THEN t ELSE lock[k]
        /\ k \in Touched(s) => lock[k] \in {t, Free}
        /\ k \notin Touched(s) => rows'[k] = rows[k]
        /\ job'[t].image[k] = IF k \in Touched(s) /\ lock[k] = Free THEN rows[k] ELSE job[t].image[k]
    BY <1>1, <1>2, <1>3, <1>5, <1>6, AfterIs DEF Locks, MayLock, Images
  <2> QED BY <1>5, <1>6, <2>1, DurableAt, NamesAssumption
<1>7. Durable \in [Key -> Row] /\ Durable' \in [Key -> Row]
  BY DurableType, DurableNext
<1> QED BY <1>6, <1>7, SameRows

LEMMA StartSaveKeepsDurable ==
    ASSUME Inv, Inv', NEW t \in Tab, StartSave(t)
    PROVE  Durable' = Durable
<1>1. /\ \A k \in Key : lock[k] # t
      /\ rows' = rows /\ lock' = lock /\ job \in [Tab -> Job]
      /\ \E c \in Changes : job' = [job EXCEPT ![t] = Begun(c)]
  BY DEF StartSave, Inv, JobOK, TypeOK
<1>2. \A u \in Tab : u # t => job'[u] = job[u]
  BY <1>1
<1>3. \A k \in Key : Durable'[k] = Durable[k]
  BY <1>1, <1>2, DurableAt
<1> QED BY <1>3, DurableType, DurableNext, SameRows

\* A rollback, and a crash that is one, leaves what is durable.
LEMMA RollBackKeepsDurable ==
    ASSUME Inv, Inv', NEW t \in Tab, job[t].at = "run", RollBack(t), job' = [job EXCEPT ![t] = NoJob]
    PROVE  Durable' = Durable
<1>1. /\ Unlock(t) /\ \A k \in Key : rows'[k] = IF lock[k] = t THEN job[t].image[k] ELSE rows[k]
  BY RolledBack
<1>2. /\ \A k \in Key : lock'[k] = IF lock[k] = t THEN Free ELSE lock[k]
      /\ \A u \in Tab : u # t => job'[u] = job[u]
  BY <1>1 DEF Unlock, Inv, TypeOK
<1>3. \A k \in Key : Durable'[k] = Durable[k]
  BY <1>1, <1>2, DurableAt, NamesAssumption
<1> QED BY <1>3, DurableType, DurableNext, SameRows

LEMMA RecordKeepsDurable ==
    ASSUME Inv, Inv', NEW t \in Tab, Record(t)
    PROVE  Durable' = Durable
<1>1. /\ \A k \in Key : lock[k] # t
      /\ rows' = rows /\ lock' = lock /\ job' = [job EXCEPT ![t] = NoJob] /\ job \in [Tab -> Job]
  BY DEF Record, Inv, JobOK, TypeOK
<1>2. \A u \in Tab : u # t => job'[u] = job[u]
  BY <1>1
<1>3. \A k \in Key : Durable'[k] = Durable[k]
  BY <1>1, <1>2, DurableAt
<1> QED BY <1>3, DurableType, DurableNext, SameRows

LEMMA UndoReadsKeepsDurable ==
    ASSUME Inv, Inv', NEW t \in Tab, UndoReads(t)
    PROVE  Durable' = Durable
<1>1. PICK e \in history :
          /\ lock[e.key] = Free /\ lock' = [lock EXCEPT ![e.key] = t] /\ job' = [job EXCEPT ![t] = Checked(e)]
  BY DEF UndoReads
<1>2. /\ \A k \in Key : lock[k] # t
      /\ rows' = rows /\ job \in [Tab -> Job] /\ lock \in [Key -> Tab \cup {Free}]
  BY DEF UndoReads, Inv, JobOK, TypeOK
<1>3. /\ job'[t].image = rows /\ \A u \in Tab : u # t => job'[u] = job[u]
  BY <1>1, <1>2 DEF Checked
<1>4. \A k \in Key : lock'[k] = IF k = e.key THEN t ELSE lock[k]
  BY <1>1, <1>2
<1>5. \A k \in Key : Durable'[k] = Durable[k]
  BY <1>1, <1>2, <1>3, <1>4, DurableAt, NamesAssumption
<1> QED BY <1>5, DurableType, DurableNext, SameRows

\* A save that commits has done all of its statements.
LEMMA AllDone ==
    ASSUME Inv, NEW t \in Tab, job[t].at = "run", job[t].todo = <<>>
    PROVE  LET c == job[t].all IN
           /\ c \in Changes
           /\ \A k \in Key : /\ lock[k] = t <=> k \in TouchedBy(c, Len(c))
                             /\ lock[k] = t => rows[k] = LeftBy(c, Len(c), k)
<1> DEFINE c == job[t].all
<1>1. c \in Changes
  BY DEF Inv, JobOK, Running
<1>2. PICK n \in 0..Len(c) :
          /\ job[t].todo = [i \in 1..(Len(c) - n) |-> c[n + i]]
          /\ \A k \in Key : /\ lock[k] = t <=> k \in TouchedBy(c, n)
                            /\ lock[k] = t => rows[k] = LeftBy(c, n, k)
  BY DEF Inv, JobOK, Running
<1> HIDE DEF c
<1>3. Len(c) \in 1..2
  BY <1>1, ChangesFields
<1>4. n = Len(c)
  <2>1. Len(job[t].todo) = Len(c) - n
    BY <1>2, <1>3
  <2> QED BY <1>2, <1>3, <2>1
<1> QED BY <1>1, <1>2, <1>4 DEF c

\* What a save that commits makes durable is all of its statements, and nothing else.
LEMMA CommitMakesDurable ==
    ASSUME Inv, Inv', NEW t \in Tab, Commit(t), Durable' # Durable
    PROVE  /\ ended'[job[t].id] = "committed" /\ job[t].id > 0
           /\ Durable' = AfterAll(Durable, job[t].all)
<1> DEFINE c == job[t].all
<1>1. /\ job[t].at = "run" /\ job[t].todo = <<>> /\ job[t].id \in 1..Len(ended) /\ Len(ended) \in Nat
      /\ job[t].id > 0
  BY RunIsOpen, Bounds DEF Commit
<1>2. ~(RollBack(t) /\ job' = [job EXCEPT ![t] = NoJob])
  BY <1>1, RollBackKeepsDurable
<1>3. /\ Unlock(t) /\ rows' = rows
      /\ ended' = Ending(ended, job[t].id, "committed")
      /\ \E at \in {"none", "record"} : job' = [job EXCEPT ![t] = IF at = "none" THEN NoJob ELSE Recording(t)]
  BY <1>2 DEF Commit, Ending
<1>4. ended'[job[t].id] = "committed"
  BY <1>1, <1>3, Outcomes, EndsItsOwn
<1>5. /\ \A k \in Key : lock'[k] = IF lock[k] = t THEN Free ELSE lock[k]
      /\ \A u \in Tab : u # t => job'[u] = job[u]
  BY <1>3 DEF Unlock, Inv, TypeOK
<1>6. c \in Changes /\ \A k \in Key : /\ lock[k] = t <=> k \in TouchedBy(c, Len(c))
                                      /\ lock[k] = t => rows[k] = LeftBy(c, Len(c), k)
  BY <1>1, AllDone
<1> HIDE DEF c
<1>7. AfterAll(Durable, c) = [k \in Key |-> IF k \in TouchedBy(c, Len(c)) THEN LeftBy(c, Len(c), k) ELSE Durable[k]]
  BY <1>6, DurableType, AfterAllIs
<1>8. \A k \in Key : Durable'[k] = IF lock[k] = t THEN rows[k] ELSE Durable[k]
  BY <1>3, <1>5, DurableAt, NamesAssumption
<1>9. Durable' = [k \in Key |-> Durable'[k]]
  BY DurableNext
<1>10. \A k \in Key : Durable'[k] = IF k \in TouchedBy(c, Len(c)) THEN LeftBy(c, Len(c), k) ELSE Durable[k]
  BY <1>6, <1>8
<1>11. Durable' = AfterAll(Durable, c)
  BY <1>7, <1>9, <1>10
<1> QED BY <1>1, <1>4, <1>11 DEF c

\* PostgreSQL's undo is one UPDATE of rows nobody holds.
LEMMA UndoPgMakesDurable ==
    ASSUME Inv, Inv', NEW t \in Tab, UndoPg(t)
    PROVE  \E e \in history : Durable[e.newKey] = e.after /\ Durable' = After(Durable, Undoing(e))
<1>1. PICK e \in history :
          /\ Unchanged(e) /\ \A k \in Touched(Undoing(e)) : lock[k] = Free
          /\ rows' = After(rows, Undoing(e))
  BY DEF UndoPg
<1> DEFINE s == Undoing(e)
<1>2. /\ s \in Statement /\ e.newKey \in Key /\ e.newKey \in Touched(s)
  BY UndoingFields DEF Inv, TypeOK
<1>3. lock' = lock /\ job' = job /\ rows[e.newKey] = e.after
  BY <1>1 DEF UndoPg, Unchanged
<1> HIDE DEF s
<1>4. /\ rows' = [k \in Key |-> IF k \in Touched(s) THEN Leaves(s, k) ELSE rows[k]]
      /\ After(Durable, s) = [k \in Key |-> IF k \in Touched(s) THEN Leaves(s, k) ELSE Durable[k]]
  <2>1. rows \in [Key -> Row] /\ rows' = After(rows, s)
    BY <1>1 DEF Inv, TypeOK, s
  <2> QED BY <1>2, <2>1, DurableType, AfterIs
<1>5. Durable[e.newKey] = e.after
  BY <1>1, <1>2, <1>3, DurableAt DEF s
<1>6. \A k \in Key : Durable'[k] = IF k \in Touched(s) THEN Leaves(s, k) ELSE Durable[k]
  BY <1>1, <1>3, <1>4, DurableAt DEF s
<1>7. Durable' = After(Durable, s)
  BY <1>4, <1>6, DurableNext
<1> QED BY <1>5, <1>7 DEF s

\* MySQL's undo writes the row it has held since it compared it.
LEMMA UndoWritesMakesDurable ==
    ASSUME Inv, Inv', NEW t \in Tab, UndoWrites(t), Durable' # Durable
    PROVE  \E e \in history : Durable[e.newKey] = e.after /\ Durable' = After(Durable, Undoing(e))
<1>1. /\ job[t].at = "read" /\ job' = [job EXCEPT ![t] = NoJob] /\ Unlock(t) /\ t # Free
      /\ \/ MayLock(t, Head(job[t].todo)) /\ rows' = After(rows, Head(job[t].todo))
         \/ rows' = rows
  BY NamesAssumption DEF UndoWrites
<1>2. PICK e \in history :
          /\ e \in Recorded /\ Head(job[t].todo) = Undoing(e) /\ Undoing(e) \in Statement
          /\ e.newKey \in Key /\ \A k \in Key : lock[k] = t <=> k = e.newKey
          /\ rows[e.newKey] = e.after /\ job[t].image[e.newKey] = e.after
          /\ After(rows, Undoing(e))
             = [k \in Key |-> IF k \in Touched(Undoing(e)) THEN Leaves(Undoing(e), k) ELSE rows[k]]
  BY <1>1, UndoWritesEntry
<1>3. e.newKey \in Touched(Undoing(e))
  BY <1>2, UndoingFields
<1> DEFINE s == Undoing(e)
<1>4. After(Durable, s) = [k \in Key |-> IF k \in Touched(s) THEN Leaves(s, k) ELSE Durable[k]]
  BY <1>2, DurableType, AfterIs
<1>5. /\ \A k \in Key : lock'[k] = IF lock[k] = t THEN Free ELSE lock[k]
      /\ \A u \in Tab : u # t => job'[u] = job[u]
  BY <1>1 DEF Unlock, Inv, TypeOK
<1>6. Durable[e.newKey] = e.after
  BY <1>1, <1>2, DurableAt
<1>7. CASE rows' = rows
  <2>1. \A k \in Key : Durable'[k] = Durable[k]
    BY <1>1, <1>2, <1>5, <1>6, <1>7, DurableAt
  <2> QED BY <2>1, DurableType, DurableNext, SameRows
<1>8. CASE MayLock(t, s) /\ rows' = After(rows, s)
  <2>1. \A k \in Touched(s) : lock[k] \in {t, Free}
    BY <1>8 DEF MayLock
  <2>2. rows' = [k \in Key |-> IF k \in Touched(s) THEN Leaves(s, k) ELSE rows[k]]
    BY <1>2, <1>8
  <2> HIDE DEF s
  <2>3. ASSUME NEW k \in Key
        PROVE  Durable'[k] = IF k \in Touched(s) THEN Leaves(s, k) ELSE Durable[k]
    <3>1. lock[k] = t => k \in Touched(s)
      BY <1>2, <1>3 DEF s
    <3> QED BY <1>1, <1>5, <2>1, <2>2, <3>1, DurableAt
  <2>4. Durable' = After(Durable, s)
    BY <1>4, <2>3, DurableNext
  <2> QED BY <1>6, <2>4 DEF s
<1> QED BY <1>1, <1>2, <1>7, <1>8

\* What a save makes durable is all of its statements or none (row_write.rs:1-4).
THEOREM SavesHold == Spec => SavesAreWhole
<1> DEFINE A == Durable' # Durable /\ ended' # ended =>
                \E t \in Tab : /\ job[t].id > 0 /\ ended'[job[t].id] = "committed"
                              /\ Durable' = AfterAll(Durable, job[t].all)
<1>1. Inv /\ Inv' /\ [Next]_vars => [A]_vars
  <2> SUFFICES ASSUME Inv, Inv', Next, Durable' # Durable, ended' # ended
               PROVE  \E t \in Tab : /\ job[t].id > 0 /\ ended'[job[t].id] = "committed"
                                     /\ Durable' = AfterAll(Durable, job[t].all)
    OBVIOUS
  <2>1. ~OtherClient
    BY DEF OtherClient
  <2>2. PICK t \in Tab : StartSave(t) \/ SaveFails(t) \/ Commit(t)
    BY <2>1 DEF Next, Load, Execute, Record, UndoPg, UndoReads, UndoWrites
  <2>3. ~StartSave(t)
    BY StartSaveKeepsDurable
  <2>4. ~SaveFails(t)
    BY RollBackKeepsDurable DEF SaveFails
  <2> QED BY <2>2, <2>3, <2>4, CommitMakesDurable
<1> QED BY <1>1, InvHolds, PTL DEF Spec, SavesAreWhole

\* An undo takes an edit back that is still there, and overwrites nothing newer
\* (history.rs:36-39, row_history.rs:98-102).
THEOREM UndoHolds == Spec => UndoOverwritesNothing
<1> DEFINE A == Durable' # Durable /\ ended' = ended /\ others' = others =>
                \E e \in history : Durable[e.newKey] = e.after /\ Durable' = After(Durable, Undoing(e))
<1>1. Inv /\ Inv' /\ [Next]_vars => [A]_vars
  <2> SUFFICES ASSUME Inv, Inv', Next, Durable' # Durable, ended' = ended, others' = others
               PROVE  \E e \in history : Durable[e.newKey] = e.after /\ Durable' = After(Durable, Undoing(e))
    OBVIOUS
  <2>1. ~OtherClient
    <3>1. others \in Nat
      BY Bounds
    <3> QED BY <3>1 DEF OtherClient
  <2>2. PICK t \in Tab :
            \/ Load(t) \/ StartSave(t) \/ Execute(t) \/ SaveFails(t) \/ Commit(t) \/ Record(t)
            \/ UndoPg(t) \/ UndoReads(t) \/ UndoWrites(t)
    BY <2>1 DEF Next
  <2>3. ~Load(t)
    BY DEF Load, Durable
  <2>4. ~StartSave(t) /\ ~Execute(t) /\ ~Record(t) /\ ~UndoReads(t)
    BY StartSaveKeepsDurable, ExecuteKeepsDurable, RecordKeepsDurable, UndoReadsKeepsDurable
  <2>5. ~SaveFails(t)
    BY RollBackKeepsDurable DEF SaveFails
  <2>6. ~Commit(t)
    <3>1. SUFFICES ASSUME Commit(t) PROVE FALSE
      OBVIOUS
    <3>2. ended[job[t].id] = "open"
      BY <3>1, RunIsOpen DEF Commit
    <3> QED BY <3>1, <3>2, CommitMakesDurable
  <2> QED BY <2>2, <2>3, <2>4, <2>5, <2>6, UndoPgMakesDurable, UndoWritesMakesDurable
<1> QED BY <1>1, InvHolds, PTL DEF Spec, UndoOverwritesNothing
=============================================================================
