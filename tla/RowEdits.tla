------------------------------- MODULE RowEdits -------------------------------
(***************************************************************************)
(* Saving a table tab's staged rows and undoing recorded edits, on MySQL   *)
(* (commands/mysql/row_write.rs, row_history.rs) and on PostgreSQL         *)
(* (engines/postgresql/saveRows.js over commands/postgres/row_write.rs,    *)
(* transaction.rs and history.rs).  Tabs save and undo at once, and other  *)
(* clients of the server write in between.                                 *)
(*                                                                         *)
(* One table of one of the two servers: a key and one other column.  An    *)
(* edit changes the column and may change the key.  A row a transaction    *)
(* wrote is locked until it ends.  MaxJobs bounds the saves, MaxOthers the *)
(* writes of other clients.                                                *)
(***************************************************************************)
EXTENDS Integers, Sequences

CONSTANTS Tab, Free, Key, Value, NoRow, MaxJobs, MaxOthers

ASSUME NamesAssumption ==
    NoRow \notin Value /\ Free \notin Tab /\ MaxJobs \in Nat /\ MaxOthers \in Nat

Edit == [op : {"update"}, key : Key, before : Value, newKey : Key, after : Value]

\* What a save may hold: it inserts, then edits, then deletes.
Statement == [op : {"insert"}, key : Key, after : Value] \cup Edit \cup [op : {"delete"}, key : Key]

Changes == {c \in UNION {[1..n -> Statement] : n \in 1..2} :
              \A i \in 1..Len(c), j \in 1..Len(c) : i < j =>
                  /\ <<c[i].op, c[j].op>> \in {<<"insert", "update">>, <<"insert", "delete">>, <<"update", "delete">>}
                  /\ c[i].key # c[j].key}

VARIABLES
    engine,   \* of the connection
    rows,     \* the table, with what open transactions wrote
    lock,     \* the transaction that wrote each row
    grid,     \* the rows as each tab loaded them
    job,      \* each tab's save or undo
    history,  \* PgRowHistoryStore: the edits recorded for the table
    ended,    \* how each save ended, and what its user was told
    others    \* the writes other clients made

vars == <<engine, rows, lock, grid, job, history, ended, others>>

\* at: run, a statement of todo is next.  read: an undo's row is read and locked.  image:
\* the rows as they were before the job wrote them.  pending: the entries it queued.
NoJob == [at |-> "none", id |-> 0, todo |-> <<>>, all |-> <<>>, image |-> <<>>, pending |-> {}]

Durable == [k \in Key |-> IF lock[k] = Free THEN rows[k] ELSE job[lock[k]].image[k]]

Init ==
    /\ engine \in {"mysql", "postgresql"}
    /\ rows \in [Key -> Value \cup {NoRow}]
    /\ lock = [k \in Key |-> Free]
    /\ grid = [t \in Tab |-> rows]
    /\ job = [t \in Tab |-> NoJob]
    /\ history = {}
    /\ ended = <<>>
    /\ others = 0

Touched(s) == IF s.op = "update" THEN {s.key, s.newKey} ELSE {s.key}

\* The statement on rows f: how many it matches, and what it leaves.
Matches(f, s) == IF s.op = "insert" THEN f[s.key] = NoRow ELSE f[s.key] # NoRow
Clashes(f, s) == IF s.op = "update" THEN s.newKey # s.key /\ f[s.newKey] # NoRow /\ f[s.key] # NoRow
                 ELSE s.op = "insert" /\ f[s.key] # NoRow

\* insert_pg_row, update_pg_row and delete_pg_rows; MySQL's statements do the same.
Inserted(f, s) == [f EXCEPT ![s.key] = s.after]
Updated(f, s)  == [[f EXCEPT ![s.key] = NoRow] EXCEPT ![s.newKey] = s.after]
Deleted(f, s)  == [f EXCEPT ![s.key] = NoRow]

After(f, s) ==
    IF s.op = "insert" THEN Inserted(f, s) ELSE IF s.op = "delete" THEN Deleted(f, s) ELSE Updated(f, s)

-----------------------------------------------------------------------------
(* Other clients, and the tab's grid. *)

OtherClient ==
    /\ others < MaxOthers
    /\ \E k \in Key, v \in Value \cup {NoRow} :
        lock[k] = Free /\ rows[k] # v /\ rows' = [rows EXCEPT ![k] = v]
    /\ others' = others + 1
    /\ UNCHANGED <<engine, lock, grid, job, history, ended>>

Load(t) ==
    /\ job[t].at = "none" /\ grid[t] # Durable
    /\ grid' = [grid EXCEPT ![t] = Durable]
    /\ UNCHANGED <<engine, rows, lock, job, history, ended, others>>

-----------------------------------------------------------------------------
(* Saving. *)

\* The staged changes are made of the rows the grid shows; build_update and its kin refuse
\* what does not name a whole primary key before anything begins.
StagedFrom(g, c) == \A i \in 1..Len(c) :
    /\ (c[i].op # "insert") => g[c[i].key] # NoRow
    /\ (c[i].op = "update") => c[i].before = g[c[i].key] /\ c[i].after # c[i].before

Begun(c) == [at |-> "run", id |-> Len(ended) + 1, todo |-> c, all |-> c, image |-> rows, pending |-> {}]

\* mysql_save_rows; begin_pg_transaction of saveRows.
StartSave(t) ==
    /\ job[t].at = "none" /\ Len(ended) < MaxJobs
    /\ \E c \in Changes :
        /\ StagedFrom(grid[t], c)
        /\ job' = [job EXCEPT ![t] = Begun(c)]
    /\ ended' = Append(ended, "open")
    /\ UNCHANGED <<engine, rows, lock, grid, history, others>>

EntryUnder(t, s, key) ==
    [save |-> job[t].id, key |-> key, from |-> s.key, before |-> s.before, newKey |-> s.newKey, after |-> s.after]

\* The entry of an edit.  edited_key: MySQL's is under the key the row now has.  history_entry:
\* PostgreSQL's is under the key the grid had, as it was sent.
MySqlEntry(t, s) == EntryUnder(t, s, s.newKey)
PgEntry(t, s)    == EntryUnder(t, s, s.key)

Entry(t, s) == IF engine = "mysql" THEN MySqlEntry(t, s) ELSE PgEntry(t, s)

MayLock(t, s) == \A k \in Touched(s) : lock[k] \in {t, Free}

Locks(t, s) ==
    lock' = [k \in Key |-> IF k \in Touched(s) THEN t ELSE lock[k]]

\* Rows this job takes now were not its own before: their image is what is durable.
Images(t, s) == [k \in Key |-> IF k \in Touched(s) /\ lock[k] = Free THEN rows[k] ELSE job[t].image[k]]

\* A mistake the checks must catch: an edit recorded before its save has committed.
ExecuteRecords(t) ==
    /\ job[t].at = "run" /\ job[t].todo # <<>>
    /\ LET s == Head(job[t].todo) IN
        /\ MayLock(t, s) /\ Matches(rows, s) /\ ~Clashes(rows, s)
        /\ Locks(t, s)
        /\ rows' = After(rows, s)
        /\ job' = [job EXCEPT ![t].todo = Tail(@), ![t].image = Images(t, s)]
        /\ history' = IF s.op = "update" THEN history \cup {Entry(t, s)} ELSE history
    /\ UNCHANGED <<engine, grid, ended, others>>

\* execute and expect; insertRow, updateRow and deleteRows: a statement that matches its row.
Execute(t) ==
    /\ job[t].at = "run" /\ job[t].todo # <<>>
    /\ LET s == Head(job[t].todo) IN
        /\ MayLock(t, s) /\ Matches(rows, s) /\ ~Clashes(rows, s)
        /\ Locks(t, s)
        /\ rows' = After(rows, s)
        /\ job' = [job EXCEPT ![t].todo = Tail(@), ![t].image = Images(t, s),
                              ![t].pending = IF s.op = "update" THEN @ \cup {Entry(t, s)} ELSE @]
    /\ UNCHANGED <<engine, grid, history, ended, others>>

\* The transaction is dropped or rolled back: its rows are as they were.
RollBack(t) ==
    /\ rows' = [k \in Key |-> IF lock[k] = t THEN job[t].image[k] ELSE rows[k]]
    /\ lock' = [k \in Key |-> IF lock[k] = t THEN Free ELSE lock[k]]

\* A mistake the checks must catch: a statement that matched no row taken for done.
SkipsRow(t) ==
    /\ job[t].at = "run" /\ job[t].todo # <<>>
    /\ LET s == Head(job[t].todo) IN MayLock(t, s) /\ ~Matches(rows, s)
    /\ job' = [job EXCEPT ![t].todo = Tail(@)]
    /\ UNCHANGED <<engine, rows, lock, grid, history, ended, others>>

\* A row that is gone or clashes, or a server that refuses: the save ends and is rolled back.
SaveFails(t) ==
    /\ job[t].at = "run" /\ job[t].id > 0
    /\ RollBack(t)
    /\ job' = [job EXCEPT ![t] = NoJob]
    /\ ended' = [ended EXCEPT ![job[t].id] = "rolled back"]
    /\ UNCHANGED <<engine, grid, history, others>>

Unlock(t) == lock' = [k \in Key |-> IF lock[k] = t THEN Free ELSE lock[k]]

\* The save has committed, and its entries are still to be written.
Recording(t) == [at |-> "record", id |-> 0, todo |-> <<>>, all |-> <<>>, image |-> <<>>, pending |-> job[t].pending]

\* The commit.  One that fails may have committed, and the edits are not recorded.
Commit(t) ==
    /\ job[t].at = "run" /\ job[t].todo = <<>> /\ job[t].id > 0
    /\ \/ /\ Unlock(t) /\ UNCHANGED rows
          /\ ended' = [ended EXCEPT ![job[t].id] = "committed"]
          /\ \E at \in {"none", "record"} :
               job' = [job EXCEPT ![t] = IF at = "none" THEN NoJob
                                         ELSE Recording(t)]
       \/ /\ RollBack(t)
          /\ ended' = [ended EXCEPT ![job[t].id] = "rolled back"]
          /\ job' = [job EXCEPT ![t] = NoJob]
    /\ UNCHANGED <<engine, grid, history, others>>

\* save_mysql_rows, commit_pg_transaction: an entry that is not written, or could not be
\* read back (edit_entry), is lost, and a crash here loses them all.
Record(t) ==
    /\ job[t].at = "record"
    /\ \E kept \in SUBSET job[t].pending : history' = history \cup kept
    /\ job' = [job EXCEPT ![t] = NoJob]
    /\ UNCHANGED <<engine, rows, lock, grid, ended, others>>

-----------------------------------------------------------------------------
(* Undoing. *)

Undoing(e) == [op |-> "update", key |-> e.newKey, before |-> e.after, newKey |-> e.from, after |-> e.before]

\* Every column the edit changed still holds what it left.
Unchanged(e) == rows[e.newKey] = e.after

\* undo_row_edit_impl: one UPDATE, which finds the row by the key in the entry and by the
\* columns the edit left.  Under an old key no row has both.
UndoPg(t) ==
    /\ engine = "postgresql" /\ job[t].at = "none"
    /\ \E e \in history : LET s == Undoing(e) IN
        /\ e.key = e.newKey /\ Unchanged(e) /\ ~Clashes(rows, s)
        /\ \A k \in Touched(s) : lock[k] = Free
        /\ rows' = After(rows, s)
    /\ UNCHANGED <<engine, lock, grid, job, history, ended, others>>

\* The undo of an entry, once the row it found is compared.
Checked(e) == [at |-> "read", id |-> 0, todo |-> <<Undoing(e)>>, all |-> <<>>, image |-> rows, pending |-> {}]

\* A mistake the checks must catch: read without FOR UPDATE.
UndoPeeks(t) ==
    /\ engine = "mysql" /\ job[t].at = "none"
    /\ \E e \in history :
        /\ lock[e.key] = Free /\ Unchanged(e)
        /\ job' = [job EXCEPT ![t] = Checked(e)]
    /\ UNCHANGED <<engine, rows, lock, grid, history, ended, others>>

\* mysql_undo_row_edit: the row is read FOR UPDATE and compared; else it is refused.
UndoReads(t) ==
    /\ engine = "mysql" /\ job[t].at = "none"
    /\ \E e \in history :
        /\ lock[e.key] = Free /\ Unchanged(e)
        /\ lock' = [lock EXCEPT ![e.key] = t]
        /\ job' = [job EXCEPT ![t] = Checked(e)]
    /\ UNCHANGED <<engine, rows, grid, history, ended, others>>

\* The UPDATE and the COMMIT, or a failure of either.
UndoWrites(t) ==
    /\ job[t].at = "read"
    /\ LET s == Head(job[t].todo) IN
        \/ /\ MayLock(t, s) /\ Matches(rows, s) /\ ~Clashes(rows, s)
           /\ rows' = After(rows, s)
           /\ Unlock(t)
        \/ UNCHANGED rows /\ Unlock(t)
    /\ job' = [job EXCEPT ![t] = NoJob]
    /\ UNCHANGED <<engine, grid, history, ended, others>>

-----------------------------------------------------------------------------
Next ==
    \/ OtherClient
    \/ \E t \in Tab :
        \/ Load(t) \/ StartSave(t) \/ Execute(t) \/ SaveFails(t) \/ Commit(t) \/ Record(t)
        \/ UndoPg(t) \/ UndoReads(t) \/ UndoWrites(t)

Spec == Init /\ [][Next]_vars

-----------------------------------------------------------------------------
Row == Value \cup {NoRow}

\* PgRowHistoryEntry; from is what the key was.
Recorded == [save : 1..MaxJobs, key : Key, from : Key, before : Value, newKey : Key, after : Value]

Outcome == {"open", "committed", "rolled back"}

Job == [at : {"none", "run", "record", "read"}, id : 0..MaxJobs, todo : Seq(Statement), all : Seq(Statement),
        image : [Key -> Row] \cup {<<>>}, pending : SUBSET Recorded]

TypeOK ==
    /\ engine \in {"mysql", "postgresql"}
    /\ rows \in [Key -> Row] /\ lock \in [Key -> Tab \cup {Free}] /\ grid \in [Tab -> [Key -> Row]]
    /\ job \in [Tab -> Job] /\ history \subseteq Recorded
    /\ ended \in Seq(Outcome) /\ Len(ended) \in 0..MaxJobs
    /\ others \in 0..MaxOthers

\* The statements of a save, one after the other.
AfterAll(f, c) == IF Len(c) = 2 THEN After(After(f, c[1]), c[2]) ELSE After(f, c[1])

\* What changes by a save that is answered changes by all of its statements, on the rows
\* that are there by then, and a save that fails changes nothing (row_write.rs:1-4).
SavesAreWhole ==
    [][Durable' # Durable /\ ended' # ended =>
        \E t \in Tab : /\ job[t].id > 0 /\ ended'[job[t].id] = "committed"
                      /\ Durable' = AfterAll(Durable, job[t].all)]_vars

\* Undo only ever takes an edit back that is still there: a newer value, from a tab or from
\* another client, is not overwritten (history.rs:36-39, row_history.rs:98-102).
UndoOverwritesNothing ==
    [][Durable' # Durable /\ ended' = ended /\ others' = others =>
        \E e \in history : Durable[e.newKey] = e.after /\ Durable' = After(Durable, Undoing(e))]_vars

\* Every recorded edit is one of a save that committed (PgTransactions::finish,
\* mysql_save_rows).
HistoryIsOfCommits == \A e \in history : ended[e.save] = "committed"
=============================================================================
