---------------------------- MODULE SqlTransfers ----------------------------
(***************************************************************************)
(* A SQL table's rows written to a CSV file and imported again: the CSV    *)
(* MySQL's export writes (commands/mysql/transfer.rs), the file PostgreSQL *)
(* writes by COPY, the reader of both (commands/import/csv.rs,             *)
(* commands/sql/transfer.rs), and the imports, batch by batch in one       *)
(* transaction (mysql_import_csv, import_csv_impl).                        *)
(*                                                                         *)
(* A text is a sequence of characters: a letter, a quote, a comma, a line  *)
(* feed or a carriage return.  Other encodings of cells (bytes, JSON,      *)
(* times) and JSON files are left out.                                     *)
(***************************************************************************)
EXTENDS Integers, FiniteSets, Sequences, SequencesExt

CONSTANTS
    Null, Cell,        \* SQL's NULL; what a cell may hold
    Mapping,           \* the mappings of the file's columns a user may choose
    Width, MaxRows,    \* the columns of a table and, at most, the rows exported
    MaxText,           \* the longest text of a cell
    BatchSize          \* the rows sent together

BatchAssumption == BatchSize \in Nat \ {0} /\ Width \in Nat \ {0}

Quote == "quote"
Comma == "comma"
LF == "lf"
CR == "cr"

VARIABLES
    source,   \* the exported table's rows: engine, kind of the table imported into
    file,     \* the CSV file
    import,   \* the running import
    target,   \* the rows of the table imported into that are there for good
    told      \* the command's answer

vars == <<source, file, import, target, told>>

-----------------------------------------------------------------------------
(* Writing CSV. *)

Has(v, chars) == \E i \in 1..Len(v) : v[i] \in chars

Escape(v) == FlattenSeq([i \in 1..Len(v) |-> IF v[i] = Quote THEN <<Quote, Quote>> ELSE <<v[i]>>])

Quoted(v) == <<Quote>> \o Escape(v) \o <<Quote>>

\* A mistake the checks must catch: a field with a line break in it left bare.
BareBreaks(v) == IF v = Null THEN <<>> ELSE IF v = <<>> \/ Has(v, {Comma, Quote}) THEN Quoted(v) ELSE v

\* csv_line, one field; COPY TO writes the same.
CsvField(v) ==
    IF v = Null THEN <<>> ELSE IF v = <<>> \/ Has(v, {Comma, Quote, LF, CR}) THEN Quoted(v) ELSE v

CsvLine(row) ==
    FlattenSeq([i \in 1..Len(row) |-> CsvField(row[i]) \o IF i = Len(row) THEN <<LF>> ELSE <<Comma>>])

\* write_rows, with a header of as many one-letter names.
CsvFile(rows) == CsvLine([i \in 1..Width |-> <<"x">>]) \o FlattenSeq([i \in 1..Len(rows) |-> CsvLine(rows[i])])

-----------------------------------------------------------------------------
(* Reading CSV: CsvRecords::next_record.  A quote inside quotes is looked past: with       *)
(* another it is one character of the field, else it ends the quotes.                      *)

Start == [records |-> <<>>, record |-> <<>>, field |-> <<>>, in |-> "plain"]

EndField(s)  == [s EXCEPT !.record = Append(@, s.field), !.field = <<>>]
EndRecord(s) == LET e == EndField(s) IN [e EXCEPT !.records = Append(@, e.record), !.record = <<>>]

Plain(s, ch) ==
    IF ch = Quote THEN [s EXCEPT !.in = "quotes"]
    ELSE IF ch = Comma THEN EndField(s)
    ELSE IF ch = LF THEN EndRecord(s)
    ELSE IF ch = CR THEN s ELSE [s EXCEPT !.field = Append(@, ch)]

ReadChar(s, ch) ==
    IF s.in = "quotes" THEN IF ch = Quote THEN [s EXCEPT !.in = "quote?"] ELSE [s EXCEPT !.field = Append(@, ch)]
    ELSE IF s.in = "quote?"
         THEN IF ch = Quote THEN [s EXCEPT !.in = "quotes", !.field = Append(@, Quote)]
              ELSE Plain([s EXCEPT !.in = "plain"], ch)
    ELSE Plain(s, ch)

Records(text) ==
    LET s == FoldLeft(ReadChar, Start, text) IN
    IF s.field # <<>> \/ s.record # <<>> THEN EndRecord(s).records ELSE s.records

\* str::trim leaves nothing of it.
BlankText(f) == \A i \in 1..Len(f) : f[i] \in {LF, CR}

\* DataRows: what follows the header, without the rows whose fields are all blank.
Blank(row)     == \A i \in 1..Len(row) : BlankText(row[i])
DataRows(text) == SelectSeq(Tail(Records(text)), LAMBDA row : ~Blank(row))

-----------------------------------------------------------------------------
(* The command. *)

Nothing == [at |-> "idle", rows |-> <<>>, mapping |-> <<>>, next |-> 1, first |-> 1, batch |-> <<>>, sent |-> <<>>]

Rows == UNION {[1..n -> [1..Width -> Cell]] : n \in 0..MaxRows}

Init ==
    /\ \E rows \in Rows, engine \in {"mysql", "postgresql"}, kind \in {"table", "myisam", "view"} :
        /\ engine = "postgresql" => kind # "myisam"
        /\ source = [rows |-> rows, engine |-> engine, kind |-> kind]
    /\ file = <<>>
    /\ import = Nothing
    /\ target = <<>>
    /\ told = [row |-> 0, last |-> 0, answer |-> "nothing"]

\* mysql_export: the rows of one statement, written as they come.
MySqlExport ==
    /\ source.engine = "mysql" /\ file = <<>>
    /\ file' = CsvFile(source.rows)
    /\ UNCHANGED <<source, import, target, told>>

\* export_impl: COPY TO writes the text, in one read-only transaction.
PgExport ==
    /\ source.engine = "postgresql" /\ file = <<>>
    /\ file' = CsvFile(source.rows)
    /\ UNCHANGED <<source, import, target, told>>

\* Another program adds a row of one field too many.
Tamper ==
    /\ file # <<>> /\ import.at = "idle" /\ Len(DataRows(file)) <= Len(source.rows)
    /\ file' = file \o CsvLine([i \in 1..(Width + 1) |-> <<"x">>])
    /\ UNCHANGED <<source, import, target, told>>

\* check_mapping: each header's column, 0 to skip it; never two to one, nor none at all.
Mapped(mapping) == {i \in DOMAIN mapping : mapping[i] # 0}
MappingIsGood(mapping) ==
    /\ Mapped(mapping) # {}
    /\ \A i, j \in Mapped(mapping) : mapping[i] = mapping[j] => i = j

\* A mistake the checks must catch: any table taken to roll back.
AnyTable(kind) == kind # "view"

\* import_columns: a view takes no rows, and MySQL's MyISAM can't roll back.  PostgreSQL's
\* COPY refuses the view itself.
Importable(kind) == kind = "table"

Answer(answer, row, last) == told' = [row |-> row, last |-> last, answer |-> answer]

StartImport ==
    /\ file # <<>> /\ import.at = "idle" /\ told.answer = "nothing"
    /\ \E mapping \in Mapping :
        IF MappingIsGood(mapping) /\ Importable(source.kind)
        THEN import' = [Nothing EXCEPT !.at = "read", !.mapping = mapping, !.rows = DataRows(file)] /\ UNCHANGED told
        ELSE Answer("refused", 0, 0) /\ UNCHANGED import
    /\ UNCHANGED <<source, file, target>>

FieldOf(text) == IF text = <<>> THEN Null ELSE text

\* A row as the table's columns take it; a column nothing is mapped to takes its default.
ToRow(mapping, row) ==
    [c \in 1..Width |-> IF \E i \in Mapped(mapping) : mapping[i] = c
                        THEN FieldOf(row[CHOOSE i \in Mapped(mapping) : mapping[i] = c]) ELSE Null]

\* The import ends without its COMMIT, and its session is closed.
Fail(row, last) ==
    /\ Answer("failed", row, last)
    /\ import' = [Nothing EXCEPT !.at = "over", !.mapping = import.mapping, !.rows = import.rows]
    /\ target' = IF source.kind = "table" THEN target ELSE import.sent

\* next_row: a row is added to the batch, or refused for its width.
ReadRow ==
    /\ import.at = "read" /\ import.next <= Len(import.rows) /\ Len(import.batch) < BatchSize
    /\ LET row == import.rows[import.next] IN
        IF Len(row) # Width THEN Fail(import.next, import.next)
        ELSE /\ import' = [import EXCEPT !.batch = Append(@, ToRow(import.mapping, row)), !.next = @ + 1,
                                         !.first = IF import.batch = <<>> THEN import.next ELSE @]
             /\ UNCHANGED <<target, told>>
    /\ UNCHANGED <<source, file>>

\* A NULL in the first column is what the server refuses here.
Refused(row) == row[1] = Null

SendDue == import.batch # <<>> /\ (Len(import.batch) = BatchSize \/ import.next > Len(import.rows))

Sends ==
    /\ import.at = "read" /\ SendDue /\ \A i \in 1..Len(import.batch) : ~Refused(import.batch[i])
    /\ import' = [import EXCEPT !.sent = @ \o import.batch, !.batch = <<>>]
    /\ UNCHANGED <<source, file, target, told>>

\* mysql_import_csv: one INSERT of the batch.  import_csv_impl: the batch's text to COPY.
SendInsert == source.engine = "mysql" /\ Sends
SendToCopy == source.engine = "postgresql" /\ Sends

\* describe_insert_failure: the row MySQL names is within the statement.
Blamed(k) == import.first + k - 1

\* PostgreSQL counts the lines of what it is sent, those inside quotes included: it takes a
\* carriage return for one in the first row, before it knows how lines end, and then a line feed.
LinesOf(n, row) == 1 + Cardinality({p \in Mapped(import.mapping) \X (1..MaxText) :
                         p[2] <= Len(row[p[1]]) /\ row[p[1]][p[2]] = IF n = 1 THEN CR ELSE LF})

\* describe_copy_failure: the line COPY names is taken for the row.
CopyBlamed(n) == FoldLeft(LAMBDA total, i : total + LinesOf(i, import.rows[i]), 0, [i \in 1..n |-> i])

\* The server refuses the batch for its first bad row, named (k) or not.
SendFails ==
    /\ import.at = "read" /\ source.engine = "mysql" /\ SendDue
    /\ \E k \in 1..Len(import.batch) :
        /\ Refused(import.batch[k]) /\ \A i \in 1..(k - 1) : ~Refused(import.batch[i])
        /\ \/ Fail(Blamed(k), Blamed(k))
           \/ Fail(import.first, import.first + Len(import.batch) - 1)
    /\ UNCHANGED <<source, file>>

\* COPY ends at its first bad row: its error is read with the batch, or once all are sent.
CopyFails ==
    /\ import.at = "read" /\ source.engine = "postgresql" /\ SendDue
    /\ \E k \in 1..Len(import.batch) :
        /\ Refused(import.batch[k]) /\ \A i \in 1..(k - 1) : ~Refused(import.batch[i])
        /\ LET line == CopyBlamed(import.first + k - 1) IN Fail(line, line)
    /\ UNCHANGED <<source, file>>

\* The file can't be read on, or the server goes away.
Breaks ==
    /\ import.at = "read" /\ Fail(0, 0) /\ UNCHANGED <<source, file>>

\* COMMIT.  One that fails may have committed: the user is told of a failure either way.
Commit ==
    /\ import.at = "read" /\ import.batch = <<>> /\ import.next > Len(import.rows)
    /\ \E answer \in {"done", "failed"} : Answer(answer, 0, 0)
    /\ target' = import.sent
    /\ import' = [Nothing EXCEPT !.at = "over", !.mapping = import.mapping, !.rows = import.rows]
    /\ UNCHANGED <<source, file>>

Next == MySqlExport \/ PgExport \/ Tamper \/ StartImport \/ ReadRow \/ SendInsert \/ SendToCopy \/ SendFails \/ CopyFails \/ Breaks \/ Commit

Spec == Init /\ [][Next]_vars

-----------------------------------------------------------------------------

Cells(rows) == UNION {Range(rows[n]) : n \in 1..Len(rows)}

Lost(row) == \A i \in 1..Width : row[i] = Null \/ BlankText(row[i])

ExportsReadBack ==
    import.at = "idle" /\ file # <<>> /\ file = CsvFile(source.rows) =>
        DataRows(file) = LET kept == SelectSeq(source.rows, LAMBDA row : ~Lost(row)) IN
                         [n \in 1..Len(kept) |-> [i \in 1..Width |-> IF kept[n][i] = Null THEN <<>> ELSE kept[n][i]]]

\* An import that fails leaves nothing behind, however many batches it had sent, and one
\* that does not imports every row ("Nothing was imported", mysql/transfer.rs:215-216).
ImportIsWhole ==
    [][target' # target =>
        LET rows == import.rows IN
        target' = [n \in 1..Len(rows) |-> ToRow(import.mapping, rows[n])]]_vars

=============================================================================
