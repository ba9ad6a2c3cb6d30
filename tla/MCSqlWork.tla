------------------------------ MODULE MCSqlWork ------------------------------
(* Instances for TLC of the SQL tabs, of a table tab's SQL and pages, of the console's    *)
(* SQL for MongoDB and of the transfers of tables.  They share no state, so each          *)
(* behaviour is of one of them.                                                           *)
EXTENDS SqlTab, TableSql

CONSTANTS
    Missing, Cell, Mapping, Width, MaxRows, MaxText, BatchSize,
    ColumnsOf, KeyOf, Contents, Rank, View, Limit, RowCap, Fallback, MaxLoads, MaxInFlight,
    Field, DocValue, DocLess, DocQuery

VARIABLES
    part,
    source, file, import, target, told,
    contents, view, limit, offset, total, generation, loads, shown, seen,
    query, mql

transferVars == <<source, file, import, target, told>>
pageVars     == <<contents, view, limit, offset, total, generation, loads, shown, seen>>
queryVars    == <<query, mql>>

Cells    == {Null, <<>>, <<"quote", "comma", "lf">>, <<"cr">>}
Mappings == {<<1, 2>>, <<2, 0>>, <<1, 1>>}

OfTableSql   == INSTANCE MCTableSql
OfTablePages == INSTANCE MCTablePages
OfSqlQuery   == INSTANCE MCSqlQuery

Kinds        == OfTableSql!Kinds
Values       == OfTableSql!Values
Lesses       == OfTableSql!Lesses
Texts        == OfTableSql!Texts
Queries      == OfTableSql!Queries
Edits        == OfTableSql!Edits
TableColumns == OfTablePages!TableColumns
TableKeys    == OfTablePages!TableKeys
Worlds       == OfTablePages!Worlds
Ranks        == OfTablePages!Ranks
Views        == OfTablePages!Views
DocValues    == OfSqlQuery!Values
DocLesses    == OfSqlQuery!Lesses
DocQueries   == OfSqlQuery!Queries

X == INSTANCE SqlTransfers
P == INSTANCE TablePages
Q == INSTANCE SqlQuery WITH sql <- query, Value <- DocValue, Less <- DocLess, Query <- DocQuery

ASSUME BoundsAssumption == X!BatchAssumption

OfTabs(A)      == part = "tabs" /\ A /\ UNCHANGED <<part, modeVars, transferVars, pageVars, queryVars>>
OfTransfers(A) == part = "transfers" /\ A /\ UNCHANGED <<part, vars, modeVars, pageVars, queryVars>>
OfFilters(A)   == part = "filters" /\ A /\ UNCHANGED <<part, vars, transferVars, pageVars, queryVars>>
OfPages(A)     == part = "pages" /\ A /\ UNCHANGED <<part, vars, modeVars, transferVars, queryVars>>
OfQueries(A)   == part = "queries" /\ A /\ UNCHANGED <<part, vars, modeVars, transferVars, pageVars>>

\* The other parts stay in one of their initial states.
AnyTransfer == source = [rows |-> <<>>, engine |-> "mysql", kind |-> "table"]
AnyPages    ==
    /\ contents = CHOOSE world \in Contents : TRUE
    /\ view = OfTablePages!AskFor(<<>>, {}, <<>>, FALSE) /\ limit = 3
AnyQuery    == query = CHOOSE q \in DocQuery : TRUE

\* Of three rows, which make two batches, the first two are the same.
FewRows == Len(source.rows) = 3 => source.rows[1] = source.rows[2]

InitPart ==
    /\ part \in {"tabs", "transfers", "filters", "pages", "queries"}
    /\ Init /\ ModeInit
    /\ (part # "pages" => AnyPages) /\ P!Init
    /\ (part # "transfers" => AnyTransfer) /\ X!Init /\ FewRows
    /\ (part # "queries" => AnyQuery) /\ Q!Init

NextTabs ==
    \/ \E t \in Tab : OfTabs(User(t))
    \/ \E r \in Run :
        \/ OfTabs(RunStep(r)) \/ OfTabs(Execute(r)) \/ OfTabs(End(r))
        \/ OfTabs(Finish(r)) \/ OfTabs(CancelStep(r))

NextTransfers ==
    \/ OfTransfers(X!MySqlExport) \/ OfTransfers(X!PgExport) \/ OfTransfers(X!Tamper)
    \/ OfTransfers(X!StartImport) \/ OfTransfers(X!ReadRow)
    \/ OfTransfers(X!SendInsert) \/ OfTransfers(X!SendToCopy)
    \/ OfTransfers(X!SendFails) \/ OfTransfers(X!CopyFails)
    \/ OfTransfers(X!Breaks) \/ OfTransfers(X!Commit)

NextFilters ==
    \/ OfFilters(\E r \in Ref, text \in BoxText : Type(r, text))
    \/ OfFilters(\E r \in Ref, desc \in BOOLEAN : SortBy(r, desc))
    \/ OfFilters(\E r \in Ref : Show(r))
    \/ OfFilters(\E table \in Table, kind \in {"left", "inner"}, c \in Column, d \in Column :
                     Join(table, kind, {ColumnRef(1, c), ColumnRef(0, d)}))
    \/ OfFilters(ToSql) \/ OfFilters(ToFilters)
    \/ OfFilters(\E q \in Query : OpenSql(q))
    \/ OfFilters(\E i \in 1..2, c \in Edited : EditSql(i, c))

NextPages ==
    \/ OfPages(P!Open) \/ OfPages(P!NextPage) \/ OfPages(P!PrevPage) \/ OfPages(P!LastPage)
    \/ OfPages(P!Refresh) \/ OfPages(P!Loaded) \/ OfPages(P!LoadFails)
    \/ OfPages(\E v \in View : P!Sort(v)) \/ OfPages(\E v \in View, n \in Limit : P!Ask(v, n))

NextPart ==
    NextTabs \/ NextTransfers \/ NextFilters \/ NextPages \/ OfQueries(Q!Translate)

SpecPart ==
    InitPart /\ [][NextPart]_<<part, vars, modeVars, transferVars, pageVars, queryVars>>

\* What an export wrote, an import puts back (mysql/transfer.rs, postgres/transfer.rs), as
\* SqlTransfers states it.
ExportsReadBack == X!ExportsReadBack

\* An import is of every row or of none (mysql/transfer.rs:215-216), as SqlTransfers states it.
ImportIsWhole == X!ImportIsWhole

\* A table's pages are its rows, each once (sql/mod.rs:131-143), as TablePages states it.
PagesAddUp == P!PagesAddUp

\* The console's translation finds what the SQL says (mongo/sql/), as SqlQuery states it.
FindsWhatItSays == Q!FindsWhatItSays
=============================================================================
