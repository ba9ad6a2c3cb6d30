------------------------------ MODULE TablePages ------------------------------
(***************************************************************************)
(* The pages of a SQL table tab: a table and the tables joined to it, the  *)
(* rows its filters let through in the tab's order, a LIMIT and OFFSET at  *)
(* a time, and their count (browse.rs of each engine, sql/mod.rs,          *)
(* tableLoad.js, tableQuery.js).  The server may return rows that tie in   *)
(* either order at each call.  A load may be answered after a newer one.   *)
(*                                                                         *)
(* The tables' rows are fixed while the tab is open.  What a filter lets   *)
(* through is TableSql's concern: here it is a set of values.              *)
(***************************************************************************)
EXTENDS Integers, FiniteSets, Sequences, SequencesExt, TLC

CONSTANTS
    ColumnsOf,    \* of each table, the set of its columns
    KeyOf,      \* of each table, the sequence of its primary key's columns: none, perhaps
    Contents,   \* what the server's tables may hold: of each table, a sequence of rows
    Null,
    Rank,       \* of each value and of Null, its place when the engine sorts
    View,       \* what the tab may ask for: joins, filters, a sort
    Limit,      \* the rows per page the user may ask for
    RowCap, Fallback,   \* ROW_RESULT_CAP, BROWSE_LIMIT_FALLBACK
    MaxLoads, MaxInFlight

VARIABLES
    contents,   \* the server's tables
    view, limit, offset, total,   \* the tab's state
    generation, loads,            \* the newest load, and those not answered yet
    shown,      \* the page the grid shows
    seen        \* the pages shown of this view with this limit, by offset

vars == <<contents, view, limit, offset, total, generation, loads, shown, seen>>

Unknown == -1
Empty == [n \in {} |-> {}]

-----------------------------------------------------------------------------
(* A browse. *)

TableAt(v, n) == IF n = 0 THEN v.table ELSE v.joins[n].table

\* A joined row: of each table the place of its row, 0 where a LEFT JOIN found none.
CellAt(v, row, ref) ==
    LET place == row[ref.table + 1] IN IF place = 0 THEN Null ELSE contents[TableAt(v, ref.table)][place][ref.column]

JoinedTo(v, n, row) ==
    LET join    == v.joins[n]
        matches == {place \in 1..Len(contents[join.table]) :
                       \A pair \in join.on : LET mine == contents[join.table][place][pair.column] IN
                           mine # Null /\ mine = CellAt(v, row, pair.equals)}
    IN {Append(row, place) : place \in (IF matches = {} /\ join.kind = "left" THEN {0} ELSE matches)}

Joined(v) ==
    FoldLeft(LAMBDA rows, n : UNION {JoinedTo(v, n, row) : row \in rows},
             {<<place>> : place \in 1..Len(contents[v.table])}, [n \in 1..Len(v.joins) |-> n])

Filtered(v) == {row \in Joined(v) : \A f \in v.filters : CellAt(v, row, f.column) \in f.values}

IsColumn(v, ref) == ref.table <= Len(v.joins) /\ ref.column \in ColumnsOf[TableAt(v, ref.table)]

\* from_clause, column_in, and the server: what a browse or a count is refused for.
Taken(v, refs) ==
    /\ \A n \in 1..Len(v.joins) :
           /\ v.joins[n].on # {}
           /\ \A pair \in v.joins[n].on :
                  pair.equals.table < n /\ pair.column \in ColumnsOf[v.joins[n].table] /\ IsColumn(v, pair.equals)
    /\ \A ref \in refs : IsColumn(v, ref)

FilterColumns(v) == {f.column : f \in v.filters}

BrowseTaken(v) == Taken(v, FilterColumns(v) \cup Range(v.sort))

Keys(v, n) == [i \in 1..Len(KeyOf[TableAt(v, n)]) |-> [table |-> n, column |-> KeyOf[TableAt(v, n)][i]]]

\* A mistake the checks must catch: only the browsed table's key to break ties.
OwnKeyClause(v) == v.sort \o SelectSeq(Keys(v, 0), LAMBDA key : ~Contains(v.sort, key))

\* order_clause: the chosen column, then each table's key.
OrderClause(v) ==
    v.sort \o SelectSeq(FlattenSeq([n \in 1..(Len(v.joins) + 1) |-> Keys(v, n - 1)]), LAMBDA key : ~Contains(v.sort, key))

Before(v, a, b) ==
    LET order == OrderClause(v)
        rank(row, i) == Rank[CellAt(v, row, order[i])]
    IN \E i \in 1..Len(order) :
           /\ \A j \in 1..(i - 1) : rank(a, j) = rank(b, j)
           /\ IF v.descending THEN rank(b, i) < rank(a, i) ELSE rank(a, i) < rank(b, i)

\* The orders the server may return the rows in.
Orders(v) == {order \in SetToSeqs(Filtered(v)) : \A i, j \in 1..Len(order) : i < j => ~Before(v, order[j], order[i])}

EffectiveLimit(n) == IF n <= 0 THEN Fallback ELSE IF n < RowCap THEN n ELSE RowCap

Page(order, n, from) == {order[i] : i \in {i \in 1..Len(order) : i > from /\ i <= from + EffectiveLimit(n)}}

-----------------------------------------------------------------------------
(* The tab. *)

Init ==
    /\ contents \in Contents /\ view \in {v \in View : v.joins = <<>> /\ v.filters = {} /\ v.sort = <<>>}
    /\ limit \in Limit /\ offset = 0 /\ total = Unknown
    /\ generation = 0 /\ loads = {} /\ shown = Empty /\ seen = Empty

\* load: the page, and the count unless it is known.
Load(v, n, from, known) ==
    /\ generation < MaxLoads /\ Cardinality(loads) < MaxInFlight
    /\ generation' = generation + 1
    /\ loads' = loads \cup {[generation |-> generation + 1, view |-> v, limit |-> n, offset |-> from, total |-> known]}
    /\ view' = v /\ limit' = n /\ offset' = from /\ total' = known
    /\ UNCHANGED <<contents, shown>>

Open == generation = 0 /\ Load(view, limit, 0, Unknown) /\ UNCHANGED seen

\* goTo, which keeps the count.
GoTo(to) == generation > 0 /\ Load(view, limit, IF to < 0 THEN 0 ELSE to, total) /\ UNCHANGED seen

HasNext == total # Unknown /\ offset + limit < total

NextPage == HasNext /\ GoTo(offset + limit)
PrevPage == offset > 0 /\ GoTo(offset - limit)
LastPage == HasNext /\ GoTo(((total - 1) \div limit) * limit)

Refresh == generation > 0 /\ Load(view, limit, offset, Unknown) /\ UNCHANGED seen

\* setSort, sortBy: the same rows, from page one.
Sort(v) ==
    /\ generation > 0 /\ v # view
    /\ v = [view EXCEPT !.sort = v.sort, !.descending = v.descending]
    /\ Load(v, limit, 0, total) /\ seen' = Empty

\* applyFilters, addJoin, setJoinKind, setJoinOn, removeJoin: other rows, and their count.
Ask(v, n) ==
    /\ generation > 0 /\ <<v, n>> # <<view, limit>>
    /\ v.sort = view.sort /\ v.descending = view.descending
    /\ Load(v, n, 0, Unknown) /\ seen' = Empty

\* load, once answered: not what it has moved on from.
Adopt(l, page, count) ==
    IF l.generation # generation THEN UNCHANGED <<shown, total, seen>>
    ELSE /\ shown' = (l.offset :> page) /\ total' = count
         /\ seen' = (l.offset :> page) @@ seen

Answered(l) == loads' = loads \ {l} /\ UNCHANGED <<contents, view, limit, offset, generation>>

Loaded ==
    \E l \in loads :
        /\ BrowseTaken(l.view)
        /\ \E order \in Orders(l.view) :
               Adopt(l, Page(order, l.limit, l.offset), IF l.total = Unknown THEN Cardinality(Filtered(l.view)) ELSE l.total)
        /\ Answered(l)

\* Refused, or the connection failed: no rows, and the count as it was.
LoadFails ==
    \E l \in loads :
        /\ IF l.generation = generation THEN shown' = Empty ELSE UNCHANGED shown
        /\ Answered(l) /\ UNCHANGED <<total, seen>>

Next ==
    \/ Open \/ NextPage \/ PrevPage \/ LastPage \/ Refresh
    \/ \E v \in View : Sort(v) \/ \E n \in Limit : Ask(v, n)
    \/ Loaded \/ LoadFails

Spec == Init /\ [][Next]_vars

-----------------------------------------------------------------------------

Keyed(v) == \A n \in 0..Len(v.joins) : KeyOf[TableAt(v, n)] # <<>>

\* However the server orders rows that tie, the pages read one by one hold each row of the
\* joined tables once: "only every table's key in turn keeps pages from overlapping or
\* skipping rows" (sql/mod.rs:131-133).  A table with no key has no such guarantee
\* (browse.rs:122-126), nor a page longer than the backend returns, which the tab steps
\* over by the length it asked for (tableLoad.js:83).
PagesAddUp ==
    Keyed(view) /\ limit \in 1..RowCap =>
        LET aligned == {from \in DOMAIN seen : from % limit = 0} IN
        /\ \A a \in aligned, b \in aligned : a # b => seen[a] \cap seen[b] = {}
        /\ total # Unknown /\ BrowseTaken(view) /\ (\A from \in 0..(total - 1) : from % limit = 0 => from \in aligned)
               => UNION {seen[from] : from \in aligned} = Filtered(view)
=============================================================================
