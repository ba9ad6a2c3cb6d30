------------------------------- MODULE TableSql -------------------------------
(***************************************************************************)
(* A table tab's two modes: filter boxes, joins and a sort, and the SQL    *)
(* they amount to (buildSelectSql.js).  Edited SQL is read back into them  *)
(* (commands/sql/read_select.rs, tableSqlMode.js) or refused, and the page *)
(* is then the backend's browse of them (browse.rs of each engine).        *)
(*                                                                         *)
(* A query is its syntax tree, a literal the text it denotes, and a text a *)
(* sequence of characters, with the word null taken for one.  At most one  *)
(* table is joined.  LIMIT and OFFSET, the user's zone and letter case are *)
(* left out.                                                               *)
(***************************************************************************)
EXTENDS Integers, FiniteSets, Sequences, SequencesExt

CONSTANTS
    Column, Kind,   \* a table's columns, and cellKind of each: "text" or "num"
    Key,            \* each table's primary key
    Value, Null,    \* what a cell may hold
    Less,           \* the pairs of values of which the first comes first
    Table, Browsed, \* the tables, and the one the tab browses
    BoxText,        \* what the user types into a box
    Query,          \* SQL the user may write
    MaxSettings,    \* the boxes, joins, columns and sorts a tab has set at most
    Edited          \* conditions the user may put in place of one of the SQL's

VARIABLES
    mode,    \* "filter" or "sql"
    filters, \* the joins, boxes, columns and sort of the filter mode
    sql,     \* the SQL mode's text
    built,   \* runtime.builtSql: what the filters amounted to when SQL mode opened
    read     \* the tab shows SQL read back, and nothing was typed since

modeVars == <<mode, filters, sql, built, read>>

ColumnRef(table, column) == [table |-> table, column |-> column]
Ref == [table : 0..1, column : Column]
NoSort == ColumnRef(0, "")

Refused == [op |-> "refused", value |-> <<>>]
None    == [op |-> "none", value |-> <<>>]

-----------------------------------------------------------------------------
(* Texts. *)

Trim(t) ==
    LET kept == {i \in 1..Len(t) : t[i] # " "} IN
    IF kept = {} THEN <<>> ELSE SubSeq(t, CHOOSE i \in kept : \A j \in kept : i <= j, CHOOSE i \in kept : \A j \in kept : j <= i)

SplitAt(t, ch) ==
    FoldLeft(LAMBDA parts, c : IF c = ch THEN Append(parts, <<>>) ELSE [parts EXCEPT ![Len(parts)] = Append(@, c)],
             <<(<<>>)>>, t)

JoinWith(parts, t) == FlattenSeq([i \in 1..Len(parts) |-> IF i = 1 THEN parts[1] ELSE t \o parts[i]])

\* likeEscape; like() of where_clause.
Escaped(t) == FlattenSeq([i \in 1..Len(t) |-> IF t[i] \in {"\\", "%", "_"} THEN <<"\\", t[i]>> ELSE <<t[i]>>])

\* listItems; listed() of where_clause.
ListItems(t) ==
    LET parts == SplitAt(t, ",") IN SelectSeq([i \in 1..Len(parts) |-> Trim(parts[i])], LAMBDA item : item # <<>>)

\* The server's LIKE and ILIKE, with a backslash to escape.
RECURSIVE Like(_, _)
Like(pattern, v) ==
    IF pattern = <<>> THEN v = <<>>
    ELSE LET c == Head(pattern) IN
         IF c = "%" THEN Like(Tail(pattern), v) \/ (v # <<>> /\ Like(pattern, Tail(v)))
         ELSE LET escapes == c = "\\" /\ Len(pattern) > 1
                  rest    == IF escapes THEN Tail(Tail(pattern)) ELSE Tail(pattern)
                  wanted  == IF escapes THEN pattern[2] ELSE c
              IN v # <<>> /\ ((~escapes /\ c = "_") \/ Head(v) = wanted) /\ Like(rest, Tail(v))

-----------------------------------------------------------------------------
(* The boxes (parseFilter.js). *)

Operators == <<(<<<<">", "=">>, "gte">>), (<<<<"<", "=">>, "lte">>), (<<<<"!", "=">>, "ne">>), (<<<<"<", ">">>, "ne">>),
               (<<<<">">>, "gt">>), (<<<<"<">>, "lt">>), (<<<<"=">>, "eq">>)>>

Filter(op, value) == [op |-> op, value |-> value]

ParseFilter(text, kind) ==
    LET t        == Trim(text)
        at       == SelectInSeq(Operators, LAMBDA o : IsPrefix(o[1], t))
        op       == IF at > 0 THEN Operators[at][2] ELSE IF kind = "num" THEN "eq" ELSE "contains"
        value    == IF at > 0 THEN Trim(SubSeq(t, Len(Operators[at][1]) + 1, Len(t))) ELSE t
        prefixed == Trim(Tail(t))
    IN CASE t = <<>> -> None
         [] t = <<"null">> -> Filter("isNull", <<>>)
         [] t = <<"!", "null">> -> Filter("notNull", <<>>)
         [] t # <<>> /\ Head(t) = "^" -> IF prefixed = <<>> THEN None ELSE Filter("startsWith", prefixed)
         [] OTHER -> IF value = <<>> THEN None
                     ELSE Filter(IF op = "eq" /\ Contains(value, ",") THEN "in" ELSE op, value)

\* A mistake the checks must catch: a box filled without seeing how it will be read.
BoxTextUnread(f, kind) ==
    CASE f.op = "isNull" -> <<"null">>
      [] f.op = "notNull" -> <<"!", "null">>
      [] f.op = "startsWith" -> <<"^">> \o f.value
      [] f.op = "contains" \/ (f.op \in {"eq", "in"} /\ kind = "num") -> f.value
      [] f.op = "in" -> <<"=">> \o f.value
      [] OTHER -> (CHOOSE o \in Range(Operators) : o[2] = f.op)[1] \o f.value

\* The box's text for a filter, or none: one the box would read as another filter.
FilterBoxText(f, kind) ==
    LET text == BoxTextUnread(f, kind) IN IF ParseFilter(text, kind) = f THEN text ELSE <<>>

-----------------------------------------------------------------------------
(* The backend's filters: where_clause of each engine. *)

Compares(op, v, w) ==
    CASE op = "eq" -> v = w [] op = "ne" -> v # w
      [] op = "gt" -> <<w, v>> \in Less [] op = "gte" -> <<w, v>> \in Less \/ v = w
      [] op = "lt" -> <<v, w>> \in Less [] op = "lte" -> <<v, w>> \in Less \/ v = w

WhereClause(f) == {v \in Value \cup {Null} :
    CASE f.op = "none" -> TRUE
      [] f.op = "isNull" -> v = Null
      [] f.op = "notNull" -> v # Null
      [] f.op = "contains" -> v # Null /\ Like(<<"%">> \o Escaped(f.value) \o <<"%">>, v)
      [] f.op = "startsWith" -> v # Null /\ Like(Escaped(f.value) \o <<"%">>, v)
      [] f.op = "in" -> v # Null /\ Contains(ListItems(f.value), v)
      [] OTHER -> v # Null /\ Compares(f.op, v, f.value)}

KeysOf(joins) == [i \in 1..(1 + Len(joins)) |-> ColumnRef(i - 1, Key)]

\* order_clause, pageOrder: the chosen column, then each of the keys it isn't.
PageOrder(chosen, keys) ==
    IF chosen = NoSort THEN keys ELSE <<chosen>> \o SelectSeq(keys, LAMBDA k : k # chosen)

-----------------------------------------------------------------------------
(* SQL.  A table of FROM goes by its alias or its own name, or schema and name.  A column *)
(* is written with such a qualifier or, without one, <<>>.                                *)

Written(by, column) == [by |-> by, column |-> column]
NoAlias == <<>>

NamesOf(from) == IF from.alias # NoAlias THEN {from.alias} ELSE {<<from.table>>, <<"s", from.table>>}

\* Scope::column_in, the tables named so far being the first upto.
ColumnIn(q, col, upto) ==
    LET at == {i \in 1..upto : col.by \in NamesOf(q.from[i])} IN
    IF col.by = <<>>
    THEN IF Len(q.from) = 1 THEN {ColumnRef(0, col.column)} ELSE {}
    ELSE {ColumnRef(i - 1, col.column) : i \in {i \in at : \A j \in at : i <= j}}

\* join_pairs: each pair one column of the join, the other of a table before it.
JoinPairs(q, n) ==
    {pair \in {ColumnIn(q, p[1], n + 1) \cup ColumnIn(q, p[2], n + 1) : p \in q.on} :
        Cardinality(pair) = 2 /\ \E own \in pair, earlier \in pair : own.table = n /\ earlier.table < n}

JoinsRead(q) == [i \in 1..(Len(q.from) - 1) |-> [table |-> q.from[i + 1].table, kind |-> q.kind, on |-> JoinPairs(q, i)]]

FromIsRead(q) ==
    /\ q.from[1].table = Browsed
    /\ \A i \in 1..(Len(q.from) - 1) : q.kind \in {"inner", "left"} /\ Cardinality(JoinPairs(q, i)) = Cardinality(q.on)

\* The tokens of a LIKE pattern: each character, and whether it is a wildcard.
Tokens(pattern) ==
    FoldLeft(LAMBDA s, c :
                IF s.escaped THEN [tokens |-> Append(s.tokens, <<c, FALSE>>), escaped |-> FALSE]
                ELSE IF c = "\\" THEN [s EXCEPT !.escaped = TRUE]
                ELSE [s EXCEPT !.tokens = Append(@, <<c, c \in {"%", "_"}>>)],
             [tokens |-> <<>>, escaped |-> FALSE], pattern).tokens

\* A mistake the checks must catch: a wildcard within the match not looked for.
LikeFilterAnywhere(pattern) ==
    LET tokens   == Tokens(pattern)
        body     == IF tokens = <<>> THEN <<>> ELSE Front(tokens)
        contains == body # <<>> /\ Head(body) = <<"%", TRUE>>
        inner    == IF contains THEN Tail(body) ELSE body
    IN IF tokens = <<>> \/ Last(tokens) # <<"%", TRUE>> \/ inner = <<>> THEN Refused
       ELSE Filter(IF contains THEN "contains" ELSE "startsWith", [i \in 1..Len(inner) |-> inner[i][1]])

\* like_filter: '%text%' is contains, 'text%' starts with.
LikeFilter(pattern) ==
    LET tokens == Tokens(pattern) IN
    IF \E i \in 2..(Len(tokens) - 1) : tokens[i][2] THEN Refused
    ELSE IF tokens # <<>> /\ tokens[1] = <<"_", TRUE>> THEN Refused
    ELSE LikeFilterAnywhere(pattern)

Listed(items) ==
    IF \E i \in 1..Len(items) : Contains(items[i], ",") THEN Refused ELSE Filter("in", JoinWith(items, <<",", " ">>))

\* condition: one of WHERE's, as the filter it is.
Condition(c) ==
    CASE c.form = "like" -> LikeFilter(c.text)
      [] c.form = "in" -> Listed(c.items)
      [] c.form = "null" -> Filter(c.op, <<>>)
      [] c.form = "compare" -> Filter(c.op, c.text)
      [] OTHER -> Refused

\* shown_columns: none for every column; a table's t.* has the column "*".
EveryColumn(q) ==
    \/ q.select = <<>>
    \/ /\ Len(q.select) = Len(q.from)
       /\ \A i \in 1..Len(q.select) : q.select[i].column = "*" /\ ColumnIn(q, q.select[i], Len(q.from)) = {ColumnRef(i - 1, "*")}

Columns(cols, ColumnOf(_)) == [i \in 1..Len(cols) |-> ColumnOf(cols[i])]

WrittenColumns(q) ==
    (IF EveryColumn(q) THEN {} ELSE Range(q.select))
        \cup {q.where[i].col : i \in 1..Len(q.where)} \cup {q.order[i].col : i \in 1..Len(q.order)}

NamedIn(q, col) == CHOOSE r \in ColumnIn(q, col, Len(q.from)) : TRUE

\* read_table_select: whether the SQL can be shown as filters.
IsRead(q) ==
    /\ FromIsRead(q)
    /\ \A col \in WrittenColumns(q) : col.column # "*" /\ ColumnIn(q, col, Len(q.from)) # {}
    /\ \A i \in 1..Len(q.where) : Condition(q.where[i]) # Refused
    /\ \A i, j \in 1..Len(q.order) : q.order[i].desc = q.order[j].desc

-----------------------------------------------------------------------------
(* From the filters to SQL: buildSelectSql. *)

\* aliases: a table joined to itself has a suffix.
Aliases(names) == [i \in 1..Len(names) |-> IF \E j \in 1..(i - 1) : names[j] = names[i] THEN <<names[i], "2">> ELSE <<names[i]>>]

Cond(col, form, op, text, items) == [col |-> col, form |-> form, op |-> op, text |-> text, items |-> items]

\* A mistake the checks must catch: what is typed taken for a pattern.
PlainCondition(col, f) ==
    CASE f.op \in {"isNull", "notNull"} -> Cond(col, "null", f.op, <<>>, <<>>)
      [] f.op = "contains" -> Cond(col, "like", "", <<"%">> \o f.value \o <<"%">>, <<>>)
      [] f.op = "startsWith" -> Cond(col, "like", "", f.value \o <<"%">>, <<>>)
      [] f.op = "in" -> Cond(col, "in", "", <<>>, ListItems(f.value))
      [] OTHER -> Cond(col, "compare", f.op, f.value, <<>>)

BuiltCondition(col, f) ==
    PlainCondition(col, IF f.op \in {"contains", "startsWith"} THEN [f EXCEPT !.value = Escaped(@)] ELSE f)

FilterOf(t, r) == ParseFilter(t.boxes[r], Kind[r.column])

Filtered(t) == SetToSeq({r \in Ref : FilterOf(t, r) # None})

BuildSelectSql(t) ==
    LET names  == Aliases(<<Browsed>> \o [i \in 1..Len(t.joins) |-> t.joins[i].table])
        alias(i, name) == IF names[i] = <<name>> THEN NoAlias ELSE names[i]
        col(r) == Written(IF t.joins = <<>> THEN <<>> ELSE names[r.table + 1], r.column)
        order  == PageOrder(t.sort, KeysOf(t.joins))
        where  == Filtered(t)
    IN [from   |-> <<[table |-> Browsed, alias |-> NoAlias]>> \o
                       [i \in 1..Len(t.joins) |-> [table |-> t.joins[i].table, alias |-> alias(i + 1, t.joins[i].table)]],
        kind   |-> IF t.joins = <<>> THEN "left" ELSE t.joins[1].kind,
        on     |-> IF t.joins = <<>> THEN {}
                   ELSE {LET own == CHOOSE r \in pair : r.table = 1 IN <<col(own), col(CHOOSE r \in pair : r # own)>> : pair \in t.joins[1].on},
        select |-> Columns(t.shown, col),
        where  |-> [i \in 1..Len(where) |-> BuiltCondition(col(where[i]), FilterOf(t, where[i]))],
        order  |-> [i \in 1..Len(order) |-> [col |-> col(order[i]), desc |-> t.desc]],
        limited |-> TRUE]

-----------------------------------------------------------------------------
(* The tab. *)

NewTab == [joins |-> <<>>, boxes |-> [r \in Ref |-> <<>>], shown |-> <<>>, sort |-> NoSort, desc |-> FALSE]

ModeInit == mode = "filter" /\ filters = NewTab /\ sql = <<>> /\ built = <<>> /\ read = FALSE

\* openSql writes both anew: in the filter mode nothing reads them.
NoSqlLeft == sql' = <<>> /\ built' = <<>>

Settings(t) == Cardinality({r \in Ref : t.boxes[r] # <<>>}) + Len(t.joins) + Len(t.shown) + (IF t.sort = NoSort THEN 0 ELSE 1)

Changes(t) == mode = "filter" /\ filters # t /\ Settings(t) <= MaxSettings /\ filters' = t /\ read' = FALSE /\ NoSqlLeft /\ UNCHANGED mode

Type(r, text) == r.table <= Len(filters.joins) /\ Changes([filters EXCEPT !.boxes[r] = text])

SortBy(r, desc) == r.table <= Len(filters.joins) /\ Changes([filters EXCEPT !.sort = r, !.desc = desc])

Join(table, kind, pair) == filters.joins = <<>> /\ Changes([filters EXCEPT !.joins = <<[table |-> table, kind |-> kind, on |-> {pair}]>>])

Show(r) == r.table <= Len(filters.joins) /\ Changes([filters EXCEPT !.shown = <<r>>])

ToSql == mode = "filter" /\ mode' = "sql" /\ sql' = BuildSelectSql(filters) /\ built' = sql' /\ read' = FALSE /\ UNCHANGED filters

\* openSql: a new tab opened on SQL from the library.
OpenSql(q) ==
    /\ mode = "filter" /\ filters = NewTab
    /\ mode' = "sql" /\ sql' = q /\ built' = BuildSelectSql(filters) /\ read' = FALSE /\ UNCHANGED filters

EditSql(i, c) ==
    /\ mode = "sql" /\ sql = built /\ i <= Len(sql.where)
    /\ sql' = [sql EXCEPT !.where[i] = [c EXCEPT !.col = sql.where[i].col]]
    /\ UNCHANGED <<mode, filters, built, read>>

RefsRead(q)  == [i \in 1..Len(q.where) |-> NamedIn(q, q.where[i].col)]
OrderRead(q) == [i \in 1..Len(q.order) |-> NamedIn(q, q.order[i].col)]

\* The grid sorts by one column: the order is that column alone, the keys, or as the tab writes it.
SortsByOne(order, keys) == Len(order) > 1 /\ order # keys => order = PageOrder(order[1], keys)

BoxRead(q, i) == FilterBoxText(Condition(q.where[i]), Kind[RefsRead(q)[i].column])

\* adopt: why the grid can't show what was read.
CanBeShown(q) ==
    LET refs == RefsRead(q) IN
    /\ q.limited /\ SortsByOne(OrderRead(q), KeysOf(JoinsRead(q)))
    /\ \A i \in 1..Len(refs) : BoxRead(q, i) # <<>>
    /\ \A i, j \in 1..Len(refs) : refs[i] = refs[j] => i = j

Adopted(q) ==
    LET order == OrderRead(q)
        refs  == RefsRead(q)
    IN [joins |-> JoinsRead(q),
        boxes |-> [r \in Ref |-> IF r \in Range(refs) THEN BoxRead(q, CHOOSE i \in 1..Len(refs) : refs[i] = r) ELSE <<>>],
        shown |-> IF EveryColumn(q) THEN <<>> ELSE [i \in 1..Len(q.select) |-> NamedIn(q, q.select[i])],
        sort  |-> IF order = <<>> \/ order = KeysOf(JoinsRead(q)) THEN NoSort ELSE order[1],
        desc  |-> order # <<>> /\ q.order[1].desc]

\* toFilters: SQL that wasn't edited needs no reading; what can't be shown is refused.
ToFilters ==
    /\ mode = "sql"
    /\ \/ sql = built /\ mode' = "filter" /\ NoSqlLeft /\ UNCHANGED <<filters, read>>
       \/ sql # built /\ IsRead(sql) /\ CanBeShown(sql) /\ mode' = "filter" /\ filters' = Adopted(sql) /\ read' = TRUE
          /\ UNCHANGED <<sql, built>>

ModeNext ==
    \/ \E r \in Ref : (\E text \in BoxText : Type(r, text)) \/ (\E desc \in BOOLEAN : SortBy(r, desc)) \/ Show(r)
    \/ \E table \in Table, kind \in {"left", "inner"}, c \in Column, d \in Column :
           Join(table, kind, {ColumnRef(1, c), ColumnRef(0, d)})
    \/ ToSql \/ ToFilters
    \/ \E q \in Query : OpenSql(q)
    \/ \E i \in 1..2, c \in Edited : EditSql(i, c)

ModeSpec == ModeInit /\ [][ModeNext]_modeVars

-----------------------------------------------------------------------------
(* What the SQL and the tab mean. *)

\* A table is called by its alias, which hides its own name; no two by the same.
ServerNames(from) == IF from.alias # NoAlias THEN {from.alias} ELSE {<<from.table>>, <<"s", from.table>>}

ServerRef(q, col) ==
    IF col.by = <<>> THEN ColumnRef(0, col.column)
    ELSE ColumnRef((CHOOSE i \in 1..Len(q.from) : col.by \in ServerNames(q.from[i])) - 1, col.column)

Takes(q, col) == IF col.by = <<>> THEN Len(q.from) = 1 ELSE \E i \in 1..Len(q.from) : col.by \in ServerNames(q.from[i])

ServerTakes(q) ==
    /\ \A i, j \in 1..Len(q.from) : i # j => ServerNames(q.from[i]) \cap ServerNames(q.from[j]) = {}
    /\ \A col \in WrittenColumns(q) \cup UNION {Range(p) : p \in q.on} : Takes(q, col)

Satisfies(c, v) ==
    CASE c.form = "null" -> (v = Null) = (c.op = "isNull")
      [] c.form = "compare" -> v # Null /\ Compares(c.op, v, c.text)
      [] c.form = "like" -> v # Null /\ Like(c.text, v)
      [] c.form = "in" -> v # Null /\ Contains(c.items, v)
      [] OTHER -> FALSE

SqlRows(q) == [r \in Ref |-> {v \in Value \cup {Null} :
                  \A i \in 1..Len(q.where) : ServerRef(q, q.where[i].col) = r => Satisfies(q.where[i], v)}]

TabRows(t) == [r \in Ref |-> WhereClause(FilterOf(t, r))]

SqlJoins(q) == [i \in 1..(Len(q.from) - 1) |->
    [table |-> q.from[i + 1].table, kind |-> q.kind, on |-> {{ServerRef(q, p[1]), ServerRef(q, p[2])} : p \in q.on}]]

SqlShows(q) == IF EveryColumn(q) THEN <<>> ELSE [i \in 1..Len(q.select) |-> ServerRef(q, q.select[i])]

\* The browse sorts by the keys too, where the SQL leaves ties as they come.
SqlOrder(q)  == [i \in 1..Len(q.order) |-> <<ServerRef(q, q.order[i].col), q.order[i].desc>>]
TabOrder(t)  == LET order == PageOrder(t.sort, KeysOf(t.joins)) IN [i \in 1..Len(order) |-> <<order[i], t.desc>>]

\* The box takes a list apart at its commas: an item with white space around it, and a
\* blank one, is lost (listed refuses only items with a comma).  A pattern
\* that ends in a lone backslash is read without it.
Spaced(q) == \E i \in 1..Len(q.where) :
    \/ \E k \in 1..Len(q.where[i].items) : Trim(q.where[i].items[k]) = <<>> \/ Trim(q.where[i].items[k]) # q.where[i].items[k]
    \/ q.where[i].form = "like" /\ q.where[i].text # <<>> /\ Last(q.where[i].text) = "\\"

\* The SQL a tab shows, and the filters it shows for SQL, mean the same: the tables and how
\* they are joined, the rows of each column's conditions, the columns shown and the order
\* ("since the filter boxes couldn't show it", read_select.rs:268-271).
ModesAgree ==
    (mode = "sql" /\ sql = built) \/ (read /\ ServerTakes(sql) /\ ~Spaced(sql)) =>
        /\ SqlJoins(sql) = filters.joins /\ SqlRows(sql) = TabRows(filters) /\ SqlShows(sql) = filters.shown
        /\ IsPrefix(SqlOrder(sql), TabOrder(filters))
=============================================================================
