------------------------------- MODULE SqlQuery -------------------------------
(***************************************************************************)
(* The SQL console of a MongoDB connection: a SELECT turned into the       *)
(* pieces of a find (commands/mongo/sql/mod.rs and filter.rs), and the     *)
(* find MongoDB makes of them.                                             *)
(*                                                                         *)
(* A query is its syntax tree, a value a sequence of characters without    *)
(* line breaks.  A leaf of WHERE means what its MongoDB operator means, so *)
(* NULL and missing fields compare as MongoDB's do; a clause the           *)
(* translation does not look at is known by its name (extra).  The numbers *)
(* of LIMIT and OFFSET and the layout of the JSON are left out.            *)
(***************************************************************************)
EXTENDS Integers, FiniteSets, Sequences, SequencesExt

CONSTANTS
    Field, Value, Null, Missing,   \* the fields of a document and what they may hold
    Less,                          \* the pairs of values of which the first comes first
    Query                          \* the SQL a user may write

VARIABLES
    sql,   \* the statement
    mql    \* its translation: MqlQuery, or that there is none

vars == <<sql, mql>>

Doc == [Field -> Value \cup {Null, Missing}]

NotYet  == [answer |-> "not yet", filter |-> <<>>, projection |-> <<>>, sort |-> <<>>, limit |-> <<>>]
Refused == [NotYet EXCEPT !.answer = "refused"]

-----------------------------------------------------------------------------
(* J, the ordered JSON value: a value, a list, or the entries of an object. *)

Val(v)      == [j |-> "val", val |-> v, parts |-> <<>>]
Arr(items)  == [j |-> "arr", val |-> Null, parts |-> items]
Entry(k, v) == [key |-> k, is |-> v]
Obj(parts)  == [j |-> "obj", val |-> Null, parts |-> parts]
One(k, v)   == Obj(<<Entry(k, v)>>)

\* normalize_skip: any bare word SKIP, for OFFSET.
NormalizeSkip(field) == IF field = "skip" THEN "OFFSET" ELSE field

-----------------------------------------------------------------------------
(* WHERE: a leaf has a field, an operator and values, and that of a LIKE the character of *)
(* its ESCAPE, if any; and, or and nested have parts.                                     *)

\* like_to_regex, between ^ and $: .* for %, . for _, and each other character itself.
LikeToRegex(pattern) ==
    [i \in 1..Len(pattern) |-> IF pattern[i] = "%" THEN <<"any*", "">>
                               ELSE IF pattern[i] = "_" THEN <<"any", "">> ELSE <<"char", pattern[i]>>]

CondToJ(leaf) ==
    CASE leaf.op = "eq" -> Val(leaf.values[1])
      [] leaf.op = "in" -> One("$in", Arr([i \in 1..Len(leaf.values) |-> Val(leaf.values[i])]))
      [] leaf.op = "nin" -> One("$nin", Arr([i \in 1..Len(leaf.values) |-> Val(leaf.values[i])]))
      [] leaf.op = "like" -> One("$regex", Val(LikeToRegex(leaf.values[1])))
      [] leaf.op = "not like" -> One("$not", One("$regex", Val(LikeToRegex(leaf.values[1]))))
      [] leaf.op = "between" -> Obj(<<Entry("$gte", Val(leaf.values[1])), Entry("$lte", Val(leaf.values[2]))>>)
      [] leaf.op = "is null" -> Val(Null)
      [] leaf.op = "is not null" -> One("$ne", Val(Null))
      [] OTHER -> One("$" \o leaf.op, Val(leaf.values[1]))

\* convert_leaf: what it has no condition for is refused.  The ESCAPE of a LIKE is neither
\* refused nor used, here or in CondToJ (the .. of filter.rs:125).
LeafIsRead(leaf) == leaf.op # "other" /\ (leaf.op \in {"in", "nin"} => leaf.values # <<>>)

\* flatten_bool: the parts of a chain of one operator, parentheses not looked into.
RECURSIVE FlattenBool(_, _)
FlattenBool(e, op) ==
    IF e.t = op THEN FlattenBool(e.parts[1], op) \o FlattenBool(e.parts[2], op) ELSE <<e>>

RECURSIVE WhereIsRead(_)
WhereIsRead(e) == IF e.t = "leaf" THEN LeafIsRead(e) ELSE \A i \in 1..Len(e.parts) : WhereIsRead(e.parts[i])

\* A mistake the checks must catch: conditions merged whatever their fields.
CanMergeAny(parts) == \A i \in 1..Len(parts) : Len(parts[i].parts) = 1

\* can_merge: each an object of one key, and no key twice.
CanMerge(parts) ==
    /\ \A i \in 1..Len(parts) : Len(parts[i].parts) = 1
    /\ \A i, j \in 1..Len(parts) : parts[i].parts[1].key = parts[j].parts[1].key => i = j

RECURSIVE ConvertWhere(_)

\* convert_where and expr_to_j: an AND becomes one object when it can.
ExprToJ(e) ==
    LET flat  == FlattenBool(e, e.t)
        parts == [i \in 1..Len(flat) |-> ConvertWhere(flat[i])]
    IN IF e.t = "or" THEN One("$or", Arr(parts))
       ELSE IF CanMerge(parts) THEN Obj([i \in 1..Len(parts) |-> parts[i].parts[1]])
       ELSE One("$and", Arr(parts))

ConvertWhere(e) ==
    CASE e.t = "leaf" -> One(NormalizeSkip(e.field), CondToJ(e))
      [] e.t = "nested" -> ConvertWhere(e.parts[1])
      [] OTHER -> ExprToJ(e)

-----------------------------------------------------------------------------
(* The statement. *)

\* convert_projection: an alias is ignored, and none at all stands for every field.
ConvertProjection(select) == IF Contains(select, "*") THEN <<>> ELSE [i \in 1..Len(select) |-> NormalizeSkip(select[i])]

\* convert_from and the clauses there is no find for.
FromIsRead(q) == q.extra \notin {"join", "table alias", "subquery"}
IsPlain(q)    == q.extra \notin {"distinct", "group by", "having", "union", "two statements"} /\ q.select # <<>>

\* The clauses the parser reads and nobody asks for: of the query (the .. of mod.rs:336), of
\* the select (only those of :344-367 are looked at), of the table (the .. of :243), of the
\* wildcard (:206) and of an order (:267).
ReadPastClauses == {"with", "fetch", "for update", "top", "qualify", "nulls first", "tablesample", "* except"}

ConvertOrderBy(order) == [i \in 1..Len(order) |-> Entry(NormalizeSkip(order[i].field), IF order[i].desc THEN -1 ELSE 1)]

\* convert_limit: LIMIT and OFFSET, or SKIP, in either order, each a whole number.
LimitIsRead(q)  == q.extra \notin {"limit by", "limit m, n", "limit 1.5"}
ConvertLimit(q) == q.limit

SqlToMql(q) ==
    IF IsPlain(q) /\ FromIsRead(q) /\ WhereIsRead(q.where) /\ LimitIsRead(q)
    THEN [answer |-> "read", filter |-> <<ConvertWhere(q.where)>>, projection |-> ConvertProjection(q.select),
          sort |-> ConvertOrderBy(q.order), limit |-> ConvertLimit(q)]
    ELSE Refused

Init == sql \in Query /\ mql = NotYet

\* translate_sql.
Translate == mql = NotYet /\ mql' = SqlToMql(sql) /\ UNCHANGED sql

Spec == Init /\ [][Translate]_vars

-----------------------------------------------------------------------------
(* MongoDB. *)

Compares(op, v, w) ==
    CASE op = "eq" -> v = w \/ (w = Null /\ v = Missing)
      [] op = "ne" -> ~(v = w \/ (w = Null /\ v = Missing))
      [] op = "lt" -> <<v, w>> \in Less [] op = "gt" -> <<w, v>> \in Less
      [] op = "lte" -> <<v, w>> \in Less \/ v = w [] op = "gte" -> <<w, v>> \in Less \/ v = w

RECURSIVE RegexMatches(_, _)
RegexMatches(regex, v) ==
    IF regex = <<>> THEN v = <<>>
    ELSE LET atom == Head(regex) IN
         IF atom[1] = "any*" THEN RegexMatches(Tail(regex), v) \/ (v # <<>> /\ RegexMatches(regex, Tail(v)))
         ELSE v # <<>> /\ (atom[1] = "any" \/ Head(v) = atom[2]) /\ RegexMatches(Tail(regex), Tail(v))

IsText(v) == v \notin {Null, Missing}

RECURSIVE Satisfies(_, _)
Satisfies(v, entry) ==
    CASE entry.key = "$in" -> \E i \in 1..Len(entry.is.parts) : Compares("eq", v, entry.is.parts[i].val)
      [] entry.key = "$nin" -> \A i \in 1..Len(entry.is.parts) : ~Compares("eq", v, entry.is.parts[i].val)
      [] entry.key = "$regex" -> IsText(v) /\ RegexMatches(entry.is.val, v)
      [] entry.key = "$not" -> ~Satisfies(v, entry.is.parts[1])
      [] OTHER -> Compares(CHOOSE op \in {"ne", "lt", "lte", "gt", "gte"} : "$" \o op = entry.key, v, entry.is.val)

\* A key written twice has its last value.
LastEntries(parts) == {parts[i] : i \in {i \in 1..Len(parts) : \A j \in (i + 1)..Len(parts) : parts[j].key # parts[i].key}}

RECURSIVE Finds(_, _)
Finds(filter, doc) == \A entry \in LastEntries(filter.parts) :
    CASE entry.key = "$and" -> \A i \in 1..Len(entry.is.parts) : Finds(entry.is.parts[i], doc)
      [] entry.key = "$or" -> \E i \in 1..Len(entry.is.parts) : Finds(entry.is.parts[i], doc)
      [] OTHER -> LET v == doc[entry.key] IN
                  IF entry.is.j = "obj" THEN \A op \in LastEntries(entry.is.parts) : Satisfies(v, op)
                  ELSE Compares("eq", v, entry.is.val)

-----------------------------------------------------------------------------
(* What the statement says. *)

\* After its escape character, a character of a pattern is itself.
RECURSIVE Like(_, _, _)
Like(pattern, escape, v) ==
    IF pattern = <<>> THEN v = <<>>
    ELSE IF Head(pattern) = escape
    THEN Len(pattern) > 1 /\ v # <<>> /\ pattern[2] = Head(v) /\ Like(Tail(Tail(pattern)), escape, Tail(v))
    ELSE IF Head(pattern) = "%" THEN \E i \in 0..Len(v) : Like(Tail(pattern), escape, SubSeq(v, i + 1, Len(v)))
    ELSE v # <<>> /\ Head(pattern) \in {"_", Head(v)} /\ Like(Tail(pattern), escape, Tail(v))

Means(leaf, v) ==
    LET values == leaf.values IN
    CASE leaf.op = "in" -> \E i \in 1..Len(values) : Compares("eq", v, values[i])
      [] leaf.op = "nin" -> ~\E i \in 1..Len(values) : Compares("eq", v, values[i])
      [] leaf.op = "like" -> IsText(v) /\ Like(values[1], leaf.escape, v)
      [] leaf.op = "not like" -> ~(IsText(v) /\ Like(values[1], leaf.escape, v))
      [] leaf.op = "between" -> Compares("gte", v, values[1]) /\ Compares("lte", v, values[2])
      [] leaf.op = "is null" -> v \in {Null, Missing}
      [] leaf.op = "is not null" -> v \notin {Null, Missing}
      [] OTHER -> Compares(leaf.op, v, values[1])

RECURSIVE Holds(_, _)
Holds(e, doc) ==
    CASE e.t = "leaf" -> Means(e, doc[e.field])
      [] e.t = "nested" -> Holds(e.parts[1], doc)
      [] e.t = "and" -> Holds(e.parts[1], doc) /\ Holds(e.parts[2], doc)
      [] e.t = "or" -> Holds(e.parts[1], doc) \/ Holds(e.parts[2], doc)

RECURSIVE LeavesOf(_)
LeavesOf(e) == IF e.t = "leaf" THEN {e} ELSE UNION {LeavesOf(e.parts[i]) : i \in 1..Len(e.parts)}

FieldsOf(q) == {leaf.field : leaf \in LeavesOf(q.where)} \cup Range(q.select) \cup {q.order[i].field : i \in 1..Len(q.order)}

\* A field called skip can't be named but in quotes (mod.rs:94-96 takes any such word for
\* the keyword), and a field ordered by twice is ordered by its last direction.
NamesSkip(q) == "skip" \in FieldsOf(q)

\* What the translation reads past says something: a clause of those above, or the ESCAPE of
\* a pattern its character is in.  The find is then another query than the statement.
SaysMore(q) ==
    \/ q.extra \in ReadPastClauses
    \/ \E leaf \in LeavesOf(q.where) : leaf.op \in {"like", "not like"} /\ Contains(leaf.values[1], leaf.escape)

\* The find of a statement's translation finds the documents its WHERE describes, whatever
\* way its conditions are merged, shows the fields it selects and sorts as it says ("the
\* parts of an equivalent MongoDB find query", mod.rs:380-381); but not of a statement that
\* says more than is translated, which is accepted nevertheless.
FindsWhatItSays ==
    mql.answer = "read" /\ ~NamesSkip(sql) /\ ~SaysMore(sql) =>
        /\ \A doc \in Doc : Finds(mql.filter[1], doc) = Holds(sql.where, doc)
        /\ mql.projection = (IF Contains(sql.select, "*") THEN <<>> ELSE sql.select)
        /\ (\A i, j \in 1..Len(sql.order) : sql.order[i].field = sql.order[j].field => i = j) =>
              [i \in 1..Len(mql.sort) |-> <<mql.sort[i].key, mql.sort[i].is = -1>>] = [i \in 1..Len(sql.order) |-> <<sql.order[i].field, sql.order[i].desc>>]
=============================================================================
