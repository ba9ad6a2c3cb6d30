------------------------------ MODULE MCTableSql ------------------------------
(* The tables, boxes and SQL of MCSqlWork's instance of TableSql. *)
EXTENDS Naturals, Sequences

Columns == {"k", "c"}
Written(by, column) == [by |-> by, column |-> column]
NoAlias == <<>>
Cond(col, form, op, text, items) == [col |-> col, form |-> form, op |-> op, text |-> text, items |-> items]

Kinds == [c \in Columns |-> IF c = "k" THEN "num" ELSE "text"]
Values == {<<>>, <<"a">>, <<"a", "%">>, <<"a", "b">>, <<"b", "a">>, <<"1">>, <<" ", "a">>, <<"null">>}
Lesses == {<<(<<>>), <<"a">>>>, <<(<<"1">>), <<"a">>>>, <<(<<"a">>), <<"a", "b">>>>}
Texts == {<<" ", "a", "%">>, <<"^", "a">>, <<"=", "a", ",", "1">>, <<"!", "null">>, <<">", "=", "a">>}

Conditions(col) ==
    {Cond(col, "compare", op, text, <<>>) : op \in {"eq", "ne", "gt", "lte"}, text \in {<<"a">>, <<"=", "a">>, <<"a", ",", "b">>, <<"null">>, <<" ", "a">>}}
    \cup {Cond(col, "like", "", p, <<>>) : p \in {<<"%", "a", "%">>, <<"a", "%">>, <<"%", "a", "\\", "%", "%">>, <<"a", "\\", "%">>, <<"a", "%", "b", "%">>, <<"_", "a", "%">>, <<"%", "%">>}}
    \cup {Cond(col, "in", "", <<>>, items) : items \in {<<(<<"a">>), <<"1">>>>, <<(<<"a">>)>>, <<(<<"a", ",", "b">>), <<"1">>>>, <<(<<"1">>), <<" ", "a">>>>}}
    \cup {Cond(col, "null", "isNull", <<>>, <<>>), Cond(col, "other", "", <<>>, <<>>)}

Edits == {c \in Conditions(Written(<<>>, "c")) : c.form = "compare" => c.op = "eq"}

Star == <<>>
One(t, alias) == [table |-> t, alias |-> alias]
Select(from, kind, on, select, where, order, limited) ==
    [from |-> from, kind |-> kind, on |-> on, select |-> select, where |-> where, order |-> order, limited |-> limited]
By(col, desc) == [col |-> col, desc |-> desc]

\* One table, under its name, its schema's or an alias.
Single == {Select(<<One(t, alias)>>, "left", {}, select, <<c, Cond(Written(by, "k"), "compare", "gt", <<"1">>, <<>>)>>, order, limited) :
    t \in {"t", "u"}, alias \in {NoAlias, <<"x">>}, by \in {<<>>, <<"s", "t">>}, select \in {Star, <<Written(<<"x">>, "*")>>, <<Written(<<>>, "c")>>},
    c \in Conditions(Written(<<>>, "c")), limited \in BOOLEAN,
    order \in {<<>>, <<By(Written(<<>>, "c"), TRUE), By(Written(<<>>, "k"), FALSE)>>, <<By(Written(<<>>, "c"), TRUE), By(Written(<<>>, "k"), TRUE)>>}}

\* Two tables, each of which may go by the other's name.
Names == {<<"t">>, <<"u">>, <<"s", "u">>}
Orders(m, n) == {<<>>, <<By(Written(m, "c"), FALSE)>>, <<By(Written(m, "k"), TRUE), By(Written(n, "k"), TRUE)>>}
Double == UNION {
    {Select(<<One("t", a), One(t, b)>>, kind, {<<Written(m, "c"), Written(n, "k")>>}, select,
            <<Cond(Written(n, "c"), "like", "", <<"a", "%">>, <<>>)>>, order, TRUE) :
        a \in {NoAlias, <<"u">>}, t \in {"t", "u"}, b \in {NoAlias, <<"t">>}, kind \in {"left", "inner", "full"},
        select \in {Star, <<Written(<<"t">>, "*"), Written(<<"u">>, "*")>>, <<Written(<<"u">>, "c")>>}, order \in Orders(m, n)} :
    m \in Names, n \in Names}

Queries == Single \cup Double
=============================================================================
