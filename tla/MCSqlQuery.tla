------------------------------ MODULE MCSqlQuery ------------------------------
(* The documents and the SQL of MCSqlWork's instance of SqlQuery. *)
EXTENDS Naturals, Sequences

CONSTANT Null

Values == {<<"1">>, <<"2">>, <<"a", "b">>}
Lesses == {<<(<<"1">>), <<"2">>>>, <<(<<"1">>), <<"a", "b">>>>, <<(<<"2">>), <<"a", "b">>>>}
Leaf(field, op, values) == [t |-> "leaf", field |-> field, op |-> op, values |-> values, escape |-> "", parts |-> <<>>]
Escaped(leaf, character) == [leaf EXCEPT !.escape = character]
Of(t, parts) == [t |-> t, field |-> "", op |-> "", values |-> <<>>, escape |-> "", parts |-> parts]

Leaves == {Leaf("x", op, <<(<<"1">>)>>) : op \in {"eq", "ne", "lt", "gte"}} \cup
    {Leaf("x", "in", <<(<<"1">>), Null>>), Leaf("y", "between", <<(<<"1">>), <<"2">>>>), Leaf("y", "not like", <<(<<"%", "b">>)>>),
     Leaf("y", "like", <<(<<"_", "b">>)>>), Escaped(Leaf("y", "like", <<(<<"!", "_", "b">>)>>), "!"),
     Escaped(Leaf("y", "not like", <<(<<"a", "%">>)>>), "!"), Leaf("x", "is null", <<>>), Leaf("y", "other", <<>>)}
Few == {Leaf("x", "ne", <<(<<"1">>)>>), Leaf("x", "lte", <<(<<"2">>)>>), Leaf("y", "eq", <<(<<"1">>)>>), Leaf("y", "nin", <<(<<"1">>), <<"2">>>>),
        Leaf("skip", "eq", <<(<<"1">>)>>)}

Pairs(A, B) == {Of(t, <<a, b>>) : t \in {"and", "or"}, a \in A, b \in B}
Nested(A)   == {Of("nested", <<a>>) : a \in A}
Wheres == Leaves \cup Pairs(Leaves, Leaves) \cup Pairs(Pairs(Few, Few) \cup Nested(Pairs(Few, Few)), Few)
            \cup Pairs(Few, Nested(Pairs(Few, Few))) \cup Pairs(Nested(Pairs(Few, Few)), Nested(Pairs(Few, Few)))

Select(extra, select, where, order) == [extra |-> extra, select |-> select, where |-> where, order |-> order, limit |-> <<10>>]
Order(field, desc) == [field |-> field, desc |-> desc]

Extras == {"none", "join", "distinct", "limit by", "fetch", "nulls first"}
Queries == {Select("none", <<"*">>, w, <<>>) : w \in Wheres} \cup
    {Select(extra, s, w, o) : extra \in Extras, s \in {<<"*">>, <<"y">>, <<"y", "skip">>}, w \in Few,
                              o \in {<<>>, <<Order("y", TRUE), Order("x", FALSE)>>, <<Order("x", FALSE), Order("x", TRUE)>>}}
=============================================================================
