---------------------------- MODULE MCTablePages ----------------------------
(* The tables, and what a tab asks for, of MCSqlWork's instance of TablePages. *)
EXTENDS Naturals, Sequences

CONSTANT Null

TableColumns == [orders |-> {"id", "who"}, people |-> {"id", "who"}, notes |-> {"id", "who"}]
TableKeys == [orders |-> <<"id">>, people |-> <<"id">>, notes |-> <<>>]
Row(id, who) == [id |-> id, who |-> who]
Tables(orders, people, notes) == [orders |-> orders, people |-> people, notes |-> notes]
Worlds == {
    Tables(<<Row(1, 1), Row(2, 1)>>, <<Row(1, 1), Row(2, 1)>>, <<Row(1, 1), Row(1, 1)>>),
    Tables(<<Row(1, 1), Row(2, Null), Row(3, 2)>>, <<Row(1, 1), Row(2, 1)>>, <<>>)}
Ranks == [v \in {1, 2, 3, Null} |-> IF v = Null THEN 4 ELSE v]
Ref(n, c) == [table |-> n, column |-> c]
JoinTo(t, kind, on) == [table |-> t, kind |-> kind, on |-> on]
ByWho(n) == {[column |-> "who", equals |-> Ref(n, "who")]}
AskFor(joins, filters, sort, descending) == [table |-> "orders", joins |-> joins, filters |-> filters, sort |-> sort, descending |-> descending]
Joins == {<<>>, <<JoinTo("people", "left", ByWho(0))>>, <<JoinTo("people", "inner", ByWho(0))>>, <<JoinTo("notes", "left", ByWho(0))>>,
          <<JoinTo("people", "left", {[column |-> "gone", equals |-> Ref(0, "who")]})>>}
Sorts == {<<(<<>>), FALSE>>, <<(<<Ref(0, "who")>>), FALSE>>, <<(<<Ref(0, "who")>>), TRUE>>}
Views == {AskFor(joins, filters, sort[1], sort[2]) :
              joins \in Joins, filters \in {{}, {[column |-> Ref(0, "who"), values |-> {1}]}}, sort \in Sorts}
=============================================================================
