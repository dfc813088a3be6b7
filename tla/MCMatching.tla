----------------------------- MODULE MCMatching -----------------------------
(* Values for Matching: two schemas, names in two cases, and two names     *)
(* close to each other; the types the comparison tells apart.              *)
EXTENDS Matching

MCFold == [s |-> "s", S |-> "s", u |-> "u", orders |-> "orders", Orders |-> "orders",
           order |-> "order"]

MCFoldName == [a |-> "a", A |-> "a", b |-> "b", c |-> "c"]

\* In tenths: names of the same schema that are close have 9.
MCSimilarity(k1, k2) ==
  CASE k1 = k2 -> 10
    [] k1 # k2 /\ k1[1] = k2[1] /\ {k1[2], k2[2]} \subseteq {"orders", "Orders", "order"} -> 9
    [] OTHER -> 3

SourceLists ==
  {<< <<"s", "orders">>, <<"s", "order">> >>, << <<"S", "Orders">>, <<"S", "order">> >>,
   << <<"s", "Orders">>, <<"s", "orders">>, <<"u", "order">> >>}
TargetLists ==
  {<< <<"s", "Orders">>, <<"s", "order">> >>, << <<"s", "order">> >>,
   << <<"S", "orders">>, <<"u", "Orders">>, <<"u", "orders">> >>,
   << <<"u", "order">>, <<"u", "Orders">> >>}

MCCatalogs == [source : SourceLists, target : TargetLists]

NoMap == [x \in {} |-> ""]
Searches == {[allowed |-> {"s"}, schemaMap |-> NoMap, cutoff |-> 10],
             [allowed |-> {}, schemaMap |-> NoMap, cutoff |-> 8],
             [allowed |-> {"S"}, schemaMap |-> [S |-> "u"], cutoff |-> 10]}
MCUnlisted == {{}, {"s"}}

Int32 == Type("int32", FALSE, FALSE, -1, -1)
Int64 == Type("int64", FALSE, FALSE, -1, -1)
Dec(p, s, required) == Type("decimal", required, TRUE, p, s)
Utc == Type("timestamp", FALSE, TRUE, -1, -1)

MCFieldLists ==
  {<< <<"a", Dec(4, 2, FALSE)>>, <<"b", Int32>> >>, << <<"A", Dec(5, 2, TRUE)>>, <<"c", Int32>> >>,
   << <<"a", Dec(5, 1, TRUE)>>, <<"b", Int64>>, <<"c", Utc>> >>,
   << <<"A", Utc>>, <<"a", Dec(4, 2, TRUE)>> >>,
   << <<"b", Dec(4, 3, FALSE)>>, <<"c", Dec(4, 2, FALSE)>> >>, << <<"c", Int64>> >>}

Pattern(t, p, s) == [t EXCEPT !.p = p, !.s = s]
Decimals(p) == Pattern(Dec(0, 0, FALSE), p, <<2>>)
Exactly(t) == Pattern(t, <<t.p>>, <<t.s>>)

AllowLists ==
  {{}, {<<Exactly(Int32), Decimals(<<3, 4>>)>>},
   {<<Decimals(<<4>>), Exactly(Int64)>>, <<Exactly(Int64), Exactly(Int32)>>},
   {<<Decimals(<<4, 3>>), Exactly(Int32)>>}}

MCRequests ==
  {[allowed |-> q.allowed, schemaMap |-> q.schemaMap, cutoff |-> q.cutoff,
    excluded |-> e, allowList |-> w] :
     q \in Searches, e \in {{}, {"a"}, {"b", "c"}}, w \in AllowLists}

=============================================================================
