--------------------------- MODULE MCOrderCreation ---------------------------
(* Instances of OrderCreation: two operators of one shop, one of them also of a
   second shop; a new order in each shop, due on different days, and an import. *)
EXTENDS OrderCreation, TLC, FiniteSets

CONSTANTS q1, q2, q3, k1, k2, sara, omid, cake, tea, archived

MCShops == {"bakery", "teahouse"}

MCShopOf == [b \in Bodies |-> IF b = tea THEN "teahouse" ELSE "bakery"]

MCAccess == {<<sara, "bakery">>, <<omid, "bakery">>, <<omid, "teahouse">>}

\* The cake is due on the first day, the tea on the second.
MCDeliveryDay == [b \in Bodies |-> IF b = tea THEN 1 ELSE 0]

SameRequests == Permutations({q1, q2, q3})

\* Either two requests of any kind, or three for new orders that carry one key.
Small ==
    LET received == {q \in Requests : request[q].phase # "idle"}
    IN \/ Cardinality(received) <= 2
       \/ \A q \in received : request[q].key = k1 /\ request[q].body # archived

SmallSpec == Init /\ [][Next /\ Small']_vars
=============================================================================
