-------------------------- MODULE MCOrderLifecycle --------------------------
(* Small instances of OrderLifecycle. *)
EXTENDS OrderLifecycle, TLC

CONSTANTS o1, o2, s1

OneShop == [o \in Orders |-> s1]

\* The members of each set are interchangeable for the safety properties.
Interchangeable == Permutations(Tokens) \cup Permutations(Uploads)

\* Either one order with long histories and every upload, or two orders, o1 the first,
\* with two history entries each and one upload between them.
Small ==
    \/ \A o \in Orders \ {o1} : ~Exists(o)
    \/ /\ \A o \in Orders : Exists(o) /\ Len(history[o]) <= 2
       /\ Cardinality({u \in Uploads : upload[u].phase # "idle"}) <= 1

SmallSpec == Init /\ [][Next /\ Small']_vars
=============================================================================
