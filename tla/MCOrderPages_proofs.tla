------------------------------ MODULE MCOrderPages_proofs ------------------------------
(* Proofs about the pages orders are worked on from (MCOrderPages), for any orders, settings
   of the page of an order, searches, statuses, products and amounts, and any bounds.

   - OrderWorkbench: one change is under way at most, the one the page shows as saving
     (Changes); what an answer says of an order is no newer than the order and what has been
     shipped early was warned about (RequestFits, LinksFollow).  With an operator who stays,
     the page holds its own order or none (OwnInv).

   - OrderList: each sort puts any orders in one order, so a listing has every order that
     matches once, sorted (ListSorted), and a page is what comes after the pages before it
     (ListAnswer).  Of the requests in flight one at most is of the list that is shown
     (Awaited), and what that list has is the beginning of its listing (PageFits).

   - ShopReport: what is added up is a sum, taken from any element (ReportSum); so the bars of
     the statuses add up to the orders (SumOfSizes, ReportCounts) and the average is between
     two amounts (SumBetween, ReportSummary).  A change moves each number by one at most
     (ReportMoves), as much as the drift of a report that is gathered (Gathered).

   Sets are counted and summed by the smallest case that fails (Least, AllSets).  A behaviour
   is of one part, and its steps leave the other parts alone (PagesStep).  *)
EXTENDS MCOrderPages, FiniteSetTheorems, FunctionTheorems, NaturalsInduction, SequenceTheorems,
        WellFoundedInduction, TLAPS

-----------------------------------------------------------------------------
(* Orders and sums of finite sets *)

\* What comes before x in S.
Lower(S, R, x) == {y \in S : <<y, x>> \in R}
Rank(S, R, x) == Cardinality(Lower(S, R, x))

\* R puts the elements of S in one order.
Ordered(S, R) ==
    /\ \A x \in S : <<x, x>> \notin R
    /\ \A x, y \in S : x # y => <<x, y>> \in R \/ <<y, x>> \in R
    /\ \A x, y, z \in S : <<x, y>> \in R /\ <<y, z>> \in R => <<x, z>> \in R

\* Each element has a place of its own, and every place is taken.
Ranked(S, R) ==
    /\ Cardinality(S) \in Nat
    /\ \A x \in S : Rank(S, R, x) \in 0..Cardinality(S) - 1
    /\ \A x, y \in S : <<x, y>> \in R => Rank(S, R, x) < Rank(S, R, y)
    /\ \A x, y \in S : Rank(S, R, x) = Rank(S, R, y) => x = y
    /\ \A i \in 0..Cardinality(S) - 1 : \E x \in S : Rank(S, R, x) = i

\* In a finite strict order each has a place of its own, and every place is taken.
LEMMA Ranks ==
    ASSUME NEW S, IsFiniteSet(S), NEW R, Ordered(S, R)
    PROVE  Ranked(S, R)
<1> USE DEF Ordered
<1>1. Cardinality(S) \in Nat
  BY FS_CardinalityType
<1>2. ASSUME NEW x \in S
      PROVE  /\ IsFiniteSet(Lower(S, R, x)) /\ Rank(S, R, x) \in Nat /\ Rank(S, R, x) < Cardinality(S)
  <2>1. Lower(S, R, x) \in SUBSET S /\ Lower(S, R, x) # S
    BY DEF Lower
  <2>2. /\ IsFiniteSet(Lower(S, R, x)) /\ Cardinality(Lower(S, R, x)) <= Cardinality(S)
        /\ Cardinality(S) # Cardinality(Lower(S, R, x))
    BY <2>1, FS_Subset
  <2>3. Cardinality(Lower(S, R, x)) \in Nat
    BY <2>2, FS_CardinalityType
  <2> QED BY <1>1, <2>2, <2>3 DEF Rank
<1>3. ASSUME NEW x \in S, NEW y \in S, <<x, y>> \in R PROVE Rank(S, R, x) < Rank(S, R, y)
  <2>1. Lower(S, R, x) \in SUBSET Lower(S, R, y) /\ x \in Lower(S, R, y) /\ x \notin Lower(S, R, x)
    BY <1>3 DEF Lower
  <2>2. IsFiniteSet(Lower(S, R, y))
    BY <1>2
  <2>3. Cardinality(Lower(S, R, x)) <= Cardinality(Lower(S, R, y))
          /\ Cardinality(Lower(S, R, x)) # Cardinality(Lower(S, R, y))
    BY <2>1, <2>2, FS_Subset
  <2> QED BY <1>2, <2>3 DEF Rank
<1>4. ASSUME NEW x \in S, NEW y \in S, Rank(S, R, x) = Rank(S, R, y) PROVE x = y
  <2>1. Rank(S, R, x) \in Nat /\ ~(Rank(S, R, x) < Rank(S, R, y)) /\ ~(Rank(S, R, y) < Rank(S, R, x))
    BY <1>2, <1>4
  <2> QED BY <1>3, <2>1
<1> DEFINE T == 0..Cardinality(S) - 1
           f == [x \in S |-> Rank(S, R, x)]
<1>5. IsFiniteSet(T) /\ Cardinality(T) = Cardinality(S)
  <2>1. PICK n \in Nat : n = Cardinality(S)
    BY <1>1
  <2>2. 0 \in Int /\ n - 1 \in Int /\ (IF 0 > n - 1 THEN 0 ELSE n - 1 - 0 + 1) = n
    BY <2>1
  <2>3. IsFiniteSet(0..n - 1) /\ Cardinality(0..n - 1) = n
    BY <2>2, FS_Interval, Zenon
  <2> QED BY <2>1, <2>3
<1>6. \A x \in S : Rank(S, R, x) \in T
  BY <1>1, <1>2
<1>7. f \in Surjection(S, T)
  <2>1. f \in Injection(S, T)
    BY <1>4, <1>6 DEF Injection, IsInjective
  <2> HIDE DEF f, T
  <2> QED BY <1>5, <2>1, FS_Injection
<1>8. \A i \in T : \E x \in S : Rank(S, R, x) = i
  BY <1>7 DEF Surjection
<1> QED BY <1>1, <1>3, <1>4, <1>6, <1>8 DEF Ranked

\* A set of natural numbers has a least element.
LEMMA Least ==
    ASSUME NEW T \in SUBSET Nat, T # {}
    PROVE  \E x \in T : \A y \in T : x <= y
<1>1. PICK x \in T : \A y \in T : ~ (<<y, x>> \in OpToRel(<, Nat))
  BY NatLessThanWellFounded, WFMin
<1>2. \A y \in T : ~(y < x)
  BY <1>1 DEF OpToRel
<1> QED BY <1>2

\* The element a set is summed up from.
One(s) == CHOOSE y \in s : TRUE

\* A set is one element and a smaller set.
LEMMA OneOff ==
    ASSUME NEW S, IsFiniteSet(S), NEW s \in SUBSET S, s # {}
    PROVE  /\ One(s) \in s /\ IsFiniteSet(s) /\ Cardinality(s) \in Nat \ {0}
           /\ s \ {One(s)} \in SUBSET S /\ Cardinality(s \ {One(s)}) = Cardinality(s) - 1
<1>1. One(s) \in s
  BY DEF One
<1>2. IsFiniteSet(s)
  BY FS_Subset
<1>3. Cardinality(s) \in Nat /\ Cardinality(s) # 0
  BY <1>2, FS_CardinalityType, FS_EmptySet
<1>4. Cardinality(s \ {One(s)}) = Cardinality(s) - 1
  BY <1>1, <1>2, FS_RemoveElement
<1> QED BY <1>1, <1>2, <1>3, <1>4

\* What holds of a set when it holds without its first element holds of all finite sets.
LEMMA AllSets ==
    ASSUME NEW S, IsFiniteSet(S), NEW Good,
           \A s \in SUBSET S : s = {} \/ s \ {One(s)} \in Good => s \in Good
    PROVE  \A s \in SUBSET S : s \in Good
<1> SUFFICES ASSUME NEW s \in SUBSET S, s \notin Good PROVE FALSE
  OBVIOUS
<1> DEFINE Sizes == {n \in Nat : \E t \in SUBSET S : t \notin Good /\ Cardinality(t) = n}
<1>1. Sizes \in SUBSET Nat /\ Sizes # {}
  <2>1. s # {}
    OBVIOUS
  <2>2. Cardinality(s) \in Nat
    BY <2>1, OneOff
  <2> QED BY <2>2
<1>2. PICK n \in Sizes : \A k \in Sizes : n <= k
  <2> HIDE DEF Sizes
  <2> QED BY <1>1, Least
<1>3. PICK t \in SUBSET S : t \notin Good /\ Cardinality(t) = n
  OBVIOUS
<1>4. t # {} /\ t \ {One(t)} \notin Good
  BY <1>3
<1>5. t \ {One(t)} \in SUBSET S /\ Cardinality(t \ {One(t)}) = n - 1 /\ n \in Nat \ {0}
  BY <1>3, <1>4, OneOff
<1>6. n - 1 \in Sizes
  <2>1. n - 1 \in Nat
    BY <1>5
  <2> QED BY <1>4, <1>5, <2>1
<1>7. n <= n - 1
  <2> HIDE DEF Sizes
  <2> QED BY <1>2, <1>6
<1> QED BY <1>5, <1>7

\* g sums f over the subsets of S of at most n elements.
SumsUpTo(g, f, S, n) ==
    \A s \in SUBSET S : Cardinality(s) <= n => g[s] = IF s = {} THEN 0 ELSE f[One(s)] + g[s \ {One(s)}]

Sums(g, f, S) == \A s \in SUBSET S : g[s] = IF s = {} THEN 0 ELSE f[One(s)] + g[s \ {One(s)}]

\* There are sums of n elements, whatever n is: from the sums of fewer.
LEMMA SumsExist ==
    ASSUME NEW S, IsFiniteSet(S), NEW f, NEW n \in Nat
    PROVE  \E g : g = [s \in SUBSET S |-> g[s]] /\ SumsUpTo(g, f, S, n)
<1> DEFINE Bad == {m \in Nat : ~\E g : g = [s \in SUBSET S |-> g[s]] /\ SumsUpTo(g, f, S, m)}
<1> SUFFICES ASSUME Bad # {} PROVE FALSE
  OBVIOUS
<1>1. PICK m \in Bad : \A k \in Bad : m <= k
  <2>1. Bad \in SUBSET Nat
    OBVIOUS
  <2> HIDE DEF Bad
  <2> QED BY <2>1, Least
<1>0. m \in Nat
  OBVIOUS
<1>2. CASE m = 0
  <2> DEFINE g == [s \in SUBSET S |-> 0]
  <2>1. SumsUpTo(g, f, S, 0)
    <3> SUFFICES ASSUME NEW s \in SUBSET S, Cardinality(s) <= 0 PROVE s = {}
      BY DEF SumsUpTo
    <3>1. ASSUME s # {} PROVE FALSE
      <4>1. Cardinality(s) \in Nat \ {0}
        BY <3>1, OneOff
      <4> QED BY <4>1
    <3> QED BY <3>1
  <2>2. g = [s \in SUBSET S |-> g[s]]
    OBVIOUS
  <2> HIDE DEF g
  <2> QED BY <1>2, <2>1, <2>2
<1>3. CASE m # 0
  <2>1. m - 1 \in Nat /\ m - 1 \notin Bad
    <3> HIDE DEF Bad
    <3> QED BY <1>0, <1>1, <1>3
  <2>2. PICK g : g = [s \in SUBSET S |-> g[s]] /\ SumsUpTo(g, f, S, m - 1)
    BY <2>1
  <2> DEFINE h == [s \in SUBSET S |->
                     IF s = {} THEN 0
                     ELSE IF Cardinality(s) <= m - 1 THEN g[s]
                     ELSE f[One(s)] + g[s \ {One(s)}]]
  <2>3. SumsUpTo(h, f, S, m)
    <3> SUFFICES ASSUME NEW s \in SUBSET S, Cardinality(s) <= m
                 PROVE h[s] = IF s = {} THEN 0 ELSE f[One(s)] + h[s \ {One(s)}]
      BY Zenon DEF SumsUpTo
    <3>1. CASE s = {}
      BY <3>1
    <3>2. CASE s # {}
      <4> DEFINE u == s \ {One(s)}
      <4>1. u \in SUBSET S /\ Cardinality(u) = Cardinality(s) - 1 /\ Cardinality(s) \in Nat \ {0}
        BY <3>2, OneOff
      <4>2. h[u] = g[u]
        <5>1. CASE u = {}
          <6>1. Cardinality({}) = 0 /\ {} \in SUBSET S
            BY FS_EmptySet
          <6>2. g[{}] = 0
            <7>1. Cardinality({}) <= m - 1
              BY <2>1, <6>1
            <7> QED BY <2>2, <6>1, <7>1, Zenon DEF SumsUpTo
          <6> QED BY <5>1, <6>1, <6>2
        <5>2. CASE u # {}
          <6>1. Cardinality(u) <= m - 1
            BY <4>1
          <6> QED BY <4>1, <5>2, <6>1
        <5> QED BY <5>1, <5>2
      <4>3. CASE Cardinality(s) <= m - 1
        <5>1. h[s] = g[s]
          BY <3>2, <4>3
        <5>2. g[s] = f[One(s)] + g[u]
          BY <2>2, <3>2, <4>3 DEF SumsUpTo
        <5> QED BY <3>2, <4>2, <5>1, <5>2
      <4>4. CASE ~(Cardinality(s) <= m - 1)
        <5>1. h[s] = f[One(s)] + g[u]
          BY <3>2, <4>4
        <5> QED BY <3>2, <4>2, <5>1
      <4> QED BY <4>3, <4>4
    <3> QED BY <3>1, <3>2
  <2>4. h = [s \in SUBSET S |-> h[s]]
    OBVIOUS
  <2> HIDE DEF h
  <2> QED BY <2>3, <2>4
<1> QED BY <1>2, <1>3

\* What the report adds up is a sum.
LEMMA ReportSum ==
    ASSUME NEW S, IsFiniteSet(S), NEW f
    PROVE  \E g : Report!SumFunctionOnSet(f, S) = g[S] /\ Sums(g, f, S)
<1> DEFINE Rule(g) == [s \in SUBSET S |->
                         IF s = {} THEN 0
                         ELSE f[CHOOSE y \in s : TRUE] + g[s \ {CHOOSE y \in s : TRUE}]]
           iter == CHOOSE g : g = Rule(g)
<1>1. Report!SumFunctionOnSet(f, S) = iter[S]
  BY Zenon DEF Report!SumFunctionOnSet, Report!FoldFunctionOnSet, Report!MapThenFoldSet
<1>2. Cardinality(S) \in Nat /\ \A s \in SUBSET S : Cardinality(s) <= Cardinality(S)
  BY FS_CardinalityType, FS_Subset
<1>3. PICK g : g = [s \in SUBSET S |-> g[s]] /\ SumsUpTo(g, f, S, Cardinality(S))
  BY <1>2, SumsExist
<1>4. g = Rule(g)
  <2>1. \A s \in SUBSET S : g[s] = IF s = {} THEN 0 ELSE f[One(s)] + g[s \ {One(s)}]
    BY <1>2, <1>3, Zenon DEF SumsUpTo
  <2>2. Rule(g) = [s \in SUBSET S |-> g[s]]
    BY <2>1, Zenon DEF One
  <2> QED BY <1>3, <2>2, Zenon
<1>5. iter = Rule(iter)
  BY <1>4, Zenon
<1>6. Sums(iter, f, S)
  <2>1. \A s \in SUBSET S : Rule(iter)[s] = IF s = {} THEN 0 ELSE f[One(s)] + iter[s \ {One(s)}]
    BY Zenon DEF One
  <2> HIDE DEF iter, Rule
  <2> QED BY <1>5, <2>1, Zenon DEF Sums
<1> HIDE DEF iter
<1> QED BY <1>1, <1>6

\* A sum of numbers is a number, between as many of the least and as many of the greatest.
LEMMA SumBetween ==
    ASSUME NEW S, IsFiniteSet(S), NEW f, \A x \in S : f[x] \in Nat
    PROVE  /\ Report!SumFunctionOnSet(f, S) \in Nat
           /\ S # {} => \E x, y \in S : /\ Cardinality(S) * f[x] <= Report!SumFunctionOnSet(f, S)
                                        /\ Report!SumFunctionOnSet(f, S) <= Cardinality(S) * f[y]
<1>1. PICK g : Report!SumFunctionOnSet(f, S) = g[S] /\ Sums(g, f, S)
  BY ReportSum
<1> DEFINE Between(s) == /\ g[s] \in Nat
                         /\ s # {} => \E x, y \in s : /\ Cardinality(s) * f[x] <= g[s]
                                                      /\ g[s] <= Cardinality(s) * f[y]
           Good == {s \in SUBSET S : Between(s)}
<1>2. ASSUME NEW s \in SUBSET S, s = {} \/ s \ {One(s)} \in Good PROVE s \in Good
  <2>1. CASE s = {}
    <3>1. g[{}] = 0
      BY <1>1, Zenon DEF Sums
    <3>2. Between(s)
      BY <2>1, <3>1
    <3> QED BY <3>2
  <2>2. CASE s # {}
    <3> DEFINE u == s \ {One(s)}
    <3>1. One(s) \in s /\ u \in SUBSET S /\ Cardinality(s) \in Nat \ {0} /\ Cardinality(u) = Cardinality(s) - 1
          /\ IsFiniteSet(u)
      BY <2>2, OneOff, FS_Subset
    <3>2. PICK k \in Nat : k = Cardinality(u) /\ Cardinality(s) = k + 1
      BY <3>1
    <3>3. PICK v \in Nat : v = f[One(s)]
      BY <3>1
    <3>4. PICK w \in Nat : w = g[u]
      BY <1>2, <2>2
    <3>5. g[s] = v + w
      <4>1. g[s] = f[One(s)] + g[s \ {One(s)}]
        BY <1>1, <2>2, Zenon DEF Sums
      <4> QED BY <3>3, <3>4, <4>1
    <3>6. CASE u = {}
      <4>1. k = 0 /\ w = 0
        <5>1. Cardinality({}) = 0
          BY FS_EmptySet
        <5>2. g[{}] = 0
          BY <1>1, Zenon DEF Sums
        <5> QED BY <3>2, <3>4, <3>6, <5>1, <5>2
      <4>2. Cardinality(s) * v = v /\ g[s] = v
        BY <3>2, <3>5, <4>1
      <4>3. Between(s)
        BY <3>1, <3>3, <4>2
      <4> QED BY <4>3
    <3>7. CASE u # {}
      <4>1. PICK x \in u, y \in u : k * f[x] <= w /\ w <= k * f[y]
        BY <1>2, <2>2, <3>2, <3>4, <3>7
      <4>2. PICK p \in Nat, q \in Nat : p = f[x] /\ q = f[y]
        BY <3>1
      <4>3. k * p <= w /\ w <= k * q
        BY <4>1, <4>2
      <4>4. k * p \in Nat /\ k * q \in Nat /\ k * v \in Nat
        OBVIOUS
      <4>5. (k + 1) * p = k * p + p /\ (k + 1) * q = k * q + q /\ (k + 1) * v = k * v + v
        OBVIOUS
      <4>6. \E lo \in s : (k + 1) * f[lo] <= v + w
        <5>1. CASE p <= v
          BY <4>2, <4>3, <4>4, <4>5, <5>1
        <5>2. CASE ~(p <= v)
          <6>1. k * v <= k * p
            BY <5>2
          <6>2. (k + 1) * v <= v + w
            BY <4>3, <4>4, <4>5, <6>1
          <6> QED BY <3>1, <3>3, <6>2
        <5> QED BY <5>1, <5>2
      <4>7. \E hi \in s : v + w <= (k + 1) * f[hi]
        <5>1. CASE v <= q
          BY <4>2, <4>3, <4>4, <4>5, <5>1
        <5>2. CASE ~(v <= q)
          <6>1. k * q <= k * v
            BY <5>2
          <6>2. v + w <= (k + 1) * v
            BY <4>3, <4>4, <4>5, <6>1
          <6> QED BY <3>1, <3>3, <6>2
        <5> QED BY <5>1, <5>2
      <4>8. g[s] \in Nat /\ Cardinality(s) = k + 1
        BY <3>2, <3>5
      <4>9. Between(s)
        BY <3>5, <4>6, <4>7, <4>8
      <4> QED BY <4>9
    <3> QED BY <3>6, <3>7
  <2> QED BY <2>1, <2>2
<1>3. S \in Good
  <2> HIDE DEF Good
  <2> QED BY <1>2, AllSets
<1> QED BY <1>1, <1>3

\* The sizes of sets that have nothing in common add up to the size of their union.
LEMMA SumOfSizes ==
    ASSUME NEW S, IsFiniteSet(S), NEW U, IsFiniteSet(U), NEW P, \A x \in S : P[x] \in SUBSET U,
           \A x, y \in S : x # y => P[x] \cap P[y] = {},
           NEW f, \A x \in S : f[x] = Cardinality(P[x])
    PROVE  Report!SumFunctionOnSet(f, S) = Cardinality({u \in U : \E x \in S : u \in P[x]})
<1>1. PICK g : Report!SumFunctionOnSet(f, S) = g[S] /\ Sums(g, f, S)
  BY ReportSum
<1> DEFINE All(s) == {u \in U : \E x \in s : u \in P[x]}
           Good == {s \in SUBSET S : g[s] = Cardinality(All(s))}
<1>2. ASSUME NEW s \in SUBSET S, s = {} \/ s \ {One(s)} \in Good PROVE s \in Good
  <2>1. CASE s = {}
    <3>1. g[{}] = 0
      BY <1>1, Zenon DEF Sums
    <3>2. All({}) = {} /\ Cardinality({}) = 0
      BY FS_EmptySet
    <3> QED BY <2>1, <3>1, <3>2
  <2>2. CASE s # {}
    <3> DEFINE t == s \ {One(s)}
    <3>1. PICK x : x = One(s) /\ x \in s
      BY <2>2, OneOff
    <3>2. g[t] = Cardinality(All(t))
      BY <1>2, <2>2
    <3>3. g[s] = f[x] + g[t]
      BY <1>1, <2>2, <3>1, Zenon DEF Sums
    <3>4. All(s) = P[x] \cup All(t) /\ P[x] \cap All(t) = {}
      <4>1. All(s) = P[x] \cup All(t)
        BY <3>1
      <4>2. \A y \in t : y \in S /\ y # x
        BY <3>1
      <4>3. P[x] \cap All(t) = {}
        BY <3>1, <4>2
      <4> QED BY <4>1, <4>3
    <3>5. IsFiniteSet(P[x]) /\ IsFiniteSet(All(t))
      <4>1. P[x] \in SUBSET U /\ All(t) \in SUBSET U
        BY <3>1
      <4> HIDE DEF All, t
      <4> QED BY <4>1, FS_Subset
    <3>6. PICK m \in Nat, n \in Nat : m = Cardinality(P[x]) /\ n = Cardinality(All(t))
      BY <3>5, FS_CardinalityType
    <3>7. Cardinality(All(s)) = m + n
      <4>1. Cardinality({}) = 0
        BY FS_EmptySet
      <4>2. Cardinality(P[x] \cup All(t)) = Cardinality(P[x]) + Cardinality(All(t)) - Cardinality(P[x] \cap All(t))
        <5> HIDE DEF All, t
        <5> QED BY <3>5, FS_Union
      <4>3. Cardinality(P[x] \cap All(t)) = 0
        BY <3>4, <4>1
      <4> HIDE DEF All, t
      <4> QED BY <3>4, <3>6, <4>2, <4>3
    <3>8. f[x] = m
      BY <3>1, <3>6
    <3>9. g[s] = Cardinality(All(s))
      BY <3>2, <3>3, <3>6, <3>7, <3>8
    <3> QED BY <3>9
  <2> QED BY <2>1, <2>2
<1>3. S \in Good
  <2> HIDE DEF Good
  <2> QED BY <1>2, AllSets
<1> QED BY <1>1, <1>3

-----------------------------------------------------------------------------
(* The page of an order (OrderWorkbench) *)

\* The instance counts what this module counts.
LEMMA BenchSets ==
    ASSUME NEW c, NEW S
    PROVE  (Bench(c)!IsFiniteSet(S) <=> IsFiniteSet(S)) /\ Bench(c)!Cardinality(S) = Cardinality(S)
<1>1. Bench(c)!IsFiniteSet(S) <=> IsFiniteSet(S)
  BY Zenon DEF Bench!IsFiniteSet, IsFiniteSet
<1>2. Bench(c)!Cardinality(S) = Cardinality(S)
  BY Zenon DEF Bench!Cardinality, Cardinality
<1> QED BY <1>1, <1>2

\* What a setting is.
LEMMA BenchConstants ==
    ASSUME NEW c, Bench(c)!WorkbenchAssumption
    PROVE  /\ c.split \subseteq c.orders /\ c.imported \subseteq c.orders
           /\ "waiting_info" \in c.statuses /\ "paid" \in c.statuses
           /\ "status" \notin c.sections /\ 0 \in c.versions
           /\ None \notin c.orders /\ None \notin Bench(c)!Kinds /\ c.patient \in BOOLEAN
           /\ c.requests \in Nat /\ c.losses \in Nat /\ c.others \in Nat /\ c.visits \in Nat
BY DEF Bench!WorkbenchAssumption

\* A record is none, or one of an order.
LEMMA BenchNothing ==
    ASSUME NEW c, Bench(c)!WorkbenchAssumption
    PROVE  /\ \A o \in c.orders : \A x : Bench(c)!Record(o, x) # Bench(c)!NoRecord
           /\ \A x \in [id : c.orders, row : Bench(c)!Row] : x # Bench(c)!NoRecord
           /\ \A x \in [id : c.orders, row : Bench(c)!Link] : x # Bench(c)!NoRecord
           /\ Bench(c)!Closed \in Bench(c)!Page /\ Bench(c)!Closed.n = 0
           /\ Bench(c)!Closed.order = Bench(c)!NoRecord /\ Bench(c)!Closed.saving = None
<1>1. 0 \in 0..c.visits /\ None \notin c.orders
  BY BenchConstants
<1> QED BY <1>1 DEF Bench!Record, Bench!NoRecord, Bench!Closed, Bench!Page

\* The fields of a page.
LEMMA BenchPage ==
    ASSUME NEW c, NEW g \in Bench(c)!Page
    PROVE  /\ g.n \in 0..c.visits /\ g.at \in c.orders \cup {None} /\ g.loading \in BOOLEAN
           /\ g.order \in [id : c.orders, row : Bench(c)!Row] \cup {Bench(c)!NoRecord}
           /\ g.order # Bench(c)!NoRecord => g.order.id \in c.orders /\ g.order.row \in Bench(c)!Row
           /\ g.form \in Bench(c)!Fields \cup {None} /\ g.editing \subseteq c.sections
           /\ g.saving \in Bench(c)!Kinds \cup {None}
BY DEF Bench!Page

\* What a row and a link are.
LEMMA BenchRow ==
    ASSUME NEW c, NEW x \in Bench(c)!Row
    PROVE  /\ x.status \in c.statuses /\ x.values \in [c.sections -> Bench(c)!Value] /\ x.link \in Bench(c)!Link
           /\ x.confirmed \in BOOLEAN
           /\ Bench(c)!Form(x) \in Bench(c)!Fields
BY DEF Bench!Row, Bench!Form, Bench!Fields

\* No page, and the orders as they were created or imported.
LEMMA BenchInit ==
    ASSUME NEW c, Bench(c)!WorkbenchAssumption, Bench(c)!Init
    PROVE  Bench(c)!IInv
<1> USE DEF Bench!Init
<1>1. \A o \in c.orders : Bench(c)!FirstRow(o) \in Bench(c)!Row /\ Bench(c)!FirstRow(o).link = <<o, 0>>
                          /\ \A s \in c.sections : Bench(c)!FirstRow(o).values[s] = <<o, 0>>
  <2>1. 0 \in 0..c.others + c.requests
    BY BenchConstants
  <2> QED BY <2>1, BenchConstants DEF Bench!FirstRow, Bench!Row, Bench!Value, Bench!Link
<1>2. Bench(c)!TypeOK
  <2>1. row \in [c.orders -> Bench(c)!Row]
    BY <1>1
  <2>2. sent \in 0..c.requests /\ lost \in 0..c.losses /\ others \in 0..c.others /\ visits \in 0..c.visits
    BY BenchConstants
  <2> QED BY <2>1, <2>2, BenchNothing DEF Bench!TypeOK
<1>3. Bench(c)!Changes = {}
  BY DEF Bench!Changes
<1>4. Bench(c)!FieldsThere /\ Bench(c)!ConfirmedStays /\ Bench(c)!SavingMatches
  BY BenchNothing DEF Bench!FieldsThere, Bench!ConfirmedStays, Bench!SavingMatches
<1>5. Bench(c)!LinksFollow
  <2>1. {r \in requests : r.answer = "none"} = {} /\ IsFiniteSet(requests) /\ Cardinality({}) = 0
    BY FS_EmptySet
  <2>2. \A o \in c.orders : row[o].link[2] = 0
    BY <1>1
  <2> QED BY <2>1, <2>2, BenchSets DEF Bench!LinksFollow
<1>6. Bench(c)!OwnInv
  BY <1>1, BenchNothing DEF Bench!OwnInv, Bench!IsOwn
<1> QED BY <1>2, <1>4, <1>5, <1>6 DEF Bench!IInv, Bench!ShippedIsWarned

\* A step on the fields of the page, of which only those of its order are typed into.
LEMMA BenchEdit ==
    ASSUME NEW c, Bench(c)!WorkbenchAssumption, Bench(c)!IInv, Bench(c)!Shown,
           NEW form \in Bench(c)!Fields, NEW editing \in SUBSET c.sections,
           page' = [page EXCEPT !.form = form, !.editing = editing],
           c.patient => \A s \in c.sections : form.values[s][1] = page.order.id \/ form.values[s] = page.form.values[s],
           UNCHANGED <<row, clipboard, requests, warned, early, sent, lost, others, visits>>
    PROVE  Bench(c)!IInv'
<1>1. page \in Bench(c)!Page /\ page.n # 0
  BY DEF Bench!IInv, Bench!TypeOK, Bench!Shown
<1>2. page' = [n |-> page.n, at |-> page.at, loading |-> page.loading, order |-> page.order,
               form |-> form, editing |-> editing, saving |-> page.saving]
  BY <1>1 DEF Bench!Page
<1>3. page' \in Bench(c)!Page
  BY <1>1, <1>2, BenchPage DEF Bench!Page
<1>4. Bench(c)!TypeOK'
  BY <1>1, <1>2, <1>3 DEF Bench!IInv, Bench!TypeOK
<1>5. /\ page'.n = page.n /\ page'.at = page.at /\ page'.order = page.order /\ page'.form = form
      /\ page'.saving = page.saving
  BY <1>2
<1> HIDE DEF Bench!Shown
<1>6. Bench(c)!Changes' = Bench(c)!Changes
  BY <1>5 DEF Bench!Changes
<1>7. Bench(c)!FieldsThere' /\ Bench(c)!SavingMatches' /\ Bench(c)!LinksFollow' /\ Bench(c)!ConfirmedStays'
  BY <1>5, <1>6 DEF Bench!IInv, Bench!FieldsThere, Bench!SavingMatches, Bench!LinksFollow, Bench!ConfirmedStays
<1>8. ASSUME c.patient PROVE Bench(c)!OwnInv'
  BY <1>1, <1>5, <1>8 DEF Bench!IInv, Bench!OwnInv, Bench!IsOwn, Bench!Shown
<1>9. (\A r \in requests : Bench(c)!RequestFits(r))'
  BY DEF Bench!IInv, Bench!RequestFits
<1> QED BY <1>4, <1>7, <1>8, <1>9 DEF Bench!IInv, Bench!ShippedIsWarned

\* One change is under way, or none.
OneChange(c) ==
    page.n # 0 => IF page.saving = None THEN Bench(c)!Changes = {} ELSE \E x : Bench(c)!Changes = {x}

\* A set of changes counts one if it has one.
LEMMA BenchOne ==
    ASSUME NEW c, IsFiniteSet(requests)
    PROVE  Bench(c)!SavingMatches <=> OneChange(c)
<1> DEFINE S == Bench(c)!Changes
<1>1. S \subseteq requests /\ IsFiniteSet(S)
  BY FS_Subset DEF Bench!Changes
<1>2. S = {r \in requests : r.n = page.n /\ r.kind # "load"}
  BY DEF Bench!Changes
<1>3. (Cardinality(S) = 0 <=> S = {}) /\ (Cardinality(S) = 1 <=> \E x : S = {x})
  BY <1>1, FS_EmptySet, FS_Singleton
<1>4. Bench(c)!Cardinality(S) = Cardinality(S)
  BY BenchSets
<1>5. Bench(c)!SavingMatches <=> (page.n # 0 => Cardinality(S) = IF page.saving = None THEN 0 ELSE 1)
  BY <1>2, <1>4 DEF Bench!SavingMatches
<1> QED BY <1>3, <1>5 DEF OneChange

\* The same after a step, for steps that leave the requests finite.
LEMMA BenchOneNext ==
    ASSUME NEW c, IsFiniteSet(requests')
    PROVE  Bench(c)!SavingMatches' <=> OneChange(c)'
<1> DEFINE S == Bench(c)!Changes'
<1>1. S \subseteq requests' /\ IsFiniteSet(S)
  BY FS_Subset DEF Bench!Changes
<1>2. S = {r \in requests' : r.n = page'.n /\ r.kind # "load"}
  BY DEF Bench!Changes
<1>3. (Cardinality(S) = 0 <=> S = {}) /\ (Cardinality(S) = 1 <=> \E x : S = {x})
  BY <1>1, FS_EmptySet, FS_Singleton
<1>4. Bench(c)!Cardinality(S) = Cardinality(S)
  BY BenchSets
<1>5. Bench(c)!SavingMatches' <=> (page'.n # 0 => Cardinality(S) = IF page'.saving = None THEN 0 ELSE 1)
  BY <1>2, <1>4 DEF Bench!SavingMatches
<1> QED BY <1>3, <1>5 DEF OneChange

\* A set with or without an element.
LEMMA OneMoreOrLess ==
    ASSUME NEW A, IsFiniteSet(A), NEW x
    PROVE  /\ Cardinality(A) \in Nat /\ IsFiniteSet(A \cup {x}) /\ IsFiniteSet(A \ {x})
           /\ Cardinality(A \cup {x}) \in Nat /\ Cardinality(A \ {x}) \in Nat
           /\ Cardinality(A \cup {x}) = IF x \in A THEN Cardinality(A) ELSE Cardinality(A) + 1
           /\ Cardinality(A \ {x}) = IF x \in A THEN Cardinality(A) - 1 ELSE Cardinality(A)
<1>1. CASE x \in A
  <2>1. A \cup {x} = A
    BY <1>1
  <2> QED BY <1>1, <2>1, FS_RemoveElement, FS_CardinalityType
<1>2. CASE x \notin A
  <2>1. A \ {x} = A
    BY <1>2
  <2> QED BY <1>2, <2>1, FS_AddElement, FS_CardinalityType
<1> QED BY <1>1, <1>2

\* The requests that wait for their answer.
Unanswered(s) == {r \in s : r.answer = "none"}

\* One more waits when one is sent, and one less when one is answered.
LEMMA BenchUnanswered ==
    ASSUME NEW s, IsFiniteSet(s), NEW q
    PROVE  /\ Cardinality(Unanswered(s)) \in Nat
           /\ IsFiniteSet(s \cup {q}) /\ IsFiniteSet(s \ {q})
           /\ Cardinality(Unanswered(s \cup {q})) \in Nat /\ Cardinality(Unanswered(s \ {q})) \in Nat
           /\ Cardinality(Unanswered(s \cup {q})) <= Cardinality(Unanswered(s)) + 1
           /\ q.answer # "none" => Unanswered(s \cup {q}) = Unanswered(s)
           /\ Cardinality(Unanswered(s \ {q})) <= Cardinality(Unanswered(s))
           /\ q \in s /\ q.answer = "none" =>
                 Cardinality(Unanswered(s \ {q})) = Cardinality(Unanswered(s)) - 1
<1>1. PICK A : A = Unanswered(s) /\ IsFiniteSet(A)
  <2>1. IsFiniteSet(Unanswered(s))
    BY FS_Subset DEF Unanswered
  <2> QED BY <2>1
<1>2. IsFiniteSet(s \cup {q}) /\ IsFiniteSet(s \ {q})
  BY OneMoreOrLess
<1>3. Unanswered(s \ {q}) = A \ {q}
  BY <1>1 DEF Unanswered
<1>4. CASE q.answer = "none"
  <2>1. Unanswered(s \cup {q}) = A \cup {q}
    BY <1>1, <1>4 DEF Unanswered
  <2>2. q \in s => q \in A
    BY <1>1, <1>4 DEF Unanswered
  <2>3. /\ Cardinality(A) \in Nat /\ Cardinality(A \cup {q}) \in Nat /\ Cardinality(A \ {q}) \in Nat
        /\ Cardinality(A \cup {q}) = IF q \in A THEN Cardinality(A) ELSE Cardinality(A) + 1
        /\ Cardinality(A \ {q}) = IF q \in A THEN Cardinality(A) - 1 ELSE Cardinality(A)
    BY <1>1, OneMoreOrLess
  <2>4. /\ Cardinality(A \cup {q}) <= Cardinality(A) + 1 /\ Cardinality(A \ {q}) <= Cardinality(A)
    BY <2>3
  <2>5. q \in s => Cardinality(A \ {q}) = Cardinality(A) - 1
    BY <2>2, <2>3
  <2> QED BY <1>1, <1>2, <1>3, <1>4, <2>1, <2>3, <2>4, <2>5, Zenon
<1>5. CASE q.answer # "none"
  <2>1. Unanswered(s \cup {q}) = A
    BY <1>1, <1>5 DEF Unanswered
  <2>3. /\ Cardinality(A) \in Nat /\ Cardinality(A \cup {q}) \in Nat /\ Cardinality(A \ {q}) \in Nat
        /\ Cardinality(A \cup {q}) = IF q \in A THEN Cardinality(A) ELSE Cardinality(A) + 1
        /\ Cardinality(A \ {q}) = IF q \in A THEN Cardinality(A) - 1 ELSE Cardinality(A)
    BY <1>1, OneMoreOrLess
  <2>4. /\ Cardinality(A) <= Cardinality(A) + 1 /\ Cardinality(A \ {q}) <= Cardinality(A)
    BY <2>3
  <2> QED BY <1>1, <1>2, <1>3, <1>5, <2>1, <2>3, <2>4, Zenon
<1> QED BY <1>4, <1>5

\* LinksFollow in the words of this module.
LEMMA BenchLinks ==
    ASSUME NEW c
    PROVE  Bench(c)!LinksFollow <=>
              /\ IsFiniteSet(requests)
              /\ \A o \in c.orders : row[o].link[2] + Cardinality(Unanswered(requests)) <= others + sent
BY BenchSets DEF Bench!LinksFollow, Unanswered

\* The same after a step.
LEMMA BenchLinksNext ==
    ASSUME NEW c
    PROVE  Bench(c)!LinksFollow' <=>
              /\ IsFiniteSet(requests')
              /\ \A o \in c.orders : row'[o].link[2] + Cardinality(Unanswered(requests')) <= others' + sent'
BY BenchSets DEF Bench!LinksFollow, Unanswered

\* A request is sent.
LEMMA BenchSent ==
    ASSUME NEW c, Bench(c)!WorkbenchAssumption, Bench(c)!IInv,
           NEW kind \in Bench(c)!Kinds, NEW o \in c.orders, NEW section, NEW value,
           page'.n \in 1..visits', visits' \in visits..c.visits, visits' \in Nat,
           kind = "save" => \/ section = "status" /\ value \in c.statuses
                            \/ section \in c.sections /\ value \in Bench(c)!Value,
           kind # "save" => section = None /\ value = None,
           UNCHANGED <<row, others>>,
           Bench(c)!Send(kind, o, section, value)
    PROVE  \E q : /\ requests' = requests \cup {q} /\ IsFiniteSet(requests')
                  /\ q.kind = kind /\ q.order = o /\ q.n = page'.n /\ q.visit = visits' /\ q.section = section
                  /\ q.value = value /\ q.answer = "none"
                  /\ sent' \in 0..c.requests /\ Bench(c)!LinksFollow'
                  /\ \A r \in requests' :
                        /\ r.id \in 1..sent' /\ r.n \in 1..visits' /\ r.visit \in 1..visits'
                        /\ r.kind \in Bench(c)!Kinds /\ r.order \in c.orders
                        /\ r.answer \in {"none", "ok", "refused", "lost"}
                        /\ r.told = None \/ r.told \in Bench(c)!Row
                        /\ Bench(c)!RequestFits(r)
<1> DEFINE q == [id |-> sent + 1, n |-> page'.n, visit |-> visits', kind |-> kind, order |-> o,
                 section |-> section, value |-> value, answer |-> "none", told |-> None]
<1>1. requests' = requests \cup {q} /\ sent < c.requests /\ sent' = sent + 1
  BY DEF Bench!Send
<1>2. sent \in 0..c.requests /\ c.requests \in Nat /\ visits \in Nat /\ others \in Nat /\ visits' >= visits
  BY BenchConstants DEF Bench!IInv, Bench!TypeOK
<1>3. q.id \in 1..sent' /\ q.n \in 1..visits' /\ q.visit \in 1..visits' /\ Bench(c)!RequestFits(q)
  BY <1>1, <1>2 DEF Bench!RequestFits
<1>4. ASSUME NEW r \in requests
      PROVE  r.id \in 1..sent' /\ r.n \in 1..visits' /\ r.visit \in 1..visits'
  <2>1. r.id \in 1..sent /\ r.n \in 1..visits /\ r.visit \in 1..visits
    BY DEF Bench!IInv, Bench!TypeOK
  <2> QED BY <1>1, <1>2, <2>1
<1>5. IsFiniteSet(requests)
  BY BenchLinks DEF Bench!IInv
<1>6. Bench(c)!LinksFollow'
  <2> DEFINE k == Cardinality(Unanswered(requests))
             m == Cardinality(Unanswered(requests \cup {q}))
  <2> HIDE DEF q
  <2>1. k \in Nat /\ m \in Nat /\ m <= k + 1 /\ IsFiniteSet(requests \cup {q})
    BY <1>5, BenchUnanswered
  <2>2. ASSUME NEW p \in c.orders PROVE row[p].link[2] + m <= others + (sent + 1)
    <3>1. row[p].link[2] + k <= others + sent
      BY BenchLinks DEF Bench!IInv
    <3>2. row[p].link[2] \in Nat
      BY DEF Bench!IInv, Bench!TypeOK, Bench!Row, Bench!Link
    <3> HIDE DEF k, m
    <3> QED BY <1>2, <2>1, <3>1, <3>2
  <2> QED BY <1>1, <2>1, <2>2, BenchLinksNext
<1>7. \A r \in requests :
                           /\ r.kind \in Bench(c)!Kinds /\ r.order \in c.orders
                           /\ r.answer \in {"none", "ok", "refused", "lost"}
                           /\ r.told = None \/ r.told \in Bench(c)!Row
                           /\ Bench(c)!RequestFits(r)
  BY DEF Bench!IInv, Bench!TypeOK
<1>8. sent' \in 0..c.requests
  BY <1>1, <1>2
<1>9. IsFiniteSet(requests')
  BY <1>1, <1>5, FS_AddElement
<1>10. /\ q.kind = kind /\ q.order = o /\ q.n = page'.n /\ q.visit = visits' /\ q.section = section
       /\ q.value = value /\ q.answer = "none" /\ q.told = None
  OBVIOUS
<1>11. ASSUME NEW r \in requests'
       PROVE  /\ r.id \in 1..sent' /\ r.n \in 1..visits' /\ r.visit \in 1..visits'
              /\ r.kind \in Bench(c)!Kinds /\ r.order \in c.orders
              /\ r.answer \in {"none", "ok", "refused", "lost"}
              /\ r.told = None \/ r.told \in Bench(c)!Row
              /\ Bench(c)!RequestFits(r)
  <2> HIDE DEF q
  <2>1. CASE r = q
    <3>1. /\ q.kind \in Bench(c)!Kinds /\ q.order \in c.orders
          /\ q.answer \in {"none", "ok", "refused", "lost"} /\ q.told = None
      BY <1>10
    <3> QED BY <1>3, <2>1, <3>1, Zenon
  <2>2. CASE r \in requests
    BY <1>4, <1>7, <2>2
  <2> QED BY <1>1, <2>1, <2>2
<1> HIDE DEF q
<1> QED BY <1>1, <1>6, <1>8, <1>9, <1>10, <1>11

\* A change is started from the page.
LEMMA BenchStart ==
    ASSUME NEW c, Bench(c)!WorkbenchAssumption, Bench(c)!IInv,
           NEW kind \in Bench(c)!Kinds \ {"load"}, NEW section, NEW value,
           kind = "save" => \/ section = "status" /\ value \in c.statuses
                            \/ section \in c.sections /\ value \in Bench(c)!Value,
           kind # "save" => section = None /\ value = None,
           c.patient /\ section \in c.sections => value[1] = page.order.id,
           warned' \in {warned, warned \cup {page.order.id}},
           section = "status" /\ value = "shipped" /\ page.order.id \in c.split =>
              page.order.row.confirmed \/ page.order.id \in warned',
           Bench(c)!Start(kind, section, value)
    PROVE  Bench(c)!IInv'
<1> DEFINE o == page.order.id
<1>1. /\ page.n # 0 /\ page.order # Bench(c)!NoRecord /\ page.saving = None
      /\ page' = [page EXCEPT !.saving = kind]
      /\ UNCHANGED <<row, clipboard, early, lost, others, visits>>
      /\ Bench(c)!Send(kind, o, section, value)
  BY DEF Bench!Start, Bench!Shown
<1>2. page \in Bench(c)!Page /\ o \in c.orders /\ visits \in 0..c.visits /\ page.n \in 0..visits
  BY <1>1, BenchPage DEF Bench!IInv, Bench!TypeOK
<1>3. /\ page' \in Bench(c)!Page /\ page'.n = page.n /\ page'.at = page.at /\ page'.order = page.order
      /\ page'.form = page.form /\ page'.saving = kind
  BY <1>1, <1>2 DEF Bench!Page
<1>4. page'.n \in 1..visits' /\ visits' \in visits..c.visits /\ visits' \in Nat
  BY <1>1, <1>2, <1>3, BenchConstants
<1>5. PICK q : /\ requests' = requests \cup {q} /\ IsFiniteSet(requests')
               /\ q.kind = kind /\ q.order = o /\ q.n = page'.n /\ q.visit = visits' /\ q.section = section
               /\ q.value = value /\ q.answer = "none"
               /\ sent' \in 0..c.requests /\ Bench(c)!LinksFollow'
               /\ \A r \in requests' :
                     /\ r.id \in 1..sent' /\ r.n \in 1..visits' /\ r.visit \in 1..visits'
                     /\ r.kind \in Bench(c)!Kinds /\ r.order \in c.orders
                     /\ r.answer \in {"none", "ok", "refused", "lost"}
                     /\ r.told = None \/ r.told \in Bench(c)!Row
                     /\ Bench(c)!RequestFits(r)
  BY <1>1, <1>2, <1>4, BenchSent
<1> HIDE DEF Bench!Start
<1>6. Bench(c)!TypeOK'
  BY <1>1, <1>2, <1>3, <1>5 DEF Bench!IInv, Bench!TypeOK
<1>7. Bench(c)!Changes = {} /\ Bench(c)!Changes' = {q}
  <2>1. IsFiniteSet(requests)
    BY BenchLinks DEF Bench!IInv
  <2>2. Bench(c)!Changes = {}
    BY <1>1, <2>1, BenchOne DEF Bench!IInv, OneChange
  <2> QED BY <1>3, <1>5, <2>2 DEF Bench!Changes
<1>8. Bench(c)!SavingMatches'
  <2>1. OneChange(c)'
    BY <1>3, <1>7, BenchConstants DEF OneChange
  <2> QED BY <1>5, <2>1, BenchOneNext
<1>9. Bench(c)!FieldsThere'
  BY <1>1, <1>3 DEF Bench!IInv, Bench!FieldsThere
<1>10. Bench(c)!ConfirmedStays'
  <2>1. page'.order # Bench(c)!NoRecord /\ page'.order.row.confirmed => row'[page'.order.id].confirmed
    BY <1>1, <1>3 DEF Bench!IInv, Bench!ConfirmedStays
  <2>2. ASSUME NEW r \in requests
        PROVE  /\ r.answer = "ok" /\ r.told.confirmed => row'[r.order].confirmed
               /\ r.section = "status" /\ r.value = "shipped" /\ r.order \in c.split =>
                     row'[r.order].confirmed \/ r.order \in warned'
    BY <1>1 DEF Bench!IInv, Bench!ConfirmedStays
  <2>3. /\ q.answer = "ok" /\ q.told.confirmed => row'[q.order].confirmed
        /\ q.section = "status" /\ q.value = "shipped" /\ q.order \in c.split =>
              row'[q.order].confirmed \/ q.order \in warned'
    <3>1. page.order.row.confirmed => row[o].confirmed
      BY <1>1 DEF Bench!IInv, Bench!ConfirmedStays
    <3> QED BY <1>1, <1>5, <3>1
  <2> QED BY <1>5, <2>1, <2>2, <2>3 DEF Bench!ConfirmedStays
<1>11. ASSUME c.patient PROVE Bench(c)!OwnInv'
  <2>1. o = page.at
    BY <1>1, <1>11 DEF Bench!IInv, Bench!OwnInv
  <2>2. (page.n # 0 /\ page.order # Bench(c)!NoRecord =>
            /\ page.order.id = page.at /\ Bench(c)!IsOwn(page.order.row, page.at)
            /\ \A s \in c.sections : page.form.values[s][1] = page.at)'
    BY <1>1, <1>3, <1>11 DEF Bench!IInv, Bench!OwnInv, Bench!IsOwn
  <2>3. \A p \in c.orders : Bench(c)!IsOwn(row'[p], p)
    BY <1>1, <1>11 DEF Bench!IInv, Bench!OwnInv, Bench!IsOwn
  <2>4. ASSUME NEW r \in requests
        PROVE  /\ r.answer = "ok" => Bench(c)!IsOwn(r.told, r.order)
               /\ r.section \in c.sections => r.value[1] = r.order
               /\ r.n = page'.n /\ (r.kind # "load" \/ r.visit = visits') => r.order = page'.at
    BY <1>1, <1>3, <1>11 DEF Bench!IInv, Bench!OwnInv
  <2>5. /\ q.answer = "ok" => Bench(c)!IsOwn(q.told, q.order)
        /\ q.section \in c.sections => q.value[1] = q.order
        /\ q.n = page'.n /\ (q.kind # "load" \/ q.visit = visits') => q.order = page'.at
    BY <1>3, <1>5, <1>11, <2>1
  <2>6. page'.saving # None => page'.order # Bench(c)!NoRecord
    BY <1>1, <1>3
  <2> QED BY <1>5, <2>2, <2>3, <2>4, <2>5, <2>6 DEF Bench!OwnInv, Bench!IsOwn
<1>12. Bench(c)!ShippedIsWarned'
  BY <1>1 DEF Bench!IInv, Bench!ShippedIsWarned
<1> QED BY <1>5, <1>6, <1>8, <1>9, <1>10, <1>11, <1>12 DEF Bench!IInv

\* The route changes to another order.
LEMMA BenchGo ==
    ASSUME NEW c, Bench(c)!WorkbenchAssumption, Bench(c)!IInv, NEW o \in c.orders, Bench(c)!Go(o)
    PROVE  Bench(c)!IInv'
<1>1. /\ visits < c.visits /\ visits' = visits + 1 /\ (c.patient => page.saving = None)
      /\ page' = IF page.n = 0
                 THEN [Bench(c)!Closed EXCEPT !.n = visits + 1, !.at = o, !.loading = TRUE]
                 ELSE [page EXCEPT !.at = o, !.loading = TRUE, !.order = Bench(c)!NoRecord]
      /\ UNCHANGED <<row, clipboard, warned, early, lost, others>>
      /\ Bench(c)!Send("load", o, None, None)
  BY DEF Bench!Go
<1>2. page \in Bench(c)!Page /\ visits \in 0..c.visits /\ c.visits \in Nat /\ page.n \in 0..visits
  BY BenchConstants, BenchPage DEF Bench!IInv, Bench!TypeOK
<1>3. /\ page' \in Bench(c)!Page /\ page'.at = o /\ page'.order = Bench(c)!NoRecord
      /\ page'.form \in {page.form, None} /\ page'.saving \in {page.saving, None}
      /\ page.n # 0 => page'.form = page.form /\ page'.saving = page.saving /\ page'.n = page.n
      /\ page.n = 0 => page'.n = visits + 1 /\ page'.saving = None
  <2>1. CASE page.n = 0
    <3>1. visits + 1 \in 0..c.visits
      BY <1>1, <1>2
    <3> QED BY <1>1, <2>1, <3>1 DEF Bench!Closed, Bench!Page
  <2>2. CASE page.n # 0
    BY <1>1, <1>2, <2>2 DEF Bench!Page
  <2> QED BY <2>1, <2>2
<1>4. page'.n \in 1..visits' /\ visits' \in visits..c.visits /\ visits' \in Nat
  BY <1>1, <1>2, <1>3
<1>5. PICK q : /\ requests' = requests \cup {q} /\ IsFiniteSet(requests')
               /\ q.kind = "load" /\ q.order = o /\ q.n = page'.n /\ q.visit = visits' /\ q.section = None
               /\ q.value = None /\ q.answer = "none"
               /\ sent' \in 0..c.requests /\ Bench(c)!LinksFollow'
               /\ \A r \in requests' :
                     /\ r.id \in 1..sent' /\ r.n \in 1..visits' /\ r.visit \in 1..visits'
                     /\ r.kind \in Bench(c)!Kinds /\ r.order \in c.orders
                     /\ r.answer \in {"none", "ok", "refused", "lost"}
                     /\ r.told = None \/ r.told \in Bench(c)!Row
                     /\ Bench(c)!RequestFits(r)
  <2>1. "load" \in Bench(c)!Kinds
    BY DEF Bench!Kinds
  <2> QED BY <1>1, <1>4, <2>1, BenchSent
<1>6. Bench(c)!TypeOK'
  <2>1. page'.n # 0 /\ visits' \in 0..c.visits
    BY <1>4, <1>1, <1>2
  <2> QED BY <1>1, <1>3, <1>4, <1>5, <2>1 DEF Bench!IInv, Bench!TypeOK
<1>7. \A r \in requests : r.n \in 1..visits /\ r.visit \in 1..visits
  BY DEF Bench!IInv, Bench!TypeOK
<1>8. /\ page.n = 0 => Bench(c)!Changes' = {}
      /\ page.n # 0 => Bench(c)!Changes' = Bench(c)!Changes
  BY <1>2, <1>3, <1>5, <1>7 DEF Bench!Changes
<1>9. Bench(c)!SavingMatches'
  <2>1. OneChange(c)
    BY BenchLinks, BenchOne DEF Bench!IInv
  <2>2. OneChange(c)'
    BY <1>3, <1>8, <2>1 DEF OneChange
  <2> QED BY <1>5, <2>2, BenchOneNext
<1>10. Bench(c)!FieldsThere'
  BY <1>3, <1>8 DEF Bench!IInv, Bench!FieldsThere
<1>11. Bench(c)!ConfirmedStays'
  <2>1. ~(q.section = "status" /\ q.value = "shipped")
    BY <1>5
  <2> QED BY <1>1, <1>3, <1>5, <2>1 DEF Bench!IInv, Bench!ConfirmedStays
<1>12. ASSUME c.patient PROVE Bench(c)!OwnInv'
  <2>1. Bench(c)!Changes' = {}
    <3>1. page.n # 0 => Bench(c)!Changes = {}
      BY <1>1, <1>12, BenchLinks, BenchOne DEF Bench!IInv, OneChange
    <3> QED BY <1>8, <3>1
  <2>2. \A p \in c.orders : Bench(c)!IsOwn(row'[p], p)
    BY <1>1, <1>12 DEF Bench!IInv, Bench!OwnInv, Bench!IsOwn
  <2>3. ASSUME NEW r \in requests
        PROVE  /\ r.answer = "ok" => Bench(c)!IsOwn(r.told, r.order)
               /\ r.section \in c.sections => r.value[1] = r.order
    BY <1>12 DEF Bench!IInv, Bench!OwnInv
  <2>4. ASSUME NEW r \in requests', r.n = page'.n, r.kind # "load" \/ r.visit = visits'
        PROVE  r.order = page'.at
    <3>1. r.kind = "load"
      BY <2>1, <2>4 DEF Bench!Changes
    <3>2. r \notin requests
      BY <1>1, <1>2, <1>7, <2>4, <3>1
    <3> QED BY <1>3, <1>5, <3>2
  <2>5. None \notin c.sections
    BY DEF Bench!WorkbenchAssumption
  <2>6. page'.saving # None => page'.order # Bench(c)!NoRecord
    BY <1>1, <1>3, <1>12
  <2> QED BY <1>3, <1>5, <2>2, <2>3, <2>4, <2>5, <2>6 DEF Bench!OwnInv, Bench!IsOwn
<1>13. Bench(c)!ShippedIsWarned'
  BY <1>1 DEF Bench!IInv, Bench!ShippedIsWarned
<1> QED BY <1>5, <1>6, <1>9, <1>10, <1>11, <1>12, <1>13 DEF Bench!IInv

\* The page is left.
LEMMA BenchLeave ==
    ASSUME NEW c, Bench(c)!WorkbenchAssumption, Bench(c)!IInv, Bench(c)!Leave
    PROVE  Bench(c)!IInv'
<1>1. /\ page' = Bench(c)!Closed /\ page'.n = 0 /\ page'.order = Bench(c)!NoRecord
      /\ UNCHANGED <<row, clipboard, requests, warned, early, sent, lost, others, visits>>
  BY BenchNothing DEF Bench!Leave
<1>2. Bench(c)!TypeOK'
  BY <1>1, BenchNothing DEF Bench!IInv, Bench!TypeOK
<1>3. Bench(c)!FieldsThere' /\ Bench(c)!SavingMatches' /\ Bench(c)!LinksFollow' /\ Bench(c)!ConfirmedStays'
  BY <1>1 DEF Bench!IInv, Bench!FieldsThere, Bench!SavingMatches, Bench!LinksFollow, Bench!ConfirmedStays
<1>4. ASSUME c.patient PROVE Bench(c)!OwnInv'
  <2>1. \A r \in requests : r.n \in 1..visits
    BY DEF Bench!IInv, Bench!TypeOK
  <2>6. page'.saving # None => page'.order # Bench(c)!NoRecord
    BY <1>1, BenchNothing
  <2> QED BY <1>1, <1>4, <2>1, <2>6 DEF Bench!IInv, Bench!OwnInv, Bench!IsOwn
<1>5. (\A r \in requests : Bench(c)!RequestFits(r))'
  BY <1>1 DEF Bench!IInv, Bench!RequestFits
<1>6. Bench(c)!ShippedIsWarned'
  BY <1>1 DEF Bench!IInv, Bench!ShippedIsWarned
<1> QED BY <1>2, <1>3, <1>4, <1>5, <1>6 DEF Bench!IInv

\* What the operator does to the fields.
LEMMA BenchFields ==
    ASSUME NEW c, Bench(c)!WorkbenchAssumption, Bench(c)!IInv,
           \/ \E s \in c.sections : Bench(c)!Edit(s) \/ Bench(c)!CancelEdit(s) \/ \E v \in c.versions : Bench(c)!Type(s, v)
           \/ \E to \in c.statuses : Bench(c)!SelectStatus(to)
    PROVE  Bench(c)!IInv'
<1>1. page \in Bench(c)!Page /\ \A x \in Bench(c)!Fields : x.status \in c.statuses
        /\ x.values \in [c.sections -> Bench(c)!Value]
  BY DEF Bench!IInv, Bench!TypeOK, Bench!Fields
<1>2. Bench(c)!Shown => page.form \in Bench(c)!Fields /\ page.order.id \in c.orders /\ page.order.row \in Bench(c)!Row
  BY <1>1, BenchPage DEF Bench!IInv, Bench!FieldsThere, Bench!Shown
<1>3. ASSUME NEW s \in c.sections, Bench(c)!Edit(s) PROVE Bench(c)!IInv'
  <2>1. /\ Bench(c)!Shown /\ UNCHANGED <<row, clipboard, requests, warned, early, sent, lost, others, visits>>
        /\ page' = [page EXCEPT !.editing = page.editing \cup {s}]
    BY <1>3 DEF Bench!Edit
  <2>2. page' = [page EXCEPT !.form = page.form, !.editing = page.editing \cup {s}]
    BY <1>1, <2>1 DEF Bench!Page
  <2>3. page.editing \cup {s} \in SUBSET c.sections
    BY <1>1, BenchPage
  <2> QED BY <1>2, <2>1, <2>2, <2>3, BenchEdit
<1>4. ASSUME NEW s \in c.sections, Bench(c)!CancelEdit(s) PROVE Bench(c)!IInv'
  <2> DEFINE form == [page.form EXCEPT !.values[s] = page.order.row.values[s]]
  <2>1. /\ Bench(c)!Shown /\ UNCHANGED <<row, clipboard, requests, warned, early, sent, lost, others, visits>>
        /\ page' = [page EXCEPT !.editing = page.editing \ {s}, !.form.values[s] = page.order.row.values[s]]
    BY <1>4 DEF Bench!CancelEdit
  <2>2. page' = [page EXCEPT !.form = form, !.editing = page.editing \ {s}]
    BY <1>1, <2>1 DEF Bench!Page
  <2>3. page.editing \ {s} \in SUBSET c.sections
    BY <1>1, BenchPage
  <2>4. page.order.row.values[s] \in Bench(c)!Value
    BY <1>2, <2>1, BenchRow
  <2>5. form \in Bench(c)!Fields /\ \A u \in c.sections : form.values[u] = IF u
          = s THEN page.order.row.values[s] ELSE page.form.values[u]
    BY <1>1, <1>2, <2>1, <2>4 DEF Bench!Fields
  <2>6. c.patient => page.order.row.values[s][1] = page.order.id
    BY <2>1 DEF Bench!IInv, Bench!OwnInv, Bench!IsOwn, Bench!Shown
  <2>7. c.patient => \A u \in c.sections :
           form.values[u][1] = page.order.id \/ form.values[u] = page.form.values[u]
    BY <2>5, <2>6
  <2> HIDE DEF form
  <2> QED BY <2>1, <2>2, <2>3, <2>5, <2>7, BenchEdit
<1>5. ASSUME NEW s \in c.sections, NEW v \in c.versions, Bench(c)!Type(s, v) PROVE Bench(c)!IInv'
  <2> DEFINE form == [page.form EXCEPT !.values[s] = <<page.order.id, v>>]
  <2>1. /\ Bench(c)!Shown /\ UNCHANGED <<row, clipboard, requests, warned, early, sent, lost, others, visits>>
        /\ page' = [page EXCEPT !.form.values[s] = <<page.order.id, v>>]
    BY <1>5 DEF Bench!Type
  <2>2. page' = [page EXCEPT !.form = form, !.editing = page.editing]
    BY <1>1, <2>1 DEF Bench!Page
  <2>3. page.editing \in SUBSET c.sections
    BY <1>1, BenchPage
  <2>4. <<page.order.id, v>> \in Bench(c)!Value
    BY <1>2, <2>1 DEF Bench!Value
  <2>5. form \in Bench(c)!Fields /\ \A u \in c.sections : form.values[u] = IF u = s THEN <<page.order.id,
          v>> ELSE page.form.values[u]
    BY <1>1, <1>2, <2>1, <2>4 DEF Bench!Fields
  <2>6. c.patient => \A u \in c.sections :
           form.values[u][1] = page.order.id \/ form.values[u] = page.form.values[u]
    BY <2>5
  <2> HIDE DEF form
  <2> QED BY <2>1, <2>2, <2>3, <2>5, <2>6, BenchEdit
<1>6. ASSUME NEW to \in c.statuses, Bench(c)!SelectStatus(to) PROVE Bench(c)!IInv'
  <2> DEFINE form == [page.form EXCEPT !.status = to]
  <2>1. /\ Bench(c)!Shown /\ UNCHANGED <<row, clipboard, requests, warned, early, sent, lost, others, visits>>
        /\ page' = [page EXCEPT !.form.status = to]
    BY <1>6 DEF Bench!SelectStatus
  <2>2. page' = [page EXCEPT !.form = form, !.editing = page.editing]
    BY <1>1, <2>1 DEF Bench!Page
  <2>3. page.editing \in SUBSET c.sections
    BY <1>1, BenchPage
  <2>4. form \in Bench(c)!Fields /\ form.values = page.form.values
    BY <1>1, <1>2, <2>1 DEF Bench!Fields
  <2> HIDE DEF form
  <2> QED BY <2>1, <2>2, <2>3, <2>4, BenchEdit
<1> QED BY <1>3, <1>4, <1>5, <1>6

\* What the operator sends.
LEMMA BenchSends ==
    ASSUME NEW c, Bench(c)!WorkbenchAssumption, Bench(c)!IInv,
           \/ Bench(c)!SaveStatus \/ Bench(c)!RotateLink \/ Bench(c)!RequestFinal \/ Bench(c)!ConfirmFinal
           \/ \E s \in c.sections : Bench(c)!SaveSection(s)
    PROVE  Bench(c)!IInv'
<1>1. {"save", "link", "requestFinal", "confirmFinal"} \subseteq Bench(c)!Kinds \ {"load"}
  BY DEF Bench!Kinds
<1>2. /\ \A x \in Bench(c)!Fields : x.status \in c.statuses /\ x.values \in [c.sections -> Bench(c)!Value]
      /\ "status" \notin c.sections /\ None \notin c.sections
  BY BenchConstants DEF Bench!Fields, Bench!WorkbenchAssumption
<1>3. Bench(c)!Shown => page.form \in Bench(c)!Fields /\ page.order.id \in c.orders
  BY BenchPage DEF Bench!IInv, Bench!TypeOK, Bench!FieldsThere, Bench!Shown
<1>4. ASSUME Bench(c)!SaveStatus PROVE Bench(c)!IInv'
  <2>1. /\ Bench(c)!Shown /\ Bench(c)!Start("save", "status", page.form.status)
        /\ warned' = IF Bench(c)!Warns(page.form.status) THEN warned \cup {page.order.id} ELSE warned
    BY <1>4 DEF Bench!SaveStatus
  <2>2. page.form.status = "shipped" /\ page.order.id \in c.split =>
           page.order.row.confirmed \/ page.order.id \in warned'
    BY <2>1 DEF Bench!Warns
  <2> QED BY <1>1, <1>2, <1>3, <2>1, <2>2, BenchStart
<1>5. ASSUME NEW s \in c.sections, Bench(c)!SaveSection(s) PROVE Bench(c)!IInv'
  <2>1. Bench(c)!Shown /\ Bench(c)!Start("save", s, page.form.values[s]) /\ warned' = warned
    BY <1>5 DEF Bench!SaveSection
  <2>2. c.patient => page.form.values[s][1] = page.order.id
    BY <2>1 DEF Bench!IInv, Bench!OwnInv, Bench!Shown
  <2> QED BY <1>1, <1>2, <1>3, <2>1, <2>2, BenchStart
<1>6. ASSUME NEW kind \in {"link", "requestFinal", "confirmFinal"}, Bench(c)!Start(kind, None, None), warned' = warned
      PROVE  Bench(c)!IInv'
  <2>1. kind # "save" /\ kind \in Bench(c)!Kinds \ {"load"}
    BY <1>1
  <2>2. ~(None = "status" /\ None = "shipped")
    OBVIOUS
  <2> QED BY <1>2, <1>6, <2>1, <2>2, BenchStart
<1>7. Bench(c)!RotateLink => Bench(c)!Start("link", None, None) /\ warned' = warned
  BY DEF Bench!RotateLink
<1>8. Bench(c)!RequestFinal => Bench(c)!Start("requestFinal", None, None) /\ warned' = warned
  BY DEF Bench!RequestFinal
<1>9. Bench(c)!ConfirmFinal => Bench(c)!Start("confirmFinal", None, None) /\ warned' = warned
  BY DEF Bench!ConfirmFinal
<1> QED BY <1>4, <1>5, <1>6, <1>7, <1>8, <1>9

\* A message is copied.
LEMMA BenchCopy ==
    ASSUME NEW c, Bench(c)!WorkbenchAssumption, Bench(c)!IInv, Bench(c)!CopyMessage
    PROVE  Bench(c)!IInv'
<1>1. /\ clipboard' = Bench(c)!Message(page.order) /\ page.order # Bench(c)!NoRecord
      /\ UNCHANGED <<row, page, requests, warned, early, sent, lost, others, visits>>
  BY DEF Bench!CopyMessage, Bench!Shown
<1>2. clipboard' \in [id : c.orders, row : Bench(c)!Link]
  <2>1. page.order.id \in c.orders /\ page.order.row.link \in Bench(c)!Link
    BY <1>1, BenchPage, BenchRow DEF Bench!IInv, Bench!TypeOK
  <2> QED BY <1>1, <2>1 DEF Bench!Message
<1>3. Bench(c)!TypeOK'
  BY <1>1, <1>2 DEF Bench!IInv, Bench!TypeOK
<1>4. /\ Bench(c)!FieldsThere' /\ Bench(c)!SavingMatches' /\ Bench(c)!LinksFollow' /\ Bench(c)!ConfirmedStays'
      /\ (\A r \in requests : Bench(c)!RequestFits(r))'
  BY <1>1 DEF Bench!IInv, Bench!FieldsThere, Bench!SavingMatches, Bench!LinksFollow, Bench!ConfirmedStays,
          Bench!RequestFits, Bench!Changes
<1>5. c.patient => Bench(c)!OwnInv'
  BY <1>1 DEF Bench!IInv, Bench!OwnInv, Bench!IsOwn
<1>6. Bench(c)!ShippedIsWarned'
  BY <1>1 DEF Bench!IInv, Bench!ShippedIsWarned
<1> QED BY <1>3, <1>4, <1>5, <1>6 DEF Bench!IInv

\* Only the answer of a request is replaced.
LEMMA BenchToldSame ==
    ASSUME NEW c, Bench(c)!IInv, NEW r \in requests, NEW answer
    PROVE  [r EXCEPT !.answer = answer, !.told = r.told] = [r EXCEPT !.answer = answer]
<1>1. r = [id |-> r.id, n |-> r.n, visit |-> r.visit, kind |-> r.kind, order |-> r.order,
           section |-> r.section, value |-> r.value, answer |-> r.answer, told |-> r.told]
  BY DEF Bench!IInv, Bench!RequestFits
<1>2. r \in [id : {r.id}, n : {r.n}, visit : {r.visit}, kind : {r.kind}, order : {r.order},
             section : {r.section}, value : {r.value}, answer : {r.answer}, told : {r.told}]
  BY <1>1, Zenon
<1>3. /\ [r EXCEPT !.answer = answer, !.told = r.told]
            \in [id : {r.id}, n : {r.n}, visit : {r.visit}, kind : {r.kind}, order : {r.order},
                 section : {r.section}, value : {r.value}, answer : {answer}, told : {r.told}]
      /\ [r EXCEPT !.answer = answer]
            \in [id : {r.id}, n : {r.n}, visit : {r.visit}, kind : {r.kind}, order : {r.order},
                 section : {r.section}, value : {r.value}, answer : {answer}, told : {r.told}]
  BY <1>2
<1> DEFINE f == [r EXCEPT !.answer = answer, !.told = r.told]
           g == [r EXCEPT !.answer = answer]
<1> HIDE DEF f, g
<1> QED BY <1>3 DEF f, g

\* Request r has become q, with another answer.
Answered(c, r, q, answer, told) ==
    /\ requests' = (requests \ {r}) \cup {q}
    /\ q.kind = r.kind /\ q.order = r.order /\ q.n = r.n /\ q.visit = r.visit /\ q.section = r.section
    /\ q.value = r.value /\ q.answer = answer /\ q.told = told
    /\ IsFiniteSet(requests')
    /\ Cardinality(Unanswered(requests)) \in Nat /\ Cardinality(Unanswered(requests')) \in Nat
    /\ Cardinality(Unanswered(requests')) <= Cardinality(Unanswered(requests))
    /\ r.answer = "none" =>
          Cardinality(Unanswered(requests')) = Cardinality(Unanswered(requests)) - 1
    /\ Bench(c)!FieldsThere' /\ Bench(c)!SavingMatches'
    /\ \A s \in requests' :
          /\ s.id \in 1..sent /\ s.n \in 1..visits /\ s.visit \in 1..visits
          /\ s.kind \in Bench(c)!Kinds /\ s.order \in c.orders
          /\ s.answer \in {"none", "ok", "refused", "lost"}
          /\ s.told = None \/ s.told \in Bench(c)!Row
          /\ Bench(c)!RequestFits(s)

\* A request in flight, with another answer.
LEMMA BenchAnswer ==
    ASSUME NEW c, Bench(c)!WorkbenchAssumption, Bench(c)!IInv, NEW r \in requests,
           NEW answer \in {"ok", "refused", "lost"}, NEW told,
           told = None \/ told \in Bench(c)!Row, answer = "ok" => told \in Bench(c)!Row,
           requests' = (requests \ {r}) \cup {[r EXCEPT !.answer = answer, !.told = told]},
           UNCHANGED <<page, sent, visits>>
    PROVE  \E q : Answered(c, r, q, answer, told)
<1> DEFINE q == [r EXCEPT !.answer = answer, !.told = told]
<1>1. /\ r = [id |-> r.id, n |-> r.n, visit |-> r.visit, kind |-> r.kind, order |-> r.order,
              section |-> r.section, value |-> r.value, answer |-> r.answer, told |-> r.told]
      /\ \A s \in requests : Bench(c)!RequestFits(s)
  BY DEF Bench!IInv, Bench!RequestFits
<1>2. q = [id |-> r.id, n |-> r.n, visit |-> r.visit, kind |-> r.kind, order |-> r.order,
           section |-> r.section, value |-> r.value, answer |-> answer, told |-> told]
  <2>1. r \in [id : {r.id}, n : {r.n}, visit : {r.visit}, kind : {r.kind}, order : {r.order},
               section : {r.section}, value : {r.value}, answer : {r.answer}, told : {r.told}]
    BY <1>1, Zenon
  <2>2. q \in [id : {r.id}, n : {r.n}, visit : {r.visit}, kind : {r.kind}, order : {r.order},
               section : {r.section}, value : {r.value}, answer : {answer}, told : {told}]
    BY <2>1
  <2> HIDE DEF q
  <2> QED BY <2>2
<1>3. /\ q.kind = r.kind /\ q.order = r.order /\ q.n = r.n /\ q.visit = r.visit /\ q.section = r.section
      /\ q.value = r.value /\ q.answer = answer /\ q.told = told /\ q.id = r.id
  BY <1>2
<1>4. Bench(c)!RequestFits(q)
  BY <1>1, <1>2 DEF Bench!RequestFits
<1>5. requests' = (requests \ {r}) \cup {q}
  OBVIOUS
<1> HIDE DEF q
<1>6. ASSUME NEW s \in requests
      PROVE  /\ s.id \in 1..sent /\ s.n \in 1..visits /\ s.visit \in 1..visits
             /\ s.kind \in Bench(c)!Kinds /\ s.order \in c.orders
             /\ s.answer \in {"none", "ok", "refused", "lost"}
             /\ s.told = None \/ s.told \in Bench(c)!Row
  BY DEF Bench!IInv, Bench!TypeOK
<1>7. ASSUME NEW s \in requests'
      PROVE  /\ s.id \in 1..sent /\ s.n \in 1..visits /\ s.visit \in 1..visits
             /\ s.kind \in Bench(c)!Kinds /\ s.order \in c.orders
             /\ s.answer \in {"none", "ok", "refused", "lost"}
             /\ s.told = None \/ s.told \in Bench(c)!Row
             /\ Bench(c)!RequestFits(s)
  <2>1. CASE s \in requests
    BY <1>1, <1>6, <2>1
  <2>2. CASE s = q
    BY <1>3, <1>4, <1>6, <2>2
  <2> QED BY <1>5, <2>1, <2>2
<1>8. IsFiniteSet(requests)
  BY BenchLinks DEF Bench!IInv
<1>9. /\ IsFiniteSet(requests')
      /\ Cardinality(Unanswered(requests)) \in Nat /\ Cardinality(Unanswered(requests')) \in Nat
      /\ Cardinality(Unanswered(requests')) <= Cardinality(Unanswered(requests))
      /\ r.answer = "none" => Cardinality(Unanswered(requests')) = Cardinality(Unanswered(requests)) - 1
  <2>1. /\ IsFiniteSet(requests \ {r}) /\ Cardinality(Unanswered(requests)) \in Nat
        /\ Cardinality(Unanswered(requests \ {r})) \in Nat
        /\ Cardinality(Unanswered(requests \ {r})) <= Cardinality(Unanswered(requests))
        /\ r.answer = "none" => Cardinality(Unanswered(requests \ {r})) = Cardinality(Unanswered(requests)) - 1
    BY <1>8, BenchUnanswered
  <2>2. Unanswered((requests \ {r}) \cup {q}) = Unanswered(requests \ {r}) /\ IsFiniteSet((requests \ {r}) \cup {q})
    <3>1. q.answer # "none"
      BY <1>3
    <3> QED BY <2>1, <3>1, BenchUnanswered
  <2> QED BY <1>5, <2>1, <2>2
<1>10. Bench(c)!FieldsThere' /\ OneChange(c)'
  <2>1. CASE r \in Bench(c)!Changes
    <3>1. Bench(c)!Changes' = (Bench(c)!Changes \ {r}) \cup {q}
      BY <1>3, <1>5, <2>1 DEF Bench!Changes
    <3>2. OneChange(c)
      BY <1>8, BenchOne DEF Bench!IInv
    <3>3. ASSUME NEW x, Bench(c)!Changes = {x} PROVE Bench(c)!Changes' = {q}
      BY <2>1, <3>1, <3>3
    <3> QED BY <2>1, <3>1, <3>2, <3>3 DEF OneChange, Bench!IInv, Bench!FieldsThere
  <2>2. CASE r \notin Bench(c)!Changes
    <3>1. Bench(c)!Changes' = Bench(c)!Changes
      BY <1>3, <1>5, <2>2 DEF Bench!Changes
    <3>2. OneChange(c)
      BY <1>8, BenchOne DEF Bench!IInv
    <3> QED BY <3>1, <3>2 DEF OneChange, Bench!IInv, Bench!FieldsThere
  <2> QED BY <2>1, <2>2
<1>11. Bench(c)!SavingMatches'
  BY <1>9, <1>10, BenchOneNext
<1> QED BY <1>3, <1>5, <1>7, <1>9, <1>10, <1>11 DEF Answered

\* What the server stores for a request it grants.
LEMMA BenchRowAfter ==
    ASSUME NEW c, Bench(c)!WorkbenchAssumption, Bench(c)!IInv, NEW r \in requests, r.answer = "none"
    PROVE  /\ Bench(c)!RowAfter(r) \in Bench(c)!Row
           /\ Bench(c)!RowAfter(r).link[2] \in {row[r.order].link[2], row[r.order].link[2] + 1}
           /\ row[r.order].confirmed => Bench(c)!RowAfter(r).confirmed
           /\ c.patient => Bench(c)!IsOwn(Bench(c)!RowAfter(r), r.order)
<1> DEFINE x == row[r.order]
<1>1. r.order \in c.orders /\ x \in Bench(c)!Row /\ Bench(c)!RequestFits(r)
  BY DEF Bench!IInv, Bench!TypeOK
<1>2. x.link[2] \in Nat /\ x.link[2] + 1 \in 0..c.others + c.requests
  <2>1. x.link[2] \in Nat
    BY <1>1 DEF Bench!Row, Bench!Link
  <2>2. x.link[2] + Cardinality(Unanswered(requests)) <= others + sent /\ IsFiniteSet(requests)
    BY <1>1, BenchLinks DEF Bench!IInv
  <2>3. Cardinality(Unanswered(requests)) \in Nat /\ Cardinality(Unanswered(requests \ {r})) \in Nat
        /\ Cardinality(Unanswered(requests \ {r})) = Cardinality(Unanswered(requests)) - 1
    BY <2>2, BenchUnanswered
  <2>4. others \in 0..c.others /\ sent \in 0..c.requests /\ c.others \in Nat /\ c.requests \in Nat
    BY BenchConstants DEF Bench!IInv, Bench!TypeOK
  <2> HIDE DEF x
  <2> QED BY <2>1, <2>2, <2>3, <2>4
<1>3. c.patient => Bench(c)!IsOwn(x, r.order) /\ (r.section \in c.sections => r.value[1] = r.order)
  BY <1>1 DEF Bench!IInv, Bench!OwnInv
<1>4. Bench(c)!RowAfter(r) \in {x, Bench(c)!WithStatus(x, r.value), [x EXCEPT !.values[r.section] = r.value],
                               [x EXCEPT !.link = <<r.order, @[2] + 1>>], [x EXCEPT !.requested = TRUE],
                               [x EXCEPT !.confirmed = TRUE]}
  BY DEF Bench!RowAfter
<1> DEFINE Good(y) == /\ y \in Bench(c)!Row /\ y.link[2] \in {x.link[2], x.link[2] + 1} /\ (x.confirmed => y.confirmed)
                      /\ c.patient => Bench(c)!IsOwn(y, r.order)
<1>5. Good(x)
  BY <1>1, <1>3
<1>6. CASE r.kind = "save" /\ r.section = "status"
  <2>1. Bench(c)!RowAfter(r) = Bench(c)!WithStatus(x, r.value) /\ r.value \in c.statuses
    BY <1>1, <1>6, BenchConstants DEF Bench!RowAfter, Bench!RequestFits
  <2>2. Good(Bench(c)!WithStatus(x, r.value))
    BY <1>1, <1>3, <2>1 DEF Bench!WithStatus, Bench!Row, Bench!IsOwn
  <2> QED BY <2>1, <2>2
<1>7. CASE r.kind = "save" /\ r.section # "status"
  <2>1. Bench(c)!RowAfter(r) = [x EXCEPT !.values[r.section] = r.value] /\ r.section \in c.sections
          /\ r.value \in Bench(c)!Value
    BY <1>1, <1>7 DEF Bench!RowAfter, Bench!RequestFits
  <2>2. Good([x EXCEPT !.values[r.section] = r.value])
    BY <1>1, <1>3, <2>1 DEF Bench!Row, Bench!IsOwn
  <2> QED BY <2>1, <2>2
<1>8. CASE r.kind = "link"
  <2>1. Bench(c)!RowAfter(r) = [x EXCEPT !.link = <<r.order, x.link[2] + 1>>]
    BY <1>8 DEF Bench!RowAfter
  <2>2. <<r.order, x.link[2] + 1>> \in Bench(c)!Link
    BY <1>1, <1>2 DEF Bench!Link
  <2>3. Good([x EXCEPT !.link = <<r.order, x.link[2] + 1>>])
    BY <1>1, <1>3, <2>2 DEF Bench!Row, Bench!IsOwn
  <2> QED BY <2>1, <2>3
<1>9. CASE r.kind = "requestFinal"
  <2>1. Bench(c)!RowAfter(r) = [x EXCEPT !.requested = TRUE]
    BY <1>9 DEF Bench!RowAfter
  <2>2. Good([x EXCEPT !.requested = TRUE])
    BY <1>1, <1>3 DEF Bench!Row, Bench!IsOwn
  <2> QED BY <2>1, <2>2
<1>10. CASE r.kind = "confirmFinal"
  <2>1. Bench(c)!RowAfter(r) = [x EXCEPT !.confirmed = TRUE]
    BY <1>10 DEF Bench!RowAfter
  <2>2. Good([x EXCEPT !.confirmed = TRUE])
    BY <1>1, <1>3 DEF Bench!Row, Bench!IsOwn
  <2> QED BY <2>1, <2>2
<1>11. CASE r.kind \notin {"save", "link", "requestFinal", "confirmFinal"}
  <2>1. Bench(c)!RowAfter(r) = x
    BY <1>11 DEF Bench!RowAfter
  <2> QED BY <1>5, <2>1
<1> QED BY <1>6, <1>7, <1>8, <1>9, <1>10, <1>11

\* The server handles a request.
LEMMA BenchServe ==
    ASSUME NEW c, Bench(c)!WorkbenchAssumption, Bench(c)!IInv, NEW r \in requests, Bench(c)!Serve(r)
    PROVE  Bench(c)!IInv'
<1> DEFINE o == r.order
           y == Bench(c)!RowAfter(r)
<1>1. /\ r.answer = "none"
      /\ IF Bench(c)!Granted(r)
         THEN /\ row' = [row EXCEPT ![o] = y]
              /\ requests' = (requests \ {r}) \cup {[r EXCEPT !.answer = "ok", !.told = y]}
         ELSE /\ requests' = (requests \ {r}) \cup {[r EXCEPT !.answer = "refused"]}
              /\ UNCHANGED row
      /\ early' = IF /\ r.section = "status" /\ r.value = "shipped" /\ o \in c.split
                     /\ row[o].status # "shipped" /\ ~row[o].confirmed
                  THEN early \cup {o} ELSE early
      /\ UNCHANGED <<page, clipboard, warned, sent, lost, others, visits>>
  BY DEF Bench!Serve
<1>2. /\ o \in c.orders /\ row \in [c.orders -> Bench(c)!Row] /\ page \in Bench(c)!Page /\ others \in Nat
      /\ sent \in Nat /\ (r.told = None \/ r.told \in Bench(c)!Row)
  BY BenchConstants DEF Bench!IInv, Bench!TypeOK
<1>3. /\ y \in Bench(c)!Row /\ y.link[2] \in {row[o].link[2], row[o].link[2] + 1}
      /\ row[o].confirmed => y.confirmed
      /\ c.patient => Bench(c)!IsOwn(y, o)
  BY <1>1, BenchRowAfter
<1> HIDE DEF y
<1>15. PICK answer \in {"ok", "refused"} :
         \E told :
           /\ told = None \/ told \in Bench(c)!Row
           /\ answer = "ok" => told = y /\ row' = [row EXCEPT ![o] = y]
           /\ answer = "refused" => told = r.told /\ row' = row
           /\ requests' = (requests \ {r}) \cup {[r EXCEPT !.answer = answer, !.told = told]}
  <2>1. CASE Bench(c)!Granted(r)
    BY <1>1, <1>3, <2>1
  <2>2. CASE ~Bench(c)!Granted(r)
    <3>1. [r EXCEPT !.answer = "refused", !.told = r.told] = [r EXCEPT !.answer = "refused"]
      BY BenchToldSame
    <3> QED BY <1>1, <1>2, <2>2, <3>1
  <2> QED BY <2>1, <2>2
<1>4. PICK told :
         /\ told = None \/ told \in Bench(c)!Row
         /\ answer = "ok" => told = y /\ row' = [row EXCEPT ![o] = y]
         /\ answer = "refused" => told = r.told /\ row' = row
         /\ requests' = (requests \ {r}) \cup {[r EXCEPT !.answer = answer, !.told = told]}
  BY <1>15
<1>5. PICK q : Answered(c, r, q, answer, told)
  <2>1. answer = "ok" => told \in Bench(c)!Row
    BY <1>3, <1>4
  <2>2. answer \in {"ok", "refused", "lost"} /\ UNCHANGED <<page, sent, visits>>
    BY <1>1
  <2>3. /\ requests' = (requests \ {r}) \cup {[r EXCEPT !.answer = answer, !.told = told]}
        /\ told = None \/ told \in Bench(c)!Row
    BY <1>4
  <2> QED BY <2>1, <2>2, <2>3, BenchAnswer, Zenon
<1>14. /\ requests' = (requests \ {r}) \cup {q}
       /\ q.kind = r.kind /\ q.order = r.order /\ q.n = r.n /\ q.visit = r.visit /\ q.section = r.section
       /\ q.value = r.value /\ q.answer = answer /\ q.told = told
  BY <1>5 DEF Answered
<1>6. row' \in [c.orders -> Bench(c)!Row] /\ \A p \in c.orders : p # o => row'[p] = row[p]
  BY <1>2, <1>3, <1>4
<1>7. row'[o] = IF answer = "ok" THEN y ELSE row[o]
  BY <1>2, <1>4
<1>8. Bench(c)!TypeOK'
  <2>1. warned' \subseteq c.orders /\ early' \subseteq c.orders
    BY <1>1, <1>2 DEF Bench!IInv, Bench!TypeOK
  <2> QED BY <1>1, <1>5, <1>6, <2>1 DEF Answered, Bench!IInv, Bench!TypeOK
<1>9. Bench(c)!LinksFollow'
  <2>1. \A p \in c.orders : row'[p].link[2] \in {row[p].link[2], row[p].link[2] + 1}
    BY <1>3, <1>6, <1>7
  <2>2. \A p \in c.orders : row[p].link[2] \in Nat
    BY <1>2 DEF Bench!Row, Bench!Link
  <2>3. \A p \in c.orders : row[p].link[2] + Cardinality(Unanswered(requests)) <= others + sent
    BY BenchLinks DEF Bench!IInv
  <2>4. PICK j \in Nat, k \in Nat : j = Cardinality(Unanswered(requests))
          /\ k = Cardinality(Unanswered(requests')) /\ k = j - 1
    BY <1>1, <1>5 DEF Answered
  <2>5. ASSUME NEW p \in c.orders PROVE row'[p].link[2] + k <= others + sent
    <3>1. PICK m \in Nat, n \in Nat : m = row[p].link[2] /\ n = row'[p].link[2] /\ n \in {m, m + 1}
      BY <2>1, <2>2
    <3>2. m + j <= others + sent
      BY <2>3, <2>4, <3>1
    <3>3. n + k <= others + sent
      BY <1>2, <2>4, <3>1, <3>2
    <3> QED BY <3>1, <3>3
  <2>6. \A p \in c.orders : row'[p].link[2] + Cardinality(Unanswered(requests')) <= others' + sent'
    BY <1>1, <2>4, <2>5, Zenon
  <2> QED BY <1>5, <2>6, BenchLinksNext, Zenon DEF Answered
<1>10. \A p \in c.orders : row[p].confirmed => row'[p].confirmed
  BY <1>3, <1>6, <1>7
<1>11. Bench(c)!ConfirmedStays'
  <2>1. page'.order # Bench(c)!NoRecord /\ page'.order.row.confirmed => row'[page'.order.id].confirmed
    BY <1>1, <1>2, <1>10, BenchPage DEF Bench!IInv, Bench!ConfirmedStays
  <2>2. ASSUME NEW s \in requests
        PROVE  /\ s.answer = "ok" /\ s.told.confirmed => row'[s.order].confirmed
               /\ s.section = "status" /\ s.value = "shipped" /\ s.order \in c.split =>
                     row'[s.order].confirmed \/ s.order \in warned'
    BY <1>1, <1>10 DEF Bench!IInv, Bench!TypeOK, Bench!ConfirmedStays
  <2>3. /\ q.answer = "ok" /\ q.told.confirmed => row'[q.order].confirmed
        /\ q.section = "status" /\ q.value = "shipped" /\ q.order \in c.split =>
              row'[q.order].confirmed \/ q.order \in warned'
    BY <1>4, <1>14, <1>7, <2>2
  <2> QED BY <1>14, <2>1, <2>2, <2>3 DEF Bench!ConfirmedStays
<1>12. Bench(c)!ShippedIsWarned'
  <2>1. r.section = "status" /\ r.value = "shipped" /\ o \in c.split => row[o].confirmed \/ o \in warned
    BY DEF Bench!IInv, Bench!ConfirmedStays
  <2> QED BY <1>1, <2>1 DEF Bench!IInv, Bench!ShippedIsWarned
<1>13. ASSUME c.patient PROVE Bench(c)!OwnInv'
  <2>1. (page.n # 0 /\ page.order # Bench(c)!NoRecord =>
            /\ page.order.id = page.at /\ Bench(c)!IsOwn(page.order.row, page.at)
            /\ \A s \in c.sections : page.form.values[s][1] = page.at)'
    BY <1>1, <1>13 DEF Bench!IInv, Bench!OwnInv, Bench!IsOwn
  <2>2. \A p \in c.orders : Bench(c)!IsOwn(row[p], p)
    BY <1>13 DEF Bench!IInv, Bench!OwnInv
  <2>3. \A p \in c.orders : Bench(c)!IsOwn(row'[p], p)
    BY <1>3, <1>6, <1>7, <1>13, <2>2
  <2>4. ASSUME NEW s \in requests
        PROVE  /\ s.answer = "ok" => Bench(c)!IsOwn(s.told, s.order)
               /\ s.section \in c.sections => s.value[1] = s.order
               /\ s.n = page'.n /\ (s.kind # "load" \/ s.visit = visits') => s.order = page'.at
    BY <1>1, <1>13 DEF Bench!IInv, Bench!OwnInv
  <2>5. /\ q.answer = "ok" => Bench(c)!IsOwn(q.told, q.order)
        /\ q.section \in c.sections => q.value[1] = q.order
        /\ q.n = page'.n /\ (q.kind # "load" \/ q.visit = visits') => q.order = page'.at
    BY <1>3, <1>4, <1>14, <1>13, <2>4
  <2>6. page'.saving # None => page'.order # Bench(c)!NoRecord
    BY <1>1, <1>13 DEF Bench!IInv, Bench!OwnInv
  <2> QED BY <1>14, <2>1, <2>3, <2>4, <2>5, <2>6 DEF Bench!OwnInv, Bench!IsOwn
<1> QED BY <1>5, <1>8, <1>9, <1>11, <1>12, <1>13 DEF Answered, Bench!IInv

\* A connection fails.
LEMMA BenchLose ==
    ASSUME NEW c, Bench(c)!WorkbenchAssumption, Bench(c)!IInv, NEW r \in requests, Bench(c)!Lose(r)
    PROVE  Bench(c)!IInv'
<1>1. /\ lost < c.losses /\ lost' = lost + 1
      /\ requests' = (requests \ {r}) \cup {[r EXCEPT !.answer = "lost"]}
      /\ UNCHANGED <<row, page, clipboard, warned, early, sent, others, visits>>
  BY DEF Bench!Lose
<1>2. /\ others \in Nat /\ sent \in Nat /\ (r.told = None \/ r.told \in Bench(c)!Row)
      /\ lost \in 0..c.losses /\ c.losses \in Nat
  BY BenchConstants DEF Bench!IInv, Bench!TypeOK
<1>3. requests' = (requests \ {r}) \cup {[r EXCEPT !.answer = "lost", !.told = r.told]}
  BY <1>1, BenchToldSame
<1>4. PICK q : Answered(c, r, q, "lost", r.told)
  <2>1. "lost" \in {"ok", "refused", "lost"} /\ ("lost" = "ok" => r.told \in Bench(c)!Row)
          /\ UNCHANGED <<page, sent, visits>>
    BY <1>1
  <2> QED BY <1>2, <1>3, <2>1, BenchAnswer, Zenon
<1>5. /\ requests' = (requests \ {r}) \cup {q}
      /\ q.kind = r.kind /\ q.order = r.order /\ q.n = r.n /\ q.visit = r.visit /\ q.section = r.section
      /\ q.value = r.value /\ q.answer = "lost" /\ q.told = r.told
  BY <1>4 DEF Answered
<1>6. Bench(c)!TypeOK'
  <2>1. lost' \in 0..c.losses
    BY <1>1, <1>2
  <2> QED BY <1>1, <1>4, <2>1 DEF Answered, Bench!IInv, Bench!TypeOK
<1>7. Bench(c)!LinksFollow'
  <2>1. PICK j \in Nat, k \in Nat : j = Cardinality(Unanswered(requests))
          /\ k = Cardinality(Unanswered(requests')) /\ k <= j
    BY <1>4 DEF Answered
  <2>2. ASSUME NEW p \in c.orders PROVE row[p].link[2] + k <= others + sent
    <3>1. PICK m \in Nat : m = row[p].link[2]
      BY DEF Bench!IInv, Bench!TypeOK, Bench!Row, Bench!Link
    <3>2. m + j <= others + sent
      BY <2>1, <3>1, BenchLinks DEF Bench!IInv
    <3>3. m + k <= others + sent
      BY <1>2, <2>1, <3>1, <3>2
    <3> QED BY <3>1, <3>3
  <2>3. \A p \in c.orders : row'[p].link[2] + Cardinality(Unanswered(requests')) <= others' + sent'
    BY <1>1, <2>1, <2>2, Zenon
  <2> QED BY <1>4, <2>3, BenchLinksNext, Zenon DEF Answered
<1>8. Bench(c)!ConfirmedStays' /\ Bench(c)!ShippedIsWarned'
  <2>1. ASSUME NEW s \in requests
        PROVE  /\ s.answer = "ok" /\ s.told.confirmed => row[s.order].confirmed
               /\ s.section = "status" /\ s.value = "shipped" /\ s.order \in c.split =>
                     row[s.order].confirmed \/ s.order \in warned
    BY DEF Bench!IInv, Bench!ConfirmedStays
  <2>2. /\ q.answer = "ok" /\ q.told.confirmed => row[q.order].confirmed
        /\ q.section = "status" /\ q.value = "shipped" /\ q.order \in c.split =>
              row[q.order].confirmed \/ q.order \in warned
    BY <1>5, <2>1
  <2> QED BY <1>1, <1>5, <2>1, <2>2 DEF Bench!IInv, Bench!ConfirmedStays, Bench!ShippedIsWarned
<1>9. ASSUME c.patient PROVE Bench(c)!OwnInv'
  <2>1. Bench(c)!OwnInv
    BY <1>9 DEF Bench!IInv
  <2>2. /\ q.answer = "ok" => Bench(c)!IsOwn(q.told, q.order)
        /\ q.section \in c.sections => q.value[1] = q.order
        /\ q.n = page.n /\ (q.kind # "load" \/ q.visit = visits) => q.order = page.at
    BY <1>5, <2>1 DEF Bench!OwnInv
  <2> QED BY <1>1, <1>5, <2>1, <2>2 DEF Bench!OwnInv, Bench!IsOwn
<1> QED BY <1>4, <1>6, <1>7, <1>8, <1>9 DEF Answered, Bench!IInv

\* A row changes, and with it the count of what others did; confirmed stays confirmed.
LEMMA BenchOthers ==
    ASSUME NEW c, Bench(c)!WorkbenchAssumption, Bench(c)!IInv, NEW o \in c.orders, Bench(c)!Others(o)
    PROVE  Bench(c)!IInv'
<1> DEFINE x == row[o]
           Good(y) == /\ y \in Bench(c)!Row /\ y.link[2] \in {x.link[2], x.link[2] + 1} /\ y.confirmed = x.confirmed
                      /\ c.patient => Bench(c)!IsOwn(y, o)
<1>1. /\ others < c.others /\ others' = others + 1
      /\ UNCHANGED <<page, clipboard, requests, warned, early, sent, lost, visits>>
  BY DEF Bench!Others
<1>2. /\ row \in [c.orders -> Bench(c)!Row] /\ x \in Bench(c)!Row /\ sent \in 0..c.requests /\ others \in 0..c.others
      /\ c.others \in Nat /\ c.requests \in Nat /\ page \in Bench(c)!Page
  BY BenchConstants DEF Bench!IInv, Bench!TypeOK
<1>3. IsFiniteSet(requests) /\ Cardinality(Unanswered(requests)) \in Nat
  BY BenchLinks, BenchUnanswered DEF Bench!IInv
<1>4. \A p \in c.orders : row[p].link[2] \in Nat /\ row[p].link[2] <= others + sent
  <2>1. ASSUME NEW p \in c.orders PROVE row[p].link[2] \in Nat /\ row[p].link[2] <= others + sent
    <3>1. PICK m \in Nat : m = row[p].link[2]
      BY <1>2 DEF Bench!Row, Bench!Link
    <3>2. m + Cardinality(Unanswered(requests)) <= others + sent
      BY <3>1, BenchLinks DEF Bench!IInv
    <3> QED BY <1>2, <1>3, <3>1, <3>2
  <2> QED BY <2>1
<1>5. c.patient => Bench(c)!IsOwn(x, o)
  BY DEF Bench!IInv, Bench!OwnInv
<1>6. \E y : Good(y) /\ row' = [row EXCEPT ![o] = y]
  <2>1. CASE \E to \in c.statuses : row' = [row EXCEPT ![o] = Bench(c)!WithStatus(@, to)]
    <3>1. PICK to \in c.statuses : row' = [row EXCEPT ![o] = Bench(c)!WithStatus(x, to)]
      BY <2>1
    <3>2. Good(Bench(c)!WithStatus(x, to))
      BY <1>2, <1>5 DEF Bench!WithStatus, Bench!Row, Bench!IsOwn
    <3> QED BY <3>1, <3>2
  <2>2. CASE /\ "waiting_payment" \in c.statuses
             /\ row' = [row EXCEPT ![o].status = "waiting_payment", ![o].submitted = TRUE, ![o].receipt = TRUE]
    <3> DEFINE y == [x EXCEPT !.status = "waiting_payment", !.submitted = TRUE, !.receipt = TRUE]
    <3>1. Good(y)
      BY <1>2, <1>5, <2>2 DEF Bench!Row, Bench!IsOwn
    <3>2. row' = [row EXCEPT ![o] = y]
      BY <1>2, <2>2
    <3> QED BY <3>1, <3>2
  <2>3. CASE row' = [row EXCEPT ![o].final = TRUE]
    <3> DEFINE y == [x EXCEPT !.final = TRUE]
    <3>1. Good(y)
      BY <1>2, <1>5, <2>3 DEF Bench!Row, Bench!IsOwn
    <3>2. row' = [row EXCEPT ![o] = y]
      BY <1>2, <2>3
    <3> QED BY <3>1, <3>2
  <2>4. CASE \E s \in c.sections, v \in c.versions : row' = [row EXCEPT ![o].values[s] = <<o, v>>]
    <3>1. PICK s \in c.sections, v \in c.versions : row' = [row EXCEPT ![o].values[s] = <<o, v>>]
      BY <2>4
    <3> DEFINE y == [x EXCEPT !.values[s] = <<o, v>>]
    <3>2. <<o, v>> \in Bench(c)!Value
      BY DEF Bench!Value
    <3>3. Good(y)
      BY <1>2, <1>5, <3>2 DEF Bench!Row, Bench!IsOwn
    <3>4. row' = [row EXCEPT ![o] = y]
      BY <1>2, <3>1
    <3> QED BY <3>3, <3>4
  <2>5. CASE row' = [row EXCEPT ![o].link = <<o, @[2] + 1>>]
    <3> DEFINE y == [x EXCEPT !.link = <<o, x.link[2] + 1>>]
    <3>1. x.link[2] + 1 \in 0..c.others + c.requests
      BY <1>1, <1>2, <1>4
    <3>2. <<o, x.link[2] + 1>> \in Bench(c)!Link
      BY <3>1 DEF Bench!Link
    <3>3. Good(y)
      BY <1>2, <1>5, <3>2 DEF Bench!Row, Bench!IsOwn
    <3>4. row' = [row EXCEPT ![o] = y]
      BY <1>2, <2>5
    <3> QED BY <3>3, <3>4
  <2> QED BY <2>1, <2>2, <2>3, <2>4, <2>5 DEF Bench!Others
<1>7. PICK y : Good(y) /\ row' = [row EXCEPT ![o] = y]
  BY <1>6
<1>8. row' \in [c.orders -> Bench(c)!Row] /\ \A p \in c.orders : row'[p] = IF p = o THEN y ELSE row[p]
  BY <1>2, <1>7
<1>9. Bench(c)!TypeOK'
  <2>1. others' \in 0..c.others
    BY <1>1, <1>2
  <2> QED BY <1>1, <1>8, <2>1 DEF Bench!IInv, Bench!TypeOK
<1>10. Bench(c)!LinksFollow'
  <2>1. PICK k \in Nat : k = Cardinality(Unanswered(requests))
    BY <1>3
  <2>2. ASSUME NEW p \in c.orders PROVE row'[p].link[2] + k <= (others + 1) + sent
    <3>1. PICK m \in Nat, n \in Nat : m = row[p].link[2] /\ n = row'[p].link[2] /\ n \in {m, m + 1}
      BY <1>4, <1>7, <1>8
    <3>2. m + k <= others + sent
      BY <2>1, <3>1, BenchLinks DEF Bench!IInv
    <3>3. n + k <= (others + 1) + sent
      BY <1>2, <3>1, <3>2
    <3> QED BY <3>1, <3>3
  <2>3. \A p \in c.orders : row'[p].link[2] + Cardinality(Unanswered(requests')) <= others' + sent'
    BY <1>1, <2>1, <2>2, Zenon
  <2> QED BY <1>1, <1>3, <2>3, BenchLinksNext, Zenon
<1>11. Bench(c)!FieldsThere' /\ Bench(c)!SavingMatches'
  BY <1>1 DEF Bench!IInv, Bench!FieldsThere, Bench!SavingMatches, Bench!Changes
<1>12. Bench(c)!ConfirmedStays' /\ Bench(c)!ShippedIsWarned'
  <2>1. \A p \in c.orders : row[p].confirmed => row'[p].confirmed
    BY <1>7, <1>8
  <2>2. page.order # Bench(c)!NoRecord => page.order.id \in c.orders
    BY <1>2, BenchPage
  <2>3. \A r \in requests : r.order \in c.orders
    BY DEF Bench!IInv, Bench!TypeOK
  <2> QED BY <1>1, <2>1, <2>2, <2>3 DEF Bench!IInv, Bench!ConfirmedStays, Bench!ShippedIsWarned
<1>13. ASSUME c.patient PROVE Bench(c)!OwnInv'
  <2>1. Bench(c)!OwnInv
    BY <1>13 DEF Bench!IInv
  <2>2. \A p \in c.orders : Bench(c)!IsOwn(row'[p], p)
    BY <1>7, <1>8, <1>13, <2>1 DEF Bench!OwnInv
  <2> QED BY <1>1, <2>1, <2>2 DEF Bench!OwnInv, Bench!IsOwn
<1>14. (\A r \in requests : Bench(c)!RequestFits(r))'
  BY <1>1 DEF Bench!IInv, Bench!RequestFits
<1> QED BY <1>9, <1>10, <1>11, <1>12, <1>13, <1>14 DEF Bench!IInv

\* An answer is handled: its request is gone.
LEMMA BenchRemoved ==
    ASSUME NEW c, Bench(c)!WorkbenchAssumption, Bench(c)!IInv, NEW r \in requests,
           requests' = requests \ {r}, UNCHANGED <<row, warned, sent, others, visits>>
    PROVE  /\ IsFiniteSet(requests') /\ Bench(c)!LinksFollow'
           /\ \A s \in requests' :
                 /\ s.id \in 1..sent' /\ s.n \in 1..visits' /\ s.visit \in 1..visits' /\ s.kind \in Bench(c)!Kinds
                 /\ s.order \in c.orders /\ s.answer \in {"none", "ok", "refused", "lost"}
                 /\ s.told = None \/ s.told \in Bench(c)!Row
                 /\ Bench(c)!RequestFits(s)
                 /\ s.answer = "ok" /\ s.told.confirmed => row'[s.order].confirmed
                 /\ s.section = "status" /\ s.value = "shipped" /\ s.order \in c.split =>
                       row'[s.order].confirmed \/ s.order \in warned'
<1>1. IsFiniteSet(requests)
  BY BenchLinks DEF Bench!IInv
<1>2. /\ IsFiniteSet(requests \ {r}) /\ Cardinality(Unanswered(requests)) \in Nat
      /\ Cardinality(Unanswered(requests \ {r})) \in Nat
      /\ Cardinality(Unanswered(requests \ {r})) <= Cardinality(Unanswered(requests))
  BY <1>1, BenchUnanswered
<1>3. Bench(c)!LinksFollow'
  <2>1. PICK j \in Nat, k \in Nat : j = Cardinality(Unanswered(requests))
          /\ k = Cardinality(Unanswered(requests')) /\ k <= j
    BY <1>2
  <2>2. ASSUME NEW p \in c.orders PROVE row[p].link[2] + k <= others + sent
    <3>1. PICK m \in Nat : m = row[p].link[2]
      BY DEF Bench!IInv, Bench!TypeOK, Bench!Row, Bench!Link
    <3>2. m + j <= others + sent
      BY <2>1, <3>1, BenchLinks DEF Bench!IInv
    <3>3. others \in Nat /\ sent \in Nat
      BY BenchConstants DEF Bench!IInv, Bench!TypeOK
    <3>4. m + k <= others + sent
      BY <2>1, <3>1, <3>2, <3>3
    <3> QED BY <3>1, <3>4
  <2>3. \A p \in c.orders : row'[p].link[2] + Cardinality(Unanswered(requests')) <= others' + sent'
    BY <2>1, <2>2, Zenon
  <2> QED BY <1>2, <2>3, BenchLinksNext, Zenon
<1>4. ASSUME NEW s \in requests
      PROVE  /\ s.id \in 1..sent /\ s.n \in 1..visits /\ s.visit \in 1..visits /\ s.kind \in Bench(c)!Kinds
             /\ s.order \in c.orders /\ s.answer \in {"none", "ok", "refused", "lost"}
             /\ s.told = None \/ s.told \in Bench(c)!Row
             /\ Bench(c)!RequestFits(s)
             /\ s.answer = "ok" /\ s.told.confirmed => row[s.order].confirmed
             /\ s.section = "status" /\ s.value = "shipped" /\ s.order \in c.split =>
                   row[s.order].confirmed \/ s.order \in warned
  BY DEF Bench!IInv, Bench!TypeOK, Bench!ConfirmedStays
<1> QED BY <1>2, <1>3, <1>4

\* The rest of the invariant, once the page is known to be sound.
LEMMA BenchEnds ==
    ASSUME NEW c, Bench(c)!WorkbenchAssumption, Bench(c)!IInv, NEW r \in requests,
           requests' = requests \ {r}, UNCHANGED <<row, warned, early, sent, lost, others, visits>>,
           page' \in Bench(c)!Page, page'.n = page.n, page'.at = page.at, page.n = 0 => page' = page,
           clipboard' \in [id : c.orders, row : Bench(c)!Link] \cup {Bench(c)!NoRecord},
           Bench(c)!FieldsThere', OneChange(c)',
           page'.order # Bench(c)!NoRecord /\ page'.order.row.confirmed => row[page'.order.id].confirmed,
           c.patient /\ page'.saving # None => page'.order # Bench(c)!NoRecord,
           c.patient /\ page.n # 0 /\ page'.order # Bench(c)!NoRecord =>
              /\ page'.order.id = page.at /\ Bench(c)!IsOwn(page'.order.row, page.at)
              /\ \A s \in c.sections : page'.form.values[s][1] = page.at
    PROVE  Bench(c)!IInv'
<1>1. /\ IsFiniteSet(requests') /\ Bench(c)!LinksFollow'
      /\ \A s \in requests' :
            /\ s.id \in 1..sent' /\ s.n \in 1..visits' /\ s.visit \in 1..visits' /\ s.kind \in Bench(c)!Kinds
            /\ s.order \in c.orders /\ s.answer \in {"none", "ok", "refused", "lost"}
            /\ s.told = None \/ s.told \in Bench(c)!Row
            /\ Bench(c)!RequestFits(s)
            /\ s.answer = "ok" /\ s.told.confirmed => row'[s.order].confirmed
            /\ s.section = "status" /\ s.value = "shipped" /\ s.order \in c.split =>
                  row'[s.order].confirmed \/ s.order \in warned'
  BY BenchRemoved
<1>2. Bench(c)!TypeOK'
  BY <1>1 DEF Bench!IInv, Bench!TypeOK
<1>3. Bench(c)!SavingMatches'
  BY <1>1, BenchOneNext
<1>4. Bench(c)!ConfirmedStays' /\ Bench(c)!ShippedIsWarned'
  BY <1>1 DEF Bench!IInv, Bench!ConfirmedStays, Bench!ShippedIsWarned
<1>5. ASSUME c.patient PROVE Bench(c)!OwnInv'
  <2>1. Bench(c)!OwnInv
    BY <1>5 DEF Bench!IInv
  <2> QED BY <1>5, <2>1 DEF Bench!OwnInv, Bench!IsOwn
<1> QED BY <1>1, <1>2, <1>3, <1>4, <1>5 DEF Bench!IInv

\* A load ends.
LEMMA BenchLoadEnds ==
    ASSUME NEW c, Bench(c)!WorkbenchAssumption, Bench(c)!IInv, NEW r \in requests, Bench(c)!LoadEnds(r)
    PROVE  Bench(c)!IInv'
<1>1. /\ r.kind = "load" /\ requests' = requests \ {r}
      /\ page' = IF ~Bench(c)!NotAborted(r) THEN page
                 ELSE IF r.answer = "ok"
                 THEN [page EXCEPT !.loading = FALSE, !.order = Bench(c)!Record(r.order, r.told),
                                   !.form = Bench(c)!Form(r.told)]
                 ELSE [page EXCEPT !.loading = FALSE]
      /\ UNCHANGED <<row, clipboard, warned, early, sent, lost, others, visits>>
  BY DEF Bench!LoadEnds, Bench!LoadingAfter
<1>2. /\ page \in Bench(c)!Page /\ r.order \in c.orders /\ r.n # 0
      /\ r.answer = "ok" => r.told \in Bench(c)!Row
      /\ r.answer = "ok" /\ r.told.confirmed => row[r.order].confirmed
  BY DEF Bench!IInv, Bench!TypeOK, Bench!RequestFits, Bench!ConfirmedStays
<1>3. /\ page' \in Bench(c)!Page /\ page'.n = page.n /\ page'.at = page.at /\ page'.saving = page.saving
      /\ page.n = 0 => page' = page
      /\ \/ page'.order = page.order /\ page'.form = page.form
         \/ /\ Bench(c)!NotAborted(r) /\ r.answer = "ok" /\ page'.order = Bench(c)!Record(r.order, r.told)
            /\ page'.form = Bench(c)!Form(r.told)
  <2>1. CASE ~Bench(c)!NotAborted(r)
    BY <1>1, <1>2, <2>1
  <2>2. CASE Bench(c)!NotAborted(r) /\ r.answer = "ok"
    <3>1. Bench(c)!Record(r.order, r.told) \in [id : c.orders, row : Bench(c)!Row]
            /\ Bench(c)!Form(r.told) \in Bench(c)!Fields
      BY <1>2, <2>2, BenchRow DEF Bench!Record
    <3>2. page.n # 0
      BY <1>2, <2>2 DEF Bench!NotAborted
    <3> QED BY <1>1, <1>2, <2>2, <3>1, <3>2 DEF Bench!Page
  <2>3. CASE Bench(c)!NotAborted(r) /\ r.answer # "ok"
    <3>1. page.n # 0
      BY <1>2, <2>3 DEF Bench!NotAborted
    <3> QED BY <1>1, <1>2, <2>3, <3>1 DEF Bench!Page
  <2> QED BY <2>1, <2>2, <2>3
<1>4. Bench(c)!Changes' = Bench(c)!Changes
  BY <1>1, <1>3 DEF Bench!Changes
<1>5. OneChange(c)'
  BY <1>3, <1>4, BenchOne, BenchLinks DEF Bench!IInv, OneChange
<1>6. Bench(c)!FieldsThere'
  BY <1>2, <1>3, <1>4, BenchRow DEF Bench!IInv, Bench!FieldsThere
<1>7. page'.order # Bench(c)!NoRecord /\ page'.order.row.confirmed => row[page'.order.id].confirmed
  <2>1. CASE page'.order = page.order
    BY <2>1 DEF Bench!IInv, Bench!ConfirmedStays
  <2>2. CASE page'.order = Bench(c)!Record(r.order, r.told) /\ r.answer = "ok"
    BY <1>2, <2>2 DEF Bench!Record
  <2> QED BY <1>3, <2>1, <2>2
<1>8. ASSUME c.patient
      PROVE  /\ page'.saving # None => page'.order # Bench(c)!NoRecord
             /\ page.n # 0 /\ page'.order # Bench(c)!NoRecord =>
                   /\ page'.order.id = page.at /\ Bench(c)!IsOwn(page'.order.row, page.at)
                   /\ \A s \in c.sections : page'.form.values[s][1] = page.at
  <2>1. Bench(c)!OwnInv
    BY <1>8 DEF Bench!IInv
  <2>2. CASE page'.order = page.order /\ page'.form = page.form
    BY <1>3, <2>1, <2>2 DEF Bench!OwnInv
  <2>3. CASE /\ Bench(c)!NotAborted(r) /\ r.answer = "ok" /\ page'.order = Bench(c)!Record(r.order, r.told)
             /\ page'.form = Bench(c)!Form(r.told)
    <3>1. r.order = page.at /\ Bench(c)!IsOwn(r.told, r.order)
      BY <2>1, <2>3 DEF Bench!OwnInv, Bench!NotAborted
    <3>2. page'.order # Bench(c)!NoRecord /\ page'.order.id = r.order /\ page'.order.row = r.told
          /\ page'.form.values = r.told.values
      BY <1>2, <2>3, BenchNothing DEF Bench!Record, Bench!Form
    <3> QED BY <3>1, <3>2 DEF Bench!IsOwn
  <2> QED BY <1>3, <2>2, <2>3
<1>9. clipboard' \in [id : c.orders, row : Bench(c)!Link] \cup {Bench(c)!NoRecord}
  BY <1>1 DEF Bench!IInv, Bench!TypeOK
<1> QED BY <1>1, <1>3, <1>5, <1>6, <1>7, <1>8, <1>9, BenchEnds

\* A change ends.
LEMMA BenchSaveEnds ==
    ASSUME NEW c, Bench(c)!WorkbenchAssumption, Bench(c)!IInv, NEW r \in requests, Bench(c)!SaveEnds(r)
    PROVE  Bench(c)!IInv'
<1> DEFINE given == Bench(c)!Record(r.order, r.told)
<1>1. /\ r.kind # "load" /\ requests' = requests \ {r}
      /\ page' = IF page.n # r.n THEN page
                 ELSE IF r.answer = "ok" THEN Bench(c)!Saved(r)
                 ELSE [page EXCEPT !.saving = None]
      /\ clipboard' = IF r.kind = "requestFinal" /\ r.answer = "ok" THEN Bench(c)!Message(given) ELSE clipboard
      /\ UNCHANGED <<row, warned, early, sent, lost, others, visits>>
  BY DEF Bench!SaveEnds, Bench!SavingAfter, Bench!Mounted
<1>2. /\ page \in Bench(c)!Page /\ r.order \in c.orders /\ r.n # 0 /\ r.kind \in Bench(c)!Kinds
      /\ r.answer = "ok" => r.told \in Bench(c)!Row
      /\ r.answer = "ok" /\ r.told.confirmed => row[r.order].confirmed
  BY DEF Bench!IInv, Bench!TypeOK, Bench!RequestFits, Bench!ConfirmedStays
<1>3. page.n = r.n => Bench(c)!Changes = {r} /\ page.form \in Bench(c)!Fields /\ page.n # 0 /\ page.saving # None
  <2>1. OneChange(c)
    BY BenchOne, BenchLinks DEF Bench!IInv
  <2>2. page.n = r.n => r \in Bench(c)!Changes
    BY <1>1 DEF Bench!Changes
  <2>3. page.n = r.n => Bench(c)!Changes = {r} /\ page.saving # None
    BY <1>2, <2>1, <2>2 DEF OneChange
  <2> QED BY <1>2, <2>3 DEF Bench!IInv, Bench!FieldsThere
<1>4. /\ r.answer = "ok" => given \in [id : c.orders, row : Bench(c)!Row] /\ given # Bench(c)!NoRecord
      /\ r.answer = "ok" => given.id = r.order /\ given.row = r.told
      /\ r.answer = "ok" => Bench(c)!Form(r.told) \in Bench(c)!Fields
  BY <1>2, BenchRow, BenchNothing DEF Bench!Record
<1>5. \/ page' = page /\ page.n # r.n
      \/ /\ page.n = r.n /\ page' \in Bench(c)!Page /\ page'.n = page.n /\ page'.at = page.at /\ page'.saving = None
         /\ \/ page'.order = page.order /\ page'.form = page.form
            \/ r.answer = "ok" /\ page'.order = given /\ page'.form \in {page.form, Bench(c)!Form(r.told)}
            \/ /\ r.answer = "ok" /\ page.order # Bench(c)!NoRecord /\ page'.form = page.form
               /\ page'.order = [page.order EXCEPT !.row.link = r.told.link]
  <2>1. CASE page.n # r.n
    BY <1>1, <2>1
  <2>2. CASE page.n = r.n /\ r.answer # "ok"
    BY <1>1, <1>2, <2>2 DEF Bench!Page
  <2>3. CASE page.n = r.n /\ r.answer = "ok" /\ r.kind = "save"
    <3>1. page' = [page EXCEPT !.saving = None, !.order = given, !.form = Bench(c)!Form(r.told),
                               !.editing = page.editing \ ({r.section} \cap {"customer", "internal"})]
      BY <1>1, <2>3 DEF Bench!Saved, Bench!SavingAfter
    <3>2. page.editing \ ({r.section} \cap {"customer", "internal"}) \subseteq c.sections
      BY <1>2, BenchPage
    <3> HIDE DEF given
    <3> QED BY <1>2, <1>4, <2>3, <3>1, <3>2 DEF Bench!Page
  <2>4. CASE page.n = r.n /\ r.answer = "ok" /\ r.kind = "link"
    <3>1. page' = [page EXCEPT !.saving = None,
                      !.order = IF page.order = Bench(c)!NoRecord THEN page.order
                                ELSE [page.order EXCEPT !.row.link = r.told.link]]
      BY <1>1, <2>4 DEF Bench!Saved, Bench!SavingAfter
    <3>2. CASE page.order = Bench(c)!NoRecord
      BY <1>2, <2>4, <3>1, <3>2 DEF Bench!Page
    <3>3. CASE page.order # Bench(c)!NoRecord
      <4>1. [page.order EXCEPT !.row.link = r.told.link] \in [id : c.orders, row : Bench(c)!Row]
        <5>1. page.order \in [id : c.orders, row : Bench(c)!Row]
          BY <1>2, <3>3, BenchPage
        <5>2. r.told.link \in Bench(c)!Link
          BY <1>2, <2>4, BenchRow
        <5> QED BY <5>1, <5>2 DEF Bench!Row
      <4> QED BY <1>2, <2>4, <3>1, <3>3, <4>1 DEF Bench!Page
    <3> QED BY <3>2, <3>3
  <2>5. CASE page.n = r.n /\ r.answer = "ok" /\ r.kind \notin {"save", "link"}
    <3>1. page' = [page EXCEPT !.saving = None, !.order = given]
      BY <1>1, <2>5 DEF Bench!Saved, Bench!SavingAfter
    <3> HIDE DEF given
    <3> QED BY <1>2, <1>4, <2>5, <3>1 DEF Bench!Page
  <2> QED BY <2>1, <2>2, <2>3, <2>4, <2>5
<1>6. page' \in Bench(c)!Page /\ page'.n = page.n /\ page'.at = page.at /\ (page.n = 0 => page' = page)
  BY <1>2, <1>3, <1>5
<1>7. OneChange(c)'
  <2>1. CASE page' = page /\ page.n # r.n
    <3>1. Bench(c)!Changes' = Bench(c)!Changes
      BY <1>1, <2>1 DEF Bench!Changes
    <3> QED BY <2>1, <3>1, BenchOne, BenchLinks DEF Bench!IInv, OneChange
  <2>2. CASE page.n = r.n /\ page'.saving = None
    <3>1. Bench(c)!Changes' = {}
      BY <1>1, <1>3, <1>6, <2>2 DEF Bench!Changes
    <3> QED BY <2>2, <3>1 DEF OneChange
  <2> QED BY <1>5, <2>1, <2>2
<1>8. Bench(c)!FieldsThere'
  <2>1. Bench(c)!Changes' \subseteq Bench(c)!Changes
    BY <1>1, <1>6 DEF Bench!Changes
  <2> QED BY <1>3, <1>4, <1>5, <2>1 DEF Bench!IInv, Bench!FieldsThere
<1>9. page'.order # Bench(c)!NoRecord /\ page'.order.row.confirmed => row[page'.order.id].confirmed
  <2>1. page.order # Bench(c)!NoRecord /\ page.order.row.confirmed => row[page.order.id].confirmed
    BY DEF Bench!IInv, Bench!ConfirmedStays
  <2>2. CASE page'.order = page.order
    BY <2>1, <2>2
  <2>3. CASE r.answer = "ok" /\ page'.order = given
    BY <1>2, <1>4, <2>3
  <2>4. CASE page.order # Bench(c)!NoRecord /\ page'.order = [page.order EXCEPT !.row.link = r.told.link]
    <3>1. page.order \in [id : c.orders, row : Bench(c)!Row]
      BY <1>2, <2>4, BenchPage
    <3>2. page'.order.id = page.order.id /\ page'.order.row.confirmed = page.order.row.confirmed
      BY <2>4, <3>1 DEF Bench!Row
    <3> QED BY <2>1, <2>4, <3>2
  <2> QED BY <1>5, <2>2, <2>3, <2>4
<1>10. ASSUME c.patient
       PROVE  /\ page'.saving # None => page'.order # Bench(c)!NoRecord
              /\ page.n # 0 /\ page'.order # Bench(c)!NoRecord =>
                    /\ page'.order.id = page.at /\ Bench(c)!IsOwn(page'.order.row, page.at)
                    /\ \A s \in c.sections : page'.form.values[s][1] = page.at
  <2>1. Bench(c)!OwnInv
    BY <1>10 DEF Bench!IInv
  <2>2. CASE page' = page
    BY <2>1, <2>2 DEF Bench!OwnInv
  <2>3. CASE page.n = r.n /\ page'.saving = None
    <3>1. page.order # Bench(c)!NoRecord /\ r.order = page.at /\ (r.answer = "ok" => Bench(c)!IsOwn(r.told, page.at))
      BY <1>1, <1>3, <2>1, <2>3 DEF Bench!OwnInv
    <3>2. /\ page.order.id = page.at /\ Bench(c)!IsOwn(page.order.row, page.at)
          /\ \A s \in c.sections : page.form.values[s][1] = page.at
      BY <1>3, <2>1, <2>3, <3>1 DEF Bench!OwnInv
    <3>3. r.answer = "ok" => \A s \in c.sections : Bench(c)!Form(r.told).values[s][1] = page.at
      BY <3>1 DEF Bench!Form, Bench!IsOwn
    <3>4. CASE page'.order = page.order /\ page'.form = page.form
      BY <2>3, <3>2, <3>4
    <3>5. CASE r.answer = "ok" /\ page'.order = given /\ page'.form \in {page.form, Bench(c)!Form(r.told)}
      BY <1>4, <2>3, <3>1, <3>2, <3>3, <3>5
    <3>6. CASE /\ r.answer = "ok" /\ page'.form = page.form
               /\ page'.order = [page.order EXCEPT !.row.link = r.told.link]
      <4>1. page.order \in [id : c.orders, row : Bench(c)!Row]
        BY <1>2, <3>1, BenchPage
      <4>2. /\ page'.order.id = page.order.id /\ page'.order.row.values = page.order.row.values
            /\ page'.order.row.link = r.told.link
        BY <3>6, <4>1 DEF Bench!Row
      <4> QED BY <2>3, <3>1, <3>2, <3>6, <4>2 DEF Bench!IsOwn
    <3> QED BY <1>5, <2>3, <3>4, <3>5, <3>6, <1>3
  <2> QED BY <1>5, <2>2, <2>3
<1>11. clipboard' \in [id : c.orders, row : Bench(c)!Link] \cup {Bench(c)!NoRecord}
  <2>1. clipboard \in [id : c.orders, row : Bench(c)!Link] \cup {Bench(c)!NoRecord}
    BY DEF Bench!IInv, Bench!TypeOK
  <2>2. r.answer = "ok" => Bench(c)!Message(given) \in [id : c.orders, row : Bench(c)!Link]
    BY <1>2, <1>4, BenchRow DEF Bench!Message
  <2> QED BY <1>1, <2>1, <2>2
<1> QED BY <1>1, <1>6, <1>7, <1>8, <1>9, <1>10, <1>11, BenchEnds

\* Every step of the page, of the server and of others.
LEMMA BenchStep ==
    ASSUME NEW c, Bench(c)!WorkbenchAssumption, Bench(c)!IInv, Bench(c)!Next
    PROVE  Bench(c)!IInv'
<1>1. ASSUME NEW o \in c.orders, Bench(c)!Go(o) \/ Bench(c)!Others(o) PROVE Bench(c)!IInv'
  BY <1>1, BenchGo, BenchOthers
<1>2. CASE \/ Bench(c)!SaveStatus \/ Bench(c)!RotateLink \/ Bench(c)!RequestFinal \/ Bench(c)!ConfirmFinal
           \/ \E s \in c.sections : Bench(c)!SaveSection(s)
  BY <1>2, BenchSends
<1>3. CASE \/ \E s \in c.sections : Bench(c)!Edit(s) \/ Bench(c)!CancelEdit(s) \/ \E v \in c.versions : Bench(c)!Type(s, v)
           \/ \E to \in c.statuses : Bench(c)!SelectStatus(to)
  BY <1>3, BenchFields
<1>4. CASE Bench(c)!Leave \/ Bench(c)!CopyMessage
  BY <1>4, BenchLeave, BenchCopy
<1>5. ASSUME NEW r \in requests,
             Bench(c)!Serve(r) \/ Bench(c)!Lose(r) \/ Bench(c)!LoadEnds(r) \/ Bench(c)!SaveEnds(r)
      PROVE  Bench(c)!IInv'
  BY <1>5, BenchServe, BenchLose, BenchLoadEnds, BenchSaveEnds
<1> QED BY <1>1, <1>2, <1>3, <1>4, <1>5 DEF Bench!Next

\* Nothing changes while a behaviour is of another part, or stutters.
LEMMA BenchStutter ==
    ASSUME NEW c, Bench(c)!IInv, UNCHANGED orderVars
    PROVE  Bench(c)!IInv'
<1>1. UNCHANGED <<row, page, clipboard, requests, warned, early, sent, lost, others, visits>>
  BY DEF orderVars
<1> QED BY <1>1 DEF Bench!IInv, Bench!TypeOK, Bench!FieldsThere, Bench!SavingMatches, Bench!LinksFollow,
            Bench!ConfirmedStays, Bench!ShippedIsWarned, Bench!RequestFits, Bench!Changes, Bench!OwnInv, Bench!IsOwn

\* The conjuncts of WorkbenchSafe.
LEMMA BenchSafe ==
    ASSUME NEW c, Bench(c)!WorkbenchAssumption, Bench(c)!IInv
    PROVE  /\ Bench(c)!TypeOK /\ Bench(c)!SavingMatches
           /\ c.patient => Bench(c)!RecordIsOwn
           /\ Bench(c)!ShippedIsWarned /\ Bench(c)!OfferedIsGranted
<1>1. c.patient => Bench(c)!RecordIsOwn
  BY DEF Bench!IInv, Bench!OwnInv, Bench!IsOwn, Bench!RecordIsOwn, Bench!Shown
<1>2. ASSUME NEW o \in c.orders
      PROVE  /\ ~row[o].requested =>
                   (Bench(c)!FinalRequestOffered(o, row[o]) <=> Bench(c)!FinalRequestAllowed(o, row[o]))
             /\ ~row[o].confirmed =>
                   (Bench(c)!FinalConfirmOffered(o, row[o]) <=> Bench(c)!FinalConfirmAllowed(o, row[o]))
             /\ \A to \in c.statuses \ {row[o].status} :
                   Bench(c)!StatusOffered(row[o], to) <=> Bench(c)!StatusAllowed(row[o], to)
  <2>1. row[o] \in Bench(c)!Row
    BY DEF Bench!IInv, Bench!TypeOK
  <2> QED BY <2>1 DEF Bench!FinalRequestOffered, Bench!FinalRequestAllowed, Bench!FinalConfirmOffered,
               Bench!FinalConfirmAllowed, Bench!StatusOffered, Bench!StatusAllowed, Bench!Row, Bench!Later
<1> QED BY <1>1, <1>2 DEF Bench!IInv, Bench!OfferedIsGranted

-----------------------------------------------------------------------------
(* The list (OrderList) *)

\* The instance counts and chooses as this module does.
LEMMA ListSets ==
    ASSUME NEW S
    PROVE  /\ List!IsFiniteSet(S) <=> IsFiniteSet(S)
           /\ List!Cardinality(S) = Cardinality(S)
BY Zenon DEF List!IsFiniteSet, IsFiniteSet, List!Cardinality, Cardinality

\* The lesser of two numbers.
LEMMA ListMin ==
    ASSUME NEW i \in Nat, NEW j \in Nat
    PROVE  List!Min({i, j}) = IF i <= j THEN i ELSE j
<1> DEFINE m == IF i <= j THEN i ELSE j
<1>1. m \in {i, j} /\ \A y \in {i, j} : m <= y
  OBVIOUS
<1>2. \A x \in {i, j} : (\A y \in {i, j} : x <= y) => x = m
  OBVIOUS
<1> QED BY <1>1, <1>2 DEF List!Min

\* What the constants of the list are.
LEMMA ListConstants ==
    ASSUME List!ListAssumption
    PROVE  /\ Listed \subseteq Nat /\ IsFiniteSet(Listed) /\ Cardinality(Listed) \in Nat
           /\ Due \in [Listed -> Nat] /\ ListAmount \in [Listed -> Nat]
           /\ FirstListed \in [Listed -> ListStatuses]
           /\ "" \in Texts /\ \A q \in Texts : Matching[q] \subseteq Listed
           /\ PageSize \in Nat /\ PageSize > 0
           /\ ListRequests \in Nat /\ ListRequests > 0 /\ ListLosses \in Nat /\ ListChanges \in Nat
<1>1. IsFiniteSet(Listed)
  BY ListSets, Zenon DEF List!ListAssumption
<1>2. Cardinality(Listed) \in Nat
  BY <1>1, FS_CardinalityType
<1>3. Listed \subseteq Nat
  BY DEF List!ListAssumption
<1>4. /\ Due \in [Listed -> Nat] /\ ListAmount \in [Listed -> Nat]
      /\ FirstListed \in [Listed -> ListStatuses]
  BY DEF List!ListAssumption
<1>5. "" \in Texts /\ \A q \in Texts : Matching[q] \subseteq Listed
  BY DEF List!ListAssumption
<1>6. PageSize \in Nat \ {0} /\ ListRequests \in Nat \ {0} /\ ListLosses \in Nat /\ ListChanges \in Nat
  BY DEF List!ListAssumption
<1>7. PageSize > 0 /\ ListRequests > 0
  BY <1>6
<1> QED BY <1>1, <1>2, <1>3, <1>4, <1>5, <1>6, <1>7

\* The bounds that follow.
LEMMA ListBounds ==
    ASSUME List!ListAssumption
    PROVE  /\ List!Cardinality(Listed) = Cardinality(Listed) /\ Cardinality(Listed) \in Nat
           /\ 0 \in 0..Cardinality(Listed) /\ 0 \in 0..ListChanges /\ 0 \in 0..ListLosses
           /\ 1 \in 1..ListRequests /\ 1 \in 0..ListRequests
<1>1. Cardinality(Listed) \in Nat /\ ListRequests \in Nat /\ ListRequests > 0 /\ ListLosses \in Nat
        /\ ListChanges \in Nat
  BY ListConstants
<1>2. List!Cardinality(Listed) = Cardinality(Listed)
  BY ListSets
<1> QED BY <1>1, <1>2

\* Every sort puts the orders in one order.
LEMMA ListBefore ==
    ASSUME List!ListAssumption, changed \in [Listed -> Nat], NEW sort
    PROVE  /\ \A o \in Listed : ~List!Before(sort, o, o)
           /\ \A o, p \in Listed : o # p => List!Before(sort, o, p) \/ List!Before(sort, p, o)
           /\ \A o, p, q \in Listed :
                 List!Before(sort, o, p) /\ List!Before(sort, p, q) => List!Before(sort, o, q)
<1>1. \A o \in Listed : o \in Nat /\ Due[o] \in Nat /\ ListAmount[o] \in Nat /\ changed[o] \in Nat
  BY ListConstants
<1>2. CASE sort = "due"
  <2> DEFINE put(x) == status[x] \in List!ArchiveStatuses
  <2>1. ASSUME NEW o, NEW p
        PROVE  List!Before("due", o, p) <=>
                  IF put(o) THEN put(p) /\ (IF Due[o] # Due[p] THEN Due[o] < Due[p] ELSE o > p)
                  ELSE put(p) \/ (IF Due[o] # Due[p] THEN Due[o] < Due[p] ELSE o > p)
    <3>1. CASE put(o) /\ put(p)
      BY <3>1 DEF List!Before
    <3>2. CASE put(o) /\ ~put(p)
      BY <3>2 DEF List!Before
    <3>3. CASE ~put(o) /\ put(p)
      BY <3>3 DEF List!Before
    <3>4. CASE ~put(o) /\ ~put(p)
      BY <3>4 DEF List!Before
    <3> QED BY <3>1, <3>2, <3>3, <3>4
  <2> HIDE DEF put
  <2> QED BY <1>1, <1>2, <2>1
<1>3. CASE sort = "updated"
  <2>1. \A o, p : List!Before("updated", o, p) <=>
           IF changed[o] # changed[p] THEN changed[o] > changed[p] ELSE o > p
    BY DEF List!Before
  <2> QED BY <1>1, <1>3, <2>1
<1>4. CASE sort = "amount"
  <2>1. \A o, p : List!Before("amount", o, p) <=>
           IF ListAmount[o] # ListAmount[p] THEN ListAmount[o] > ListAmount[p] ELSE o > p
    BY DEF List!Before
  <2> QED BY <1>1, <1>4, <2>1
<1>5. CASE sort \notin {"due", "updated", "amount"}
  <2>1. \A o, p : List!Before(sort, o, p) <=> o > p
    BY <1>5 DEF List!Before
  <2> QED BY <1>1, <2>1
<1> QED BY <1>2, <1>3, <1>4, <1>5

\* What is found is some of the orders.
LEMMA ListFound ==
    ASSUME List!ListAssumption, NEW query, query.q \in Texts
    PROVE  /\ List!Matches(query) \subseteq Listed /\ IsFiniteSet(List!Matches(query))
           /\ Cardinality(List!Matches(query)) \in Nat
           /\ Cardinality(List!Matches(query)) <= Cardinality(Listed)
<1>1. List!Matches(query) \in SUBSET Listed
  BY ListConstants DEF List!Matches
<1>2. IsFiniteSet(Listed)
  BY ListConstants
<1>3. IsFiniteSet(List!Matches(query)) /\ Cardinality(List!Matches(query)) <= Cardinality(Listed)
  BY <1>1, <1>2, FS_Subset
<1> QED BY <1>1, <1>3, FS_CardinalityType

\* A listing has every order that matches, once, and each comes before those after it.
THEOREM ListSorted ==
    ASSUME List!ListAssumption, changed \in [Listed -> Nat], NEW query, query.q \in Texts
    PROVE  /\ List!Listing(query) \in Seq(List!Matches(query))
           /\ Len(List!Listing(query)) = Cardinality(List!Matches(query))
           /\ \A o \in List!Matches(query) : \E i \in 1..Len(List!Listing(query)) : List!Listing(query)[i] = o
           /\ \A i, j \in 1..Len(List!Listing(query)) :
                 i < j => List!Before(query.sort, List!Listing(query)[i], List!Listing(query)[j])
<1> DEFINE listing == List!Listing(query)
<1>1. PICK S : S = List!Matches(query)
  OBVIOUS
<1>2. S \subseteq Listed /\ IsFiniteSet(S)
  BY <1>1, ListFound
<1>3. PICK R : R = {w \in Listed \X Listed : List!Before(query.sort, w[1], w[2])}
  OBVIOUS
<1>4. \A x, y \in S : <<x, y>> \in R <=> List!Before(query.sort, x, y)
  BY <1>2, <1>3
<1>5. /\ \A x \in S : <<x, x>> \notin R
      /\ \A x, y \in S : x # y => <<x, y>> \in R \/ <<y, x>> \in R
      /\ \A x, y, z \in S : <<x, y>> \in R /\ <<y, z>> \in R => <<x, z>> \in R
  BY <1>2, <1>4, ListBefore
<1>6. Ranked(S, R)
  <2>1. Ordered(S, R)
    BY <1>5 DEF Ordered
  <2> QED BY <1>2, <2>1, Ranks
<1>7. \A x \in S : {p \in S : List!Before(query.sort, p, x)} = Lower(S, R, x)
  BY <1>4 DEF Lower
<1>8. \A x \in S : List!Cardinality({p \in S : List!Before(query.sort, p, x)}) = Rank(S, R, x)
  BY <1>7, ListSets DEF Rank
<1>9. listing = [i \in 1..Cardinality(S) |-> CHOOSE o \in S : List!Cardinality({p \in S
        : List!Before(query.sort, p, o)}) = i - 1]
  BY <1>1, ListSets DEF List!Listing
<1>10. listing = [i \in 1..Cardinality(S) |-> CHOOSE o \in S : Rank(S, R, o) = i - 1]
  <2>1. ASSUME NEW i PROVE (CHOOSE o \in S : List!Cardinality({p \in S : List!Before(query.sort, p, o)}) = i - 1)
                           = (CHOOSE o \in S : Rank(S, R, o) = i - 1)
    BY <1>8
  <2> QED BY <1>9, <2>1
<1> HIDE DEF listing
<1>11. ASSUME NEW i \in 1..Cardinality(S) PROVE listing[i] \in S /\ Rank(S, R, listing[i]) = i - 1
  <2>1. i - 1 \in 0..Cardinality(S) - 1
    BY <1>6 DEF Ranked
  <2>2. \E x \in S : Rank(S, R, x) = i - 1
    BY <1>6, <2>1 DEF Ranked
  <2> QED BY <1>10, <2>2
<1>12. listing \in [1..Cardinality(S) -> S]
  BY <1>10, <1>11
<1>13. listing \in Seq(S) /\ Len(listing) = Cardinality(S)
  BY <1>6, <1>12 DEF Ranked
<1>14. ASSUME NEW o \in S PROVE \E i \in 1..Cardinality(S) : listing[i] = o
  <2>1. Rank(S, R, o) + 1 \in 1..Cardinality(S) /\ Rank(S, R, o) = (Rank(S, R, o) + 1) - 1
    BY <1>6 DEF Ranked
  <2> QED BY <1>6, <1>11, <2>1 DEF Ranked
<1>15. ASSUME NEW i \in 1..Cardinality(S), NEW j \in 1..Cardinality(S), i < j
       PROVE  List!Before(query.sort, listing[i], listing[j])
  <2>1. listing[i] \in S /\ listing[j] \in S /\ Rank(S, R, listing[i]) < Rank(S, R, listing[j])
    BY <1>6, <1>11, <1>15 DEF Ranked
  <2>2. listing[i] # listing[j] /\ ~(Rank(S, R, listing[j]) < Rank(S, R, listing[i]))
    BY <1>6, <2>1 DEF Ranked
  <2>3. <<listing[i], listing[j]>> \in R
    BY <1>5, <1>6, <2>1, <2>2 DEF Ranked
  <2> QED BY <1>4, <2>1, <2>3
<1> QED BY <1>1, <1>13, <1>14, <1>15 DEF listing

\* The n elements after the first k of s, and whether there are more.
Continues(s, k, n, rest, first) ==
    /\ Len(first) \in Nat
    /\ Len(first) = 0 \/ k + Len(first) <= Len(s)
    /\ k <= Len(s) =>
          /\ k + Len(first) <= Len(s)
          /\ Len(rest) > n <=> k + Len(first) < Len(s)
          /\ SubSeq(s, 1, k) \o first = SubSeq(s, 1, k + Len(first))

\* A page of a list, put after the pages before it.
LEMMA NextPage ==
    ASSUME NEW S, NEW s \in Seq(S), NEW k \in Nat, NEW n \in Nat, n > 0, NEW rest, NEW first,
           rest = SubSeq(s, k + 1, Len(s)),
           first = SubSeq(rest, 1, IF n <= Len(rest) THEN n ELSE Len(rest))
    PROVE  /\ rest \in Seq(S) /\ first \in Seq(S)
           /\ Continues(s, k, n, rest, first)
<1>1. Len(s) \in Nat /\ \A i \in 1..Len(s) : s[i] \in S
  OBVIOUS
<1>2. /\ rest \in Seq(S) /\ Len(rest) = IF k + 1 <= Len(s) THEN Len(s) - (k + 1) + 1 ELSE 0
      /\ \A i \in 1..Len(s) - (k + 1) + 1 : rest[i] = s[(k + 1) + i - 1]
  <2>1. k + 1 \in Int /\ Len(s) \in Int /\ \A i \in k + 1..Len(s) : s[i] \in S
    BY <1>1
  <2> QED BY <2>1, SubSeqProperties
<1>3. PICK m \in Nat :
         /\ m = IF n <= Len(rest) THEN n ELSE Len(rest)
         /\ m <= Len(rest) /\ (m = 0 => Len(rest) = 0)
  <2>1. rest \in Seq(S)
    BY <1>2
  <2>2. Len(rest) \in Nat
    BY <2>1
  <2>3. CASE n <= Len(rest)
    BY <2>2, <2>3
  <2>4. CASE ~(n <= Len(rest))
    <3>1. (IF n <= Len(rest) THEN n ELSE Len(rest)) = Len(rest) /\ Len(rest) <= Len(rest)
      BY <2>2, <2>4
    <3> QED BY <2>2, <3>1
  <2> QED BY <2>3, <2>4
<1>4. /\ first \in Seq(S) /\ Len(first) = m
      /\ \A i \in 1..m : first[i] = rest[i]
  <2>1. 1 \in Int /\ m \in Int /\ \A i \in 1..m : rest[i] \in S
    BY <1>2, <1>3
  <2>2. /\ SubSeq(rest, 1, m) \in Seq(S) /\ Len(SubSeq(rest, 1, m)) = m
        /\ \A i \in 1..m : SubSeq(rest, 1, m)[i] = rest[i]
    BY <1>2, <1>3, <2>1
  <2>3. first = SubSeq(rest, 1, m)
    BY <1>3
  <2> QED BY <1>3, <2>2, <2>3
<1>5. ASSUME k <= Len(s)
      PROVE  /\ k + m <= Len(s) /\ (Len(rest) > n <=> k + m < Len(s))
             /\ SubSeq(s, 1, k) \o first = SubSeq(s, 1, k + m)
  <2>1. Len(rest) = Len(s) - k
    BY <1>1, <1>2, <1>5
  <2>2. k + m <= Len(s) /\ (Len(rest) > n <=> k + m < Len(s))
    BY <1>1, <1>3, <2>1
  <2>3. first = SubSeq(s, k + 1, k + m)
    <3>1. k + 1 \in Int /\ k + m \in Int /\ \A i \in k + 1..k + m : s[i] \in S
      BY <1>1, <1>3, <2>2
    <3>2. /\ SubSeq(s, k + 1, k + m) \in Seq(S)
          /\ Len(SubSeq(s, k + 1, k + m)) = IF k + 1 <= k + m THEN (k + m) - (k + 1) + 1 ELSE 0
          /\ \A i \in 1..(k + m) - (k + 1) + 1 : SubSeq(s, k + 1, k + m)[i] = s[(k + 1) + i - 1]
      BY <3>1, SubSeqProperties
    <3>3. Len(SubSeq(s, k + 1, k + m)) = m
      BY <1>3, <3>2
    <3>4. \A i \in 1..m : first[i] = SubSeq(s, k + 1, k + m)[i]
      BY <1>1, <1>2, <1>3, <1>4, <2>2, <3>2
    <3> QED BY <1>4, <3>2, <3>3, <3>4, SeqEqual
  <2>4. 1 \in 1..Len(s) + 1 /\ k \in 1 - 1..Len(s) /\ k + m \in k..Len(s)
    BY <1>1, <1>3, <1>5, <2>2
  <2> QED BY <2>2, <2>3, <2>4, ConcatAdjacentSubSeq
<1>6. Len(first) = 0 \/ k + Len(first) <= Len(s)
  BY <1>1, <1>2, <1>3, <1>4, <1>5
<1> QED BY <1>2, <1>3, <1>4, <1>5, <1>6 DEF Continues

\* The page of a listing that comes after k orders.
Answers(listing, k, rest, first) ==
    /\ listing \in Seq(Listed) /\ Len(listing) \in Nat /\ Len(rest) \in Nat
    /\ first \in Seq(Listed) /\ (Len(first) = 0 \/ k + Len(first) <= Cardinality(Listed))
    /\ Continues(listing, k, PageSize, rest, first)

\* What the server answers from a listing.
LEMMA ListAnswer ==
    ASSUME List!ListAssumption, changed \in [Listed -> Nat], NEW query, query.q \in Texts, NEW k \in Nat,
           NEW listing, listing = List!Listing(query), NEW rest, rest = SubSeq(listing, k + 1, Len(listing)),
           NEW first, first = List!FirstPage(rest)
    PROVE  Answers(listing, k, rest, first)
<1>1. listing \in Seq(Listed) /\ Len(listing) \in Nat /\ Len(listing) <= Cardinality(Listed)
  <2>1. /\ listing \in Seq(List!Matches(query)) /\ Len(listing) = Cardinality(List!Matches(query))
    BY ListSorted
  <2>2. /\ List!Matches(query) \subseteq Listed /\ Cardinality(List!Matches(query)) \in Nat
        /\ Cardinality(List!Matches(query)) <= Cardinality(Listed)
    BY ListFound
  <2> QED BY <2>1, <2>2, SeqMonotonic
<1>2. PageSize \in Nat /\ PageSize > 0 /\ Cardinality(Listed) \in Nat
  BY ListConstants
<1>3. rest \in Seq(Listed)
  <2>1. k + 1 \in Int /\ Len(listing) \in Int /\ \A i \in k + 1..Len(listing) : listing[i] \in Listed
    BY <1>1
  <2> QED BY <2>1, SubSeqProperties
<1>4. Len(rest) \in Nat
  BY <1>3
<1>5. first = SubSeq(rest, 1, IF PageSize <= Len(rest) THEN PageSize ELSE Len(rest))
  BY <1>2, <1>4, ListMin DEF List!FirstPage
<1>6. first \in Seq(Listed) /\ Continues(listing, k, PageSize, rest, first)
  BY <1>1, <1>2, <1>5, NextPage
<1>7. Len(first) = 0 \/ k + Len(first) <= Cardinality(Listed)
  BY <1>1, <1>2, <1>6 DEF Continues
<1> QED BY <1>1, <1>4, <1>6, <1>7 DEF Answers

\* The shop's active orders are some of the orders.
LEMMA ListActive ==
    ASSUME List!ListAssumption, NEW shop
    PROVE  List!ActiveCount(shop) \in 0..Cardinality(Listed)
<1>1. {o \in Listed : ShopOf[o] = shop /\ List!InView(o, "active")} \in SUBSET Listed /\ IsFiniteSet(Listed)
  BY ListConstants
<1>2. PICK A \in SUBSET Listed : A = {o \in Listed : ShopOf[o] = shop /\ List!InView(o, "active")}
  BY <1>1
<1>3. IsFiniteSet(A) /\ Cardinality(A) <= Cardinality(Listed) /\ Cardinality(A) \in Nat /\ Cardinality(Listed) \in Nat
  BY <1>1, FS_Subset, FS_CardinalityType
<1>4. List!ActiveCount(shop) = Cardinality(A)
  BY <1>2, ListSets DEF List!ActiveCount
<1> QED BY <1>3, <1>4

\* What is listed depends on the orders alone.
LEMMA ListSame ==
    ASSUME UNCHANGED <<status, changed>>
    PROVE  /\ \A query : (List!Listing(query))' = List!Listing(query)
           /\ \A shop : (List!ActiveCount(shop))' = List!ActiveCount(shop)
<1>1. \A o, view : (List!InView(o, view))' <=> List!InView(o, view)
  BY DEF List!InView
<1>2. \A query : (List!Matches(query))' = List!Matches(query)
  BY <1>1 DEF List!Matches, List!InView
<1>3. \A sort, o, p : (List!Before(sort, o, p))' = List!Before(sort, o, p)
  BY DEF List!Before
<1>4. ASSUME NEW query PROVE (List!Listing(query))' = List!Listing(query)
  <2>1. PICK S : S = List!Matches(query)
    OBVIOUS
  <2>2. (List!Matches(query))' = S
    BY <1>2, <2>1
  <2>3. \A o : {p \in S : (List!Before(query.sort, p, o))'} = {p \in S : List!Before(query.sort, p, o)}
    BY <1>3
  <2> DEFINE f(i) == CHOOSE o \in S : List!Cardinality({p \in S : (List!Before(query.sort, p, o))'}) = i - 1
             g(i) == CHOOSE o \in S : List!Cardinality({p \in S : List!Before(query.sort, p, o)}) = i - 1
  <2>4. (List!Listing(query))' = [i \in 1..List!Cardinality(S) |-> f(i)]
    BY <2>2 DEF List!Listing
  <2>5. List!Listing(query) = [i \in 1..List!Cardinality(S) |-> g(i)]
    BY <2>1 DEF List!Listing
  <2>6. \A i : f(i) = g(i)
    BY <2>3
  <2> HIDE DEF f, g
  <2> QED BY <2>4, <2>5, <2>6
<1>5. ASSUME NEW shop PROVE (List!ActiveCount(shop))' = List!ActiveCount(shop)
  <2>1. {o \in Listed : ShopOf[o] = shop /\ (List!InView(o, "active"))'} = {o \in Listed : ShopOf[o] = shop
          /\ List!InView(o, "active")}
    BY <1>1
  <2> QED BY <2>1 DEF List!ActiveCount
<1> QED BY <1>4, <1>5

\* What is asked for at an address; the status is taken with the view it belongs to.
LEMMA ListQuery ==
    ASSUME List!ListAssumption, NEW at \in List!Address, NEW d \in Texts
    PROVE  /\ List!Query(at, d) \in List!Queries /\ List!Query(at, d).q = d /\ List!Query(at, d).shop = at.shop
           /\ [List!Query(at, d) EXCEPT !.status = at.status]
                = [shop |-> at.shop, view |-> IF d # "" THEN "all" ELSE at.view, sort |-> List!QuerySort(at, d),
                   q |-> d, status |-> at.status]
           /\ ~List!InvalidStatus(at) => List!Query(at, d) = [List!Query(at, d) EXCEPT !.status = at.status]
<1>1. List!QuerySort(at, d) \in List!Sorts
  <2>1. List!AllowedSorts(d, at.view) \subseteq List!Sorts /\ List!DefaultSort(d, at.view) \in List!Sorts
    BY DEF List!AllowedSorts, List!DefaultSort, List!Sorts
  <2> QED BY <2>1 DEF List!QuerySort
<1>2. /\ at.shop \in List!Shops /\ at.view \in {"active", "archive"} /\ at.status \in ListStatuses \cup {""}
  BY DEF List!Address
<1>3. PICK view, to :
         /\ view = (IF d # "" THEN "all" ELSE at.view)
         /\ to = (IF List!InvalidStatus(at) THEN "" ELSE at.status)
  OBVIOUS
<1>4. view \in {"all", "active", "archive"} /\ to \in ListStatuses \cup {""}
  BY <1>2, <1>3
<1>5. List!Query(at, d) = [shop |-> at.shop, view |-> view, sort |-> List!QuerySort(at, d), q |-> d, status |-> to]
  BY <1>3 DEF List!Query
<1>6. List!Query(at, d) \in List!Queries /\ List!Query(at, d).q = d /\ List!Query(at, d).shop = at.shop
  <2>1. PICK shop, sort : shop = at.shop /\ sort = List!QuerySort(at, d)
    OBVIOUS
  <2>2. PICK query : query = List!Query(at, d)
    OBVIOUS
  <2>3. query = [shop |-> shop, view |-> view, sort |-> sort, q |-> d, status |-> to]
    BY <1>5, <2>1, <2>2
  <2>4. query \in [shop : List!Shops, view : {"all", "active", "archive"}, sort : List!Sorts, q : Texts,
                   status : ListStatuses \cup {""}]
    BY <1>1, <1>2, <1>4, <2>1, <2>3
  <2>5. query.q = d /\ query.shop = shop
    BY <2>3
  <2> QED BY <2>1, <2>2, <2>4, <2>5 DEF List!Queries
<1>7. [List!Query(at, d) EXCEPT !.status = at.status]
         = [shop |-> at.shop, view |-> view, sort |-> List!QuerySort(at, d), q |-> d, status |-> at.status]
  BY <1>5
<1>8. ~List!InvalidStatus(at) => List!Query(at, d) = [List!Query(at, d) EXCEPT !.status = at.status]
  BY <1>3, <1>5, <1>7
<1> QED BY <1>3, <1>6, <1>7, <1>8

\* A status that has to be of the view, when nothing is searched.
LEMMA ListSteady ==
    ASSUME NEW at, NEW d, List!Cleared(at, d),
           d # "" \/ at.status \in List!ViewStatuses(at.view) \cup {""}
    PROVE  ~List!InvalidStatus(at)
BY DEF List!InvalidStatus, List!Cleared

\* The list's record.
LEMMA ListEmpty ==
    ASSUME List!ListAssumption, clock \in 0..ListChanges
    PROVE  /\ List!EmptyList \in List!Page
           /\ List!EmptyList.orders = <<>> /\ ~List!EmptyList.hasMore /\ List!EmptyList.loading
           /\ ~List!EmptyList.more /\ ~List!EmptyList.error
<1>1. 0 \in 0..Cardinality(Listed) /\ List!Cardinality(Listed) = Cardinality(Listed)
  BY ListBounds
<1>2. <<>> \in Seq(Listed)
  OBVIOUS
<1> QED BY <1>1, <1>2 DEF List!EmptyList, List!Page

\* A request that is sent.
LEMMA ListSent ==
    ASSUME List!ListAssumption, NEW id \in 1..ListRequests, NEW kind \in {"list", "more"}, NEW t \in Nat,
           NEW query \in List!Queries, NEW k \in Nat, NEW r,
           r = [id |-> id, kind |-> kind, ticket |-> t, query |-> query, offset |-> k, answer |-> "none",
                orders |-> <<>>, hasMore |-> FALSE, count |-> 0]
    PROVE  /\ r \in List!Requests /\ List!RequestFits(r)
           /\ r.id = id /\ r.kind = kind /\ r.ticket = t /\ r.query = query /\ r.offset = k /\ r.answer = "none"
           /\ r.orders = <<>>
<1>1. 0 \in 0..Cardinality(Listed) /\ List!Cardinality(Listed) = Cardinality(Listed)
  BY ListBounds
<1>2. <<>> \in Seq(Listed) /\ Len(<<>>) = 0
  OBVIOUS
<1> QED BY <1>1, <1>2 DEF List!Requests, List!RequestFits

\* The page opens on any address.
LEMMA ListInit ==
    ASSUME List!ListAssumption, List!Init
    PROVE  List!IInv
<1>1. /\ status = FirstListed /\ changed = [o \in Listed |-> 0] /\ clock = 0 /\ address \in List!Address
      /\ deferred = address.q /\ list = List!EmptyList /\ ticket = 1 /\ listSent = 1 /\ listLost = 0
      /\ listRequests = {[id |-> 1, kind |-> "list", ticket |-> 1, query |-> List!Query(address, deferred),
              offset |-> 0,
                          answer |-> "none", orders |-> <<>>, hasMore |-> FALSE, count |-> 0]}
  BY DEF List!Init
<1>2. PICK r :
         /\ listRequests = {r} /\ r \in List!Requests /\ List!RequestFits(r)
         /\ r.id = 1 /\ r.kind = "list" /\ r.ticket = 1 /\ r.query = List!Query(address, deferred) /\ r.offset = 0
  <2>1. deferred \in Texts /\ List!Query(address, deferred) \in List!Queries
    BY <1>1, ListQuery DEF List!Address
  <2>2. 1 \in 1..ListRequests
    BY ListBounds
  <2>3. PICK r : r = [id |-> 1, kind |-> "list", ticket |-> 1, query |-> List!Query(address, deferred), offset |-> 0,
                      answer |-> "none", orders |-> <<>>, hasMore |-> FALSE, count |-> 0]
    OBVIOUS
  <2>4. /\ r \in List!Requests /\ List!RequestFits(r)
        /\ r.id = 1 /\ r.kind = "list" /\ r.ticket = 1 /\ r.query = List!Query(address, deferred) /\ r.offset = 0
    BY <2>1, <2>2, <2>3, ListSent
  <2> QED BY <1>1, <2>3, <2>4
<1>3. /\ list \in List!Page /\ list.orders = <<>> /\ ~list.hasMore /\ list.loading /\ ~list.more
  <2>1. clock \in 0..ListChanges
    BY <1>1, ListBounds
  <2> QED BY <1>1, <2>1, ListEmpty
<1>4. List!TypeOK
  <2>1. status \in [Listed -> ListStatuses] /\ changed \in [Listed -> 0..ListChanges] /\ clock \in 0..ListChanges
    <3>1. FirstListed \in [Listed -> ListStatuses]
      BY ListConstants
    <3> QED BY <1>1, <3>1, ListBounds
  <2>2. deferred \in Texts
    BY <1>1 DEF List!Address
  <2>3. Len(list.orders) <= List!Cardinality(Listed)
    <3>1. Len(<<>>) = 0
      OBVIOUS
    <3> QED BY <1>3, <3>1, ListBounds
  <2>4. listSent \in 0..ListRequests /\ listLost \in 0..ListLosses
    BY <1>1, ListBounds
  <2> QED BY <1>1, <1>2, <1>3, <2>1, <2>2, <2>3, <2>4 DEF List!TypeOK
<1>5. List!Awaited
  <2>1. ASSUME List!Steady PROVE List!Query(address, deferred) = List!Asked
    <3>1. List!Cleared(address, deferred) /\ deferred \in Texts
      BY <1>1 DEF List!Cleared, List!Address
    <3>2. ~List!InvalidStatus(address)
      BY <2>1, <3>1, ListSteady DEF List!Steady
    <3> QED BY <1>1, <3>1, <3>2, ListQuery DEF List!Asked
  <2> QED BY <1>1, <1>2, <1>3, <2>1 DEF List!Awaited
<1>6. List!PageFits
  BY <1>3 DEF List!PageFits
<1> QED BY <1>1, <1>2, <1>4, <1>5, <1>6 DEF List!IInv, List!Cleared

\* While no order changes, the answers given before fit.
LEMMA ListFitsSame ==
    ASSUME UNCHANGED <<status, changed, clock>>, NEW r, List!RequestFits(r)
    PROVE  (List!RequestFits(r))'
BY ListSame DEF List!RequestFits, List!AnswerFits

\* The page while what is asked for is the same.
LEMMA ListPageSame ==
    ASSUME UNCHANGED <<status, changed, clock, list>>, List!PageFits, List!Asked' = List!Asked,
           List!Steady' => List!Steady, address'.shop = address.shop
    PROVE  List!PageFits'
BY ListSame DEF List!PageFits

\* What a step that shows another address leaves of the page: all of it or nothing.
LEMMA ListShow ==
    ASSUME List!ListAssumption, List!IInv, NEW at \in List!Address, NEW d \in Texts, NEW reload \in BOOLEAN,
           List!Cleared(at, d), List!Show(at, d, reload)
    PROVE  List!IInv'
<1>1. /\ address' = at /\ deferred' = d /\ status' = status /\ changed' = changed /\ clock' = clock
      /\ listLost' = listLost
  BY DEF List!Show, List!server
<1>2. List!TypeOK /\ (\A r \in listRequests : List!RequestFits(r)) /\ List!Awaited /\ List!PageFits
  BY DEF List!IInv
<1>3. ASSUME NEW r, List!RequestFits(r) PROVE List!RequestFits(r)'
  BY <1>1, <1>3, ListFitsSame
<1>4. List!Asked' = [List!Query(at, d) EXCEPT !.status = at.status]
  BY <1>1 DEF List!Asked
<1>5. List!Steady' <=> d # "" \/ at.status \in List!ViewStatuses(at.view) \cup {""}
  BY <1>1 DEF List!Steady
<1>6. List!Cleared(address, deferred)'
  BY <1>1 DEF List!Cleared
<1>7. CASE List!Key(at, d) = List!Key(address, deferred) /\ ~reload
  <2>1. /\ list' = list /\ ticket' = ticket /\ listRequests' = listRequests /\ listSent' = listSent
    BY <1>7 DEF List!Show
  <2>2. /\ d = deferred /\ List!QuerySort(at, d) = List!QuerySort(address, deferred) /\ at.shop = address.shop
        /\ at.status = address.status /\ at.view = address.view
    BY <1>7 DEF List!Key
  <2>3. List!Asked' = List!Asked
    <3>1. address \in List!Address /\ deferred \in Texts
      BY <1>2 DEF List!TypeOK
    <3>2. List!Asked = [shop |-> address.shop, view |-> IF deferred # "" THEN "all" ELSE address.view,
                        sort |-> List!QuerySort(address, deferred), q |-> deferred, status |-> address.status]
      BY <3>1, ListQuery DEF List!Asked
    <3>3. List!Asked' = [shop |-> at.shop, view |-> IF d # "" THEN "all" ELSE at.view,
                        sort |-> List!QuerySort(at, d), q |-> d, status |-> at.status]
      BY <1>4, ListQuery
    <3> QED BY <2>2, <3>2, <3>3
  <2>4. List!Steady' <=> List!Steady
    BY <1>5, <2>2 DEF List!Steady
  <2>5. List!PageFits'
    BY <1>1, <1>2, <2>1, <2>2, <2>3, <2>4, ListPageSame
  <2>6. List!Awaited'
    BY <1>2, <2>1, <2>3, <2>4 DEF List!Awaited
  <2>7. List!TypeOK'
    BY <1>1, <1>2, <2>1 DEF List!TypeOK
  <2>8. \A r \in listRequests' : List!RequestFits(r)'
    BY <1>2, <1>3, <2>1
  <2> QED BY <1>6, <2>5, <2>6, <2>7, <2>8 DEF List!IInv
<1>8. CASE ~(List!Key(at, d) = List!Key(address, deferred) /\ ~reload)
  <2>1. /\ listSent < ListRequests /\ listSent' = listSent + 1 /\ ticket' = ticket + 2
        /\ list' = List!EmptyList
        /\ listRequests' = {r \in listRequests : r.kind # "list"} \cup {List!Request("list", 0)}
    BY <1>8 DEF List!Show, List!NewList
  <2>2. /\ ticket \in Nat /\ listRequests \subseteq List!Requests /\ clock \in 0..ListChanges
        /\ \A r \in listRequests : r.ticket <= ticket /\ r.id <= listSent
    BY <1>2 DEF List!TypeOK
  <2>11. PICK n \in Nat : n = listSent /\ listSent' = n + 1 /\ n + 1 \in 1..ListRequests /\ n + 1 \in 0..ListRequests
    <3>1. listSent \in 0..ListRequests /\ listSent < ListRequests /\ listSent' = listSent + 1
      BY <1>2, <2>1 DEF List!TypeOK
    <3>2. ListRequests \in Nat
      BY ListConstants
    <3> QED BY <3>1, <3>2
  <2>12. PICK t \in Nat : t = ticket /\ ticket' = t + 2 /\ t + 2 \in Nat /\ t < t + 2
    BY <2>1, <2>2
  <2>3. PICK s :
           /\ List!Request("list", 0) = s /\ s \in List!Requests /\ List!RequestFits(s)
           /\ s.id = n + 1 /\ s.kind = "list" /\ s.ticket = t + 2
           /\ s.query = List!Query(at, d) /\ s.offset = 0
    <3>1. PICK query \in List!Queries : query = List!Query(at, d)
      BY ListQuery
    <3>2. PICK s : s = [id |-> n + 1, kind |-> "list", ticket |-> t + 2, query |-> query, offset |-> 0,
                        answer |-> "none", orders |-> <<>>, hasMore |-> FALSE, count |-> 0]
      OBVIOUS
    <3>3. n + 1 \in 1..ListRequests /\ t + 2 \in Nat /\ 0 \in Nat /\ "list" \in {"list", "more"}
      BY <2>11, <2>12
    <3>4. /\ s \in List!Requests /\ List!RequestFits(s)
          /\ s.id = n + 1 /\ s.kind = "list" /\ s.ticket = t + 2 /\ s.query = query /\ s.offset = 0
      BY <3>2, <3>3, ListSent
    <3>5. List!Request("list", 0) = s
      BY <1>1, <2>11, <2>12, <3>1, <3>2 DEF List!Request
    <3> QED BY <3>1, <3>4, <3>5
  <2>4. \A r \in listRequests' : r = s \/ r \in listRequests
    BY <2>1, <2>3
  <2>5. \A r \in listRequests' : r.ticket = ticket' => r = s
    <3>1. \A r \in listRequests : r.ticket \in Nat /\ r.ticket <= t
      BY <2>2, <2>12 DEF List!Requests
    <3>2. \A r \in listRequests : r.ticket # t + 2
      BY <3>1
    <3> QED BY <2>4, <2>12, <3>2
  <2>6. /\ list' \in List!Page /\ list'.orders = <<>> /\ ~list'.hasMore /\ list'.loading
        /\ ~list'.more
    BY <2>1, <2>2, ListEmpty
  <2>7. List!TypeOK'
    <3>1. listRequests' \subseteq List!Requests
      BY <2>2, <2>3, <2>4
    <3>2. \A r \in listRequests' : r.ticket <= ticket' /\ r.id <= listSent'
      <4>1. \A r \in listRequests : r.ticket \in Nat /\ r.id \in Int /\ r.ticket <= t /\ r.id <= n
        BY <2>2, <2>11, <2>12 DEF List!Requests
      <4>2. \A r \in listRequests : r.ticket <= t + 2 /\ r.id <= n + 1
        BY <4>1
      <4> QED BY <2>3, <2>4, <2>11, <2>12, <4>2
    <3>3. ticket' \in Nat /\ listSent' \in 0..ListRequests
      BY <2>11, <2>12
    <3>4. Len(list'.orders) <= List!Cardinality(Listed)
      <4>1. List!Cardinality(Listed) \in Nat
        BY ListBounds
      <4>2. Len(list'.orders) = 0
        BY <2>6
      <4> QED BY <4>1, <4>2
    <3>5. /\ status' \in [Listed -> ListStatuses] /\ changed' \in [Listed -> 0..ListChanges]
          /\ clock' \in 0..ListChanges /\ listLost' \in 0..ListLosses
      BY <1>1, <1>2 DEF List!TypeOK
    <3> QED BY <1>1, <2>6, <3>1, <3>2, <3>3, <3>4, <3>5 DEF List!TypeOK
  <2>8. List!Awaited'
    <3>1. ASSUME List!Steady' PROVE s.query = List!Asked'
      <4>1. ~List!InvalidStatus(at)
        BY <1>5, <3>1, ListSteady
      <4>2. List!Query(at, d) = [List!Query(at, d) EXCEPT !.status = at.status]
        BY <4>1, ListQuery
      <4> QED BY <1>4, <2>3, <4>2
    <3>2. s.ticket = ticket'
      BY <2>3, <2>12
    <3> QED BY <2>3, <2>5, <2>6, <3>1, <3>2 DEF List!Awaited
  <2>9. List!PageFits'
    BY <2>6 DEF List!PageFits
  <2>10. \A r \in listRequests' : List!RequestFits(r)'
    BY <1>2, <1>3, <2>3, <2>4
  <2> QED BY <1>6, <2>7, <2>8, <2>9, <2>10 DEF List!IInv
<1> QED BY <1>7, <1>8

\* What is shown after a step is an address, and its status fits its view when nothing is searched.
LEMMA ListCleared ==
    ASSUME NEW at, NEW d, at.status = "" \/ at.q # "" \/ at.status \in List!ViewStatuses(at.view)
    PROVE  List!Cleared(at, d)
BY DEF List!Cleared, List!InvalidStatus

\* What the address is, and what is searched.
LEMMA ListTyping ==
    ASSUME List!ListAssumption, List!IInv
    PROVE  /\ address \in List!Address /\ deferred \in Texts /\ address.q \in Texts
           /\ List!Cleared(address, deferred)
           /\ ~List!InvalidStatus(address) =>
                 address.status = "" \/ address.q # "" \/ address.status \in List!ViewStatuses(address.view)
<1>1. address \in List!Address /\ deferred \in Texts /\ List!Cleared(address, deferred)
  BY DEF List!IInv, List!TypeOK
<1>2. address.q \in Texts
  BY <1>1 DEF List!Address
<1> QED BY <1>1, <1>2 DEF List!InvalidStatus

\* What follows the search in the address, and what is put right in it.
LEMMA ListCatch ==
    ASSUME List!ListAssumption, List!IInv, List!Catch \/ List!CleanAddress
    PROVE  List!IInv'
<1>1. CASE List!Catch
  <2>1. List!Show(address, address.q, FALSE)
    BY <1>1 DEF List!Catch
  <2>2. List!Cleared(address, address.q)
    BY DEF List!Cleared
  <2> QED BY <2>1, <2>2, ListShow, ListTyping
<1>2. CASE List!CleanAddress
  <2>1. PICK sort, s : /\ sort = (IF List!InvalidSort(address) THEN "" ELSE address.sort)
                       /\ s = (IF List!InvalidStatus(address) THEN "" ELSE address.status)
    OBVIOUS
  <2>2. PICK at : at = [address EXCEPT !.sort = sort, !.status = s]
    OBVIOUS
  <2>3. List!Show(at, deferred, FALSE)
    BY <1>2, <2>1, <2>2 DEF List!CleanAddress
  <2>4. address \in List!Address /\ deferred \in Texts
    BY ListTyping
  <2>5. sort \in List!Sorts \cup {""} /\ s \in ListStatuses \cup {""}
    BY <2>1, <2>4 DEF List!Address
  <2>6. at \in List!Address /\ at.q = address.q /\ at.view = address.view /\ at.status = s
    BY <2>2, <2>4, <2>5 DEF List!Address
  <2>7. s = "" \/ address.q # "" \/ s \in List!ViewStatuses(address.view)
    BY <2>1 DEF List!InvalidStatus
  <2>8. List!Cleared(at, deferred)
    BY <2>6, <2>7, ListCleared
  <2> QED BY <2>3, <2>4, <2>6, <2>8, ListShow
<1> QED BY <1>1, <1>2

\* What the operator types, chooses or clears (setFilter).
LEMMA ListFilter ==
    ASSUME List!ListAssumption, List!IInv,
           \/ \E q \in Texts : List!Search(q)
           \/ \E s \in ListStatuses \cup {""} : List!FilterStatus(s)
           \/ \E sort \in List!Sorts : List!SortBy(sort)
           \/ List!ClearFilters
    PROVE  List!IInv'
<1>1. /\ address \in List!Address /\ deferred \in Texts
      /\ address.sort \in List!Sorts \cup {""} /\ address.status \in ListStatuses \cup {""}
  BY ListTyping DEF List!Address
<1>2. ASSUME NEW q \in Texts, List!Search(q) PROVE List!IInv'
  <2>1. PICK cleared : cleared = [address EXCEPT !.q = ""]
    OBVIOUS
  <2>2. "" \in Texts
    BY ListConstants
  <2>3. /\ cleared \in List!Address /\ cleared.q = "" /\ cleared.sort = address.sort /\ cleared.status = address.status
        /\ cleared.view = address.view
    BY <1>1, <2>1, <2>2 DEF List!Address
  <2>4. CASE q # ""
    <3>1. PICK at : at = [address EXCEPT !.q = q]
      OBVIOUS
    <3>2. at \in List!Address /\ at.q = q
      BY <1>1, <3>1 DEF List!Address
    <3>3. List!Show(at, deferred, FALSE)
      BY <1>2, <2>4, <3>1 DEF List!Search
    <3>4. List!Cleared(at, deferred)
      BY <2>4, <3>2, ListCleared
    <3> QED BY <1>1, <3>2, <3>3, <3>4, ListShow
  <2>5. CASE q = ""
    <3>1. PICK sort, s : /\ sort = (IF List!InvalidSort(cleared) THEN "" ELSE cleared.sort)
                         /\ s = (IF List!InvalidStatus(cleared) THEN "" ELSE cleared.status)
      OBVIOUS
    <3>2. PICK at : at = [cleared EXCEPT !.status = s, !.sort = sort]
      OBVIOUS
    <3>3. sort \in List!Sorts \cup {""} /\ s \in ListStatuses \cup {""}
      BY <1>1, <2>3, <3>1
    <3>4. at \in List!Address /\ at.view = cleared.view /\ at.status = s
      BY <2>3, <3>2, <3>3 DEF List!Address
    <3>5. List!Show(at, deferred, FALSE)
      BY <1>2, <2>1, <2>5, <3>1, <3>2 DEF List!Search
    <3>6. s = "" \/ s \in List!ViewStatuses(cleared.view)
      BY <2>3, <3>1 DEF List!InvalidStatus
    <3>7. List!Cleared(at, deferred)
      BY <3>4, <3>6, ListCleared
    <3> QED BY <1>1, <3>4, <3>5, <3>7, ListShow
  <2> QED BY <2>4, <2>5
<1>3. ASSUME NEW s \in ListStatuses \cup {""}, List!FilterStatus(s) PROVE List!IInv'
  <2>1. PICK at : at = [address EXCEPT !.status = s]
    OBVIOUS
  <2>2. List!Show(at, deferred, FALSE) /\ (s = "" \/ address.q # "" \/ s \in List!ViewStatuses(address.view))
    BY <1>3, <2>1 DEF List!FilterStatus
  <2>3. at \in List!Address /\ at.q = address.q /\ at.view = address.view /\ at.status = s
    BY <1>1, <2>1 DEF List!Address
  <2>4. List!Cleared(at, deferred)
    BY <2>2, <2>3, ListCleared
  <2> QED BY <1>1, <2>2, <2>3, <2>4, ListShow
<1>4. ASSUME NEW sort \in List!Sorts, List!SortBy(sort) PROVE List!IInv'
  <2>1. PICK to : to = IF sort = List!DefaultSort(address.q, address.view) THEN "" ELSE sort
    OBVIOUS
  <2>2. PICK at : at = [address EXCEPT !.sort = to]
    OBVIOUS
  <2>3. List!Show(at, deferred, FALSE)
    BY <1>4, <2>1, <2>2 DEF List!SortBy
  <2>4. to \in List!Sorts \cup {""}
    BY <1>4, <2>1
  <2>5. at \in List!Address /\ at.q = address.q /\ at.view = address.view /\ at.status = address.status
    BY <1>1, <2>2, <2>4 DEF List!Address
  <2>6. List!Cleared(at, deferred)
    BY <2>5, ListTyping DEF List!Cleared, List!InvalidStatus
  <2> QED BY <1>1, <2>3, <2>5, <2>6, ListShow
<1>5. CASE List!ClearFilters
  <2>1. PICK at : at = [address EXCEPT !.q = "", !.status = "", !.sort = ""]
    OBVIOUS
  <2>2. List!Show(at, deferred, FALSE)
    BY <1>5, <2>1 DEF List!ClearFilters
  <2>3. "" \in Texts
    BY ListConstants
  <2>4. at \in List!Address /\ at.status = ""
    BY <1>1, <2>1, <2>3 DEF List!Address
  <2>5. List!Cleared(at, deferred)
    BY <2>4, ListCleared
  <2> QED BY <1>1, <2>2, <2>4, <2>5, ListShow
<1> QED BY <1>2, <1>3, <1>4, <1>5

\* Another view, another shop, and another attempt.
LEMMA ListView ==
    ASSUME List!ListAssumption, List!IInv,
           \/ \E view \in {"active", "archive"} : List!SetView(view)
           \/ \E shop \in List!Shops : List!ChangeShop(shop)
           \/ List!Retry
    PROVE  List!IInv'
<1>1. address \in List!Address /\ deferred \in Texts
  BY ListTyping
<1>2. ASSUME NEW view \in {"active", "archive"}, List!SetView(view) PROVE List!IInv'
  <2>1. PICK at : at = [address EXCEPT !.view = view, !.status = "", !.sort = ""]
    OBVIOUS
  <2>2. List!Show(at, deferred, FALSE)
    BY <1>2, <2>1 DEF List!SetView
  <2>3. at \in List!Address /\ at.status = ""
    BY <1>1, <1>2, <2>1 DEF List!Address
  <2>4. List!Cleared(at, deferred)
    BY <2>3, ListCleared
  <2> QED BY <1>1, <2>2, <2>3, <2>4, ListShow
<1>3. ASSUME NEW shop \in List!Shops, List!ChangeShop(shop) PROVE List!IInv'
  <2>1. PICK at : at = [shop |-> shop, view |-> "active", q |-> "", status |-> "", sort |-> ""]
    OBVIOUS
  <2>2. List!Show(at, deferred, FALSE)
    BY <1>3, <2>1 DEF List!ChangeShop
  <2>3. "" \in Texts
    BY ListConstants
  <2>4. at \in List!Address /\ at.status = ""
    BY <1>3, <2>1, <2>3 DEF List!Address
  <2>5. List!Cleared(at, deferred)
    BY <2>4, ListCleared
  <2> QED BY <1>1, <2>2, <2>4, <2>5, ListShow
<1>4. CASE List!Retry
  <2>1. List!Show(address, deferred, TRUE)
    BY <1>4 DEF List!Retry
  <2> QED BY <1>1, <2>1, ListShow, ListTyping
<1> QED BY <1>2, <1>3, <1>4

\* What is asked for is the one query of the list, while the status is of the view.
LEMMA ListAsks ==
    ASSUME List!ListAssumption, List!IInv
    PROVE  /\ List!Query(address, deferred) \in List!Queries
           /\ List!Steady => List!Query(address, deferred) = List!Asked
           /\ List!Asked.shop = address.shop /\ List!Asked.q \in Texts
<1>1. address \in List!Address /\ deferred \in Texts
  BY ListTyping
<1>2. List!Asked = [shop |-> address.shop, view |-> IF deferred # "" THEN "all" ELSE address.view,
                    sort |-> List!QuerySort(address, deferred), q |-> deferred, status |-> address.status]
  BY <1>1, ListQuery DEF List!Asked
<1>3. List!Asked.shop = address.shop /\ List!Asked.q \in Texts
  BY <1>1, <1>2
<1>4. ASSUME List!Steady PROVE List!Query(address, deferred) = List!Asked
  <2>1. ~List!InvalidStatus(address)
    BY <1>4, ListSteady, ListTyping DEF List!Steady
  <2> QED BY <1>1, <2>1, ListQuery DEF List!Asked
<1> QED BY <1>1, <1>3, <1>4, ListQuery

\* What is asked for, while the address is the same.
LEMMA ListAskedSame ==
    ASSUME UNCHANGED <<address, deferred>>
    PROVE  List!Asked' = List!Asked /\ (List!Steady' <=> List!Steady) /\ address'.shop = address.shop
           /\ (List!Cleared(address, deferred)' <=> List!Cleared(address, deferred))
BY DEF List!Asked, List!Steady, List!Cleared

\* A further page is asked for when nothing else is.
LEMMA ListMore ==
    ASSUME List!ListAssumption, List!IInv, List!LoadMore
    PROVE  List!IInv'
<1>1. /\ ~list.loading /\ list.hasMore /\ ~list.more
      /\ list' = [list EXCEPT !.more = TRUE, !.error = FALSE]
      /\ status' = status /\ changed' = changed /\ clock' = clock
      /\ address' = address /\ deferred' = deferred /\ ticket' = ticket /\ listLost' = listLost
  BY DEF List!LoadMore, List!server
<1>2. /\ listSent < ListRequests /\ listSent' = listSent + 1
      /\ listRequests' = listRequests \cup {List!Request("more", Len(list.orders))}
  BY DEF List!LoadMore, List!Offset
<1>3. List!TypeOK /\ (\A r \in listRequests : List!RequestFits(r)) /\ List!Awaited /\ List!PageFits
      /\ List!Cleared(address, deferred)
  BY DEF List!IInv
<1>4. list \in List!Page
  BY <1>3 DEF List!TypeOK
<1>5. /\ list' \in List!Page /\ list'.orders = list.orders /\ list'.hasMore = list.hasMore
      /\ list'.count = list.count /\ list'.loading = list.loading /\ list'.more /\ ~list'.error
  BY <1>1, <1>4 DEF List!Page
<1>6. PICK n \in Nat : n = listSent /\ listSent' = n + 1 /\ n + 1 \in 1..ListRequests /\ n + 1 \in 0..ListRequests
  <2>1. listSent \in 0..ListRequests /\ listSent < ListRequests /\ listSent' = listSent + 1
    BY <1>2, <1>3 DEF List!TypeOK
  <2>2. ListRequests \in Nat
    BY ListConstants
  <2> QED BY <2>1, <2>2
<1>7. PICK k \in Nat : k = Len(list.orders)
  BY <1>4 DEF List!Page
<1>8. PICK s :
         /\ listRequests' = listRequests \cup {s} /\ s \in List!Requests /\ List!RequestFits(s)
         /\ s.id = n + 1 /\ s.kind = "more" /\ s.ticket = ticket
         /\ s.query = List!Query(address, deferred) /\ s.offset = k
  <2>1. PICK query \in List!Queries : query = List!Query(address, deferred)
    BY ListAsks
  <2>2. PICK s : s = [id |-> n + 1, kind |-> "more", ticket |-> ticket, query |-> query, offset |-> k,
                      answer |-> "none", orders |-> <<>>, hasMore |-> FALSE, count |-> 0]
    OBVIOUS
  <2>3. n + 1 \in 1..ListRequests /\ ticket \in Nat /\ "more" \in {"list", "more"}
    BY <1>3, <1>6 DEF List!TypeOK
  <2>4. /\ s \in List!Requests /\ List!RequestFits(s)
        /\ s.id = n + 1 /\ s.kind = "more" /\ s.ticket = ticket /\ s.query = query /\ s.offset = k
    BY <2>2, <2>3, ListSent
  <2>5. List!Request("more", Len(list.orders)) = s
    BY <1>1, <1>6, <1>7, <2>1, <2>2 DEF List!Request
  <2> QED BY <1>2, <2>1, <2>4, <2>5
<1>9. \A r \in listRequests : r.ticket # ticket
  <2>1. \A r \in listRequests : r.kind \in {"list", "more"}
    BY <1>3 DEF List!TypeOK, List!Requests
  <2> QED BY <1>1, <1>3, <2>1 DEF List!Awaited
<1>10. List!TypeOK'
  <2>1. \A r \in listRequests : r.id \in Nat /\ r.id <= n /\ r.ticket <= ticket
    BY <1>3, <1>6 DEF List!TypeOK, List!Requests
  <2>2. \A r \in listRequests : r.id <= n + 1
    BY <2>1
  <2>3. s.ticket <= ticket /\ s.id <= n + 1
    <3>1. ticket \in Nat
      BY <1>3 DEF List!TypeOK
    <3> QED BY <1>8, <3>1
  <2>4. listRequests' \subseteq List!Requests /\ \A r \in listRequests' : r.ticket <= ticket /\ r.id <= n + 1
    BY <1>3, <1>8, <2>1, <2>2, <2>3 DEF List!TypeOK
  <2> QED BY <1>1, <1>3, <1>5, <1>6, <2>4 DEF List!TypeOK
<1>11. List!Awaited'
  <2>1. List!Steady' => s.query = List!Asked'
    BY <1>1, <1>8, ListAsks, ListAskedSame
  <2>2. \A r \in listRequests' : r.ticket = ticket' => r = s
    BY <1>1, <1>8, <1>9
  <2>3. s.kind = "more" /\ s.offset = Len(list'.orders)
    BY <1>5, <1>7, <1>8
  <2> QED BY <1>1, <1>5, <2>1, <2>2, <2>3 DEF List!Awaited
<1>12. List!PageFits'
  <2>1. \A query, shop : List!Listing(query)' = List!Listing(query) /\ List!ActiveCount(shop)' = List!ActiveCount(shop)
    BY <1>1, ListSame
  <2>2. List!Asked' = List!Asked /\ (List!Steady' <=> List!Steady)
    BY <1>1, ListAskedSame
  <2> QED BY <1>1, <1>3, <1>5, <2>1, <2>2 DEF List!PageFits
<1>13. \A r \in listRequests' : List!RequestFits(r)'
  BY <1>1, <1>3, <1>8, ListFitsSame
<1> QED BY <1>1, <1>3, <1>10, <1>11, <1>12, <1>13, ListAskedSame DEF List!IInv

\* An answer, or the loss of one, takes the place of its request.
LEMMA ListReplaced ==
    ASSUME List!ListAssumption, List!IInv, NEW r \in listRequests, NEW s \in List!Requests, List!RequestFits(s),
           s.id = r.id, s.kind = r.kind, s.ticket = r.ticket, s.query = r.query, s.offset = r.offset,
           listRequests' = (listRequests \ {r}) \cup {s}, listLost' \in 0..ListLosses,
           UNCHANGED <<status, changed, clock, address, deferred, list, ticket, listSent>>
    PROVE  List!IInv'
<1>1. List!TypeOK /\ (\A q \in listRequests : List!RequestFits(q)) /\ List!Awaited /\ List!PageFits
      /\ List!Cleared(address, deferred)
  BY DEF List!IInv
<1>2. List!Asked' = List!Asked /\ (List!Steady' <=> List!Steady) /\ address'.shop = address.shop
  BY ListAskedSame
<1>3. List!TypeOK'
  <2>1. listRequests' \subseteq List!Requests /\ \A q \in listRequests' : q.ticket <= ticket /\ q.id <= listSent
    BY <1>1 DEF List!TypeOK
  <2> QED BY <1>1, <2>1 DEF List!TypeOK
<1>4. List!Awaited'
  <2>1. \A q \in listRequests' : q = s \/ (q \in listRequests /\ q # r)
    OBVIOUS
  <2>2. \A p, q \in listRequests' : p.ticket = ticket /\ q.ticket = ticket => p = q
    BY <1>1, <2>1 DEF List!Awaited
  <2>3. \A q \in listRequests' : q.ticket = ticket =>
          /\ q.kind = "list" => list.loading /\ q.offset = 0
          /\ q.kind = "more" => list.more /\ q.offset = Len(list.orders)
          /\ List!Steady => q.query = List!Asked
    BY <1>1, <2>1 DEF List!Awaited
  <2> QED BY <1>1, <1>2, <2>2, <2>3 DEF List!Awaited
<1>5. List!PageFits'
  BY <1>1, <1>2, ListPageSame
<1>6. \A q \in listRequests' : List!RequestFits(q)'
  BY <1>1, ListFitsSame
<1> QED BY <1>1, <1>3, <1>4, <1>5, <1>6, ListAskedSame DEF List!IInv

\* The server answers with a page of the listing, or the connection fails.
LEMMA ListAnswers ==
    ASSUME List!ListAssumption, List!IInv, NEW r \in listRequests, List!Serve(r) \/ List!Lose(r)
    PROVE  List!IInv'
<1>1. List!TypeOK /\ (\A q \in listRequests : List!RequestFits(q))
  BY DEF List!IInv
<1>2. r \in List!Requests /\ List!RequestFits(r)
  BY <1>1 DEF List!TypeOK
<1>3. changed \in [Listed -> Nat]
  <2>1. ListChanges \in Nat
    BY ListConstants
  <2>2. 0..ListChanges \subseteq Nat
    BY <2>1
  <2> QED BY <1>1, <2>2 DEF List!TypeOK
<1>4. CASE List!Serve(r)
  <2>1. PICK listing, rest, first, count :
           /\ listing = List!Listing(r.query) /\ rest = SubSeq(listing, r.offset + 1, Len(listing))
           /\ first = List!FirstPage(rest) /\ count = List!ActiveCount(r.query.shop)
    OBVIOUS
  <2>2. PICK s : s = [r EXCEPT !.answer = "ok", !.orders = first, !.hasMore = Len(rest) > PageSize, !.count = count]
    OBVIOUS
  <2>3. /\ listRequests' = (listRequests \ {r}) \cup {s}
        /\ UNCHANGED <<status, changed, clock, address, deferred, list, ticket, listSent, listLost>>
    BY <1>4, <2>1, <2>2 DEF List!Serve, List!server
  <2>4. r.query \in List!Queries /\ r.offset \in Nat
    BY <1>2 DEF List!Requests
  <2>5. r.query.q \in Texts
    BY <2>4 DEF List!Queries
  <2>6. first \in Seq(Listed) /\ (Len(first) = 0 \/ r.offset + Len(first) <= Cardinality(Listed))
    BY <1>3, <2>1, <2>4, <2>5, ListAnswer DEF Answers
  <2>7. count \in 0..List!Cardinality(Listed)
    <3>1. count \in 0..Cardinality(Listed)
      BY <2>1, ListActive
    <3> QED BY <3>1, ListBounds
  <2>8. PICK more \in BOOLEAN : more = (Len(rest) > PageSize)
    <3>1. Len(rest) \in Nat
      BY <1>3, <2>1, <2>4, <2>5, ListAnswer DEF Answers
    <3>2. PageSize \in Nat
      BY ListConstants
    <3>3. (Len(rest) > PageSize) \in BOOLEAN
      BY <3>1, <3>2
    <3> QED BY <3>3, Zenon
  <2>9. /\ s \in List!Requests
        /\ s.id = r.id /\ s.kind = r.kind /\ s.ticket = r.ticket /\ s.query = r.query /\ s.offset = r.offset
        /\ s.orders = first /\ s.hasMore = more /\ s.count = count /\ s.answer = "ok"
    BY <1>2, <2>2, <2>6, <2>7, <2>8 DEF List!Requests
  <2>10. List!AnswerFits(s)
    BY <2>1, <2>8, <2>9 DEF List!AnswerFits
  <2>11. List!RequestFits(s)
    <3>1. Len(s.orders) = 0 \/ s.offset + Len(s.orders) <= List!Cardinality(Listed)
      BY <2>6, <2>9, ListBounds
    <3> QED BY <2>10, <3>1 DEF List!RequestFits
  <2>12. listLost' \in 0..ListLosses
    BY <1>1, <2>3 DEF List!TypeOK
  <2> QED BY <2>3, <2>9, <2>11, <2>12, ListReplaced
<1>5. CASE List!Lose(r)
  <2>1. PICK s : s = [r EXCEPT !.answer = "lost"]
    OBVIOUS
  <2>2. /\ listRequests' = (listRequests \ {r}) \cup {s} /\ listLost < ListLosses /\ listLost' = listLost + 1
        /\ UNCHANGED <<status, changed, clock, address, deferred, list, ticket, listSent>>
    BY <1>5, <2>1 DEF List!Lose, List!server
  <2>3. /\ s \in List!Requests
        /\ s.id = r.id /\ s.kind = r.kind /\ s.ticket = r.ticket /\ s.query = r.query /\ s.offset = r.offset
        /\ s.orders = r.orders /\ s.answer = "lost"
    BY <1>2, <2>1 DEF List!Requests
  <2>4. List!RequestFits(s)
    BY <1>2, <2>3 DEF List!RequestFits
  <2>5. listLost' \in 0..ListLosses
    <3>1. listLost \in 0..ListLosses /\ ListLosses \in Nat
      BY <1>1, ListConstants DEF List!TypeOK
    <3> QED BY <2>2, <3>1
  <2> QED BY <2>2, <2>3, <2>4, <2>5, ListReplaced
<1> QED BY <1>4, <1>5

\* The page takes what comes of its list and nothing else.
LEMMA ListReceive ==
    ASSUME List!ListAssumption, List!IInv, NEW r \in listRequests, List!Receive(r)
    PROVE  List!IInv'
<1>1. List!TypeOK /\ (\A q \in listRequests : List!RequestFits(q)) /\ List!Awaited /\ List!PageFits
      /\ List!Cleared(address, deferred)
  BY DEF List!IInv
<1>2. /\ listRequests' = listRequests \ {r} /\ r.answer # "none"
      /\ status' = status /\ changed' = changed /\ clock' = clock /\ address' = address /\ deferred' = deferred
      /\ ticket' = ticket /\ listSent' = listSent /\ listLost' = listLost
  BY DEF List!Receive, List!server
<1>3. List!Asked' = List!Asked /\ (List!Steady' <=> List!Steady) /\ address'.shop = address.shop
      /\ List!Cleared(address, deferred)'
  BY <1>1, <1>2, ListAskedSame
<1>4. \A q \in listRequests' : List!RequestFits(q)'
  BY <1>1, <1>2, ListFitsSame
<1>5. /\ listRequests' \subseteq List!Requests /\ \A q \in listRequests' : q.ticket <= ticket /\ q.id <= listSent
  BY <1>1, <1>2 DEF List!TypeOK
<1>6. r \in List!Requests /\ List!RequestFits(r) /\ list \in List!Page /\ (list.more => list.hasMore /\ ~list.loading)
  BY <1>1 DEF List!TypeOK
<1>7. CASE ~List!CurrentList(r)
  <2>1. list' = list
    BY <1>7 DEF List!Receive
  <2>2. List!TypeOK'
    BY <1>1, <1>2, <1>5, <2>1 DEF List!TypeOK
  <2>3. List!Awaited'
    BY <1>1, <1>2, <1>3, <2>1 DEF List!Awaited
  <2>4. List!PageFits'
    BY <1>1, <1>2, <1>3, <2>1, ListPageSame
  <2> QED BY <1>3, <1>4, <2>2, <2>3, <2>4 DEF List!IInv
<1>8. CASE List!CurrentList(r)
  <2>1. \A q \in listRequests' : q.ticket # ticket
    BY <1>1, <1>2, <1>8 DEF List!Awaited, List!CurrentList
  <2>2. PICK k \in Nat : k = Len(list.orders)
    BY <1>6 DEF List!Page
  <2>3. /\ r.kind \in {"list", "more"} /\ r.offset = k
        /\ r.kind = "list" => list.loading /\ list.orders = <<>> /\ k = 0
        /\ r.kind = "more" => list.more /\ list.hasMore /\ ~list.loading
        /\ List!Steady => r.query = List!Asked
    <3>1. r.kind \in {"list", "more"} /\ r.ticket = ticket
      BY <1>6, <1>8 DEF List!Requests, List!CurrentList
    <3>2. /\ r.kind = "list" => list.loading /\ r.offset = 0
          /\ r.kind = "more" => list.more /\ r.offset = Len(list.orders)
          /\ List!Steady => r.query = List!Asked
          /\ list.loading => list.orders = <<>>
      BY <1>1, <3>1 DEF List!Awaited
    <3>3. list.orders = <<>> => k = 0
      BY <2>2
    <3> QED BY <1>6, <2>2, <3>1, <3>2, <3>3
  <2>4. (list.more /\ r.kind = "list") = FALSE /\ List!LoadingAfter(r) = FALSE
    BY <1>6, <2>3 DEF List!LoadingAfter
  <2>5. ASSUME list' \in List!Page, Len(list'.orders) <= List!Cardinality(Listed), ~list'.more, ~list'.loading,
               List!PageFits'
        PROVE  List!IInv'
    <3>1. List!TypeOK'
      BY <1>1, <1>2, <1>5, <2>5 DEF List!TypeOK
    <3>2. List!Awaited'
      BY <1>2, <2>1, <2>5 DEF List!Awaited
    <3> QED BY <1>3, <1>4, <2>5, <3>1, <3>2 DEF List!IInv
  <2>6. CASE r.answer = "lost"
    <3>1. list' = [list EXCEPT !.error = TRUE, !.loading = FALSE, !.more = FALSE]
      BY <1>8, <2>4, <2>6 DEF List!Receive
    <3>2. /\ list' \in List!Page /\ list'.orders = list.orders /\ list'.hasMore = list.hasMore
          /\ list'.count = list.count /\ ~list'.more /\ ~list'.loading /\ list'.error
      BY <1>6, <3>1 DEF List!Page
    <3>3. List!PageFits'
      <4>1. CASE r.kind = "list"
        <5>1. ~list.hasMore
          BY <1>1, <2>3, <4>1 DEF List!Awaited
        <5> QED BY <3>2, <5>1 DEF List!PageFits
      <4>2. CASE r.kind = "more"
        <5>1. \A query, shop : List!Listing(query)' = List!Listing(query)
                /\ List!ActiveCount(shop)' = List!ActiveCount(shop)
          BY <1>2, ListSame
        <5> QED BY <1>1, <1>2, <1>3, <2>3, <3>2, <4>2, <5>1 DEF List!PageFits
      <4> QED BY <2>3, <4>1, <4>2
    <3>4. Len(list'.orders) <= List!Cardinality(Listed)
      BY <1>1, <3>2 DEF List!TypeOK
    <3> QED BY <2>5, <3>2, <3>3, <3>4
  <2>7. CASE r.answer # "lost"
    <3>1. list' = [list EXCEPT !.orders = list.orders \o r.orders, !.hasMore = r.hasMore, !.count = r.count,
                               !.loading = FALSE, !.more = FALSE]
      BY <1>8, <2>4, <2>7 DEF List!Receive
    <3>2. /\ r.orders \in Seq(Listed) /\ r.hasMore \in BOOLEAN /\ r.count \in 0..List!Cardinality(Listed)
          /\ list.orders \in Seq(Listed) /\ r.answer = "ok" /\ r.query \in List!Queries
      BY <1>2, <1>6, <2>7 DEF List!Requests, List!Page
    <3>3. PICK orders : orders = list.orders \o r.orders
      OBVIOUS
    <3>4. PICK m \in Nat : m = Len(r.orders) /\ orders \in Seq(Listed) /\ Len(orders) = k + m
      <4>1. Len(r.orders) \in Nat /\ Len(list.orders) = k
        BY <2>2, <3>2
      <4>2. orders \in Seq(Listed) /\ Len(orders) = Len(list.orders) + Len(r.orders)
        BY <3>2, <3>3, ConcatProperties
      <4> QED BY <4>1, <4>2
    <3>5. /\ list' \in List!Page /\ list'.orders = orders /\ list'.hasMore = r.hasMore
          /\ list'.count = r.count /\ ~list'.more /\ ~list'.loading /\ list'.error = list.error
      BY <1>6, <3>1, <3>2, <3>3, <3>4 DEF List!Page
    <3>6. Len(list'.orders) <= List!Cardinality(Listed)
      <4>1. m = 0 \/ k + m <= List!Cardinality(Listed)
        BY <1>6, <2>3, <3>4 DEF List!RequestFits
      <4>2. k <= List!Cardinality(Listed)
        BY <1>1, <2>2 DEF List!TypeOK
      <4> QED BY <3>4, <3>5, <4>1, <4>2
    <3>7. ASSUME clock = 0, List!Steady, list.error => r.hasMore
          PROVE  LET listing == List!Listing(List!Asked)
                 IN /\ k + m <= Len(listing) /\ orders = SubSeq(listing, 1, k + m)
                    /\ r.hasMore <=> k + m < Len(listing)
                    /\ r.count = List!ActiveCount(address.shop)
      <4>1. PICK query : query = List!Asked /\ r.query = query /\ query.shop = address.shop /\ query.q \in Texts
        BY <2>3, <3>7, ListAsks
      <4>2. PICK listing : listing = List!Listing(query)
        OBVIOUS
      <4>3. PICK rest : rest = SubSeq(listing, k + 1, Len(listing))
        OBVIOUS
      <4>4. /\ r.orders = List!FirstPage(rest) /\ r.count = List!ActiveCount(query.shop)
            /\ r.hasMore <=> Len(rest) > PageSize
        BY <1>6, <2>3, <3>2, <3>7, <4>1, <4>2, <4>3 DEF List!RequestFits, List!AnswerFits
      <4>5. changed \in [Listed -> Nat]
        <5>1. ListChanges \in Nat
          BY ListConstants
        <5>2. 0..ListChanges \subseteq Nat
          BY <5>1
        <5> QED BY <1>1, <5>2 DEF List!TypeOK
      <4>6. listing \in Seq(Listed) /\ Len(listing) \in Nat /\ Continues(listing, k, PageSize, rest, r.orders)
        <5>1. PICK first : first = r.orders
          OBVIOUS
        <5>2. first = List!FirstPage(rest) /\ query.q \in Texts
          BY <4>1, <4>4, <5>1
        <5>3. Answers(listing, k, rest, first)
          BY <4>2, <4>3, <4>5, <5>2, ListAnswer
        <5> QED BY <5>1, <5>3 DEF Answers
      <4>7. k <= Len(listing) /\ list.orders = SubSeq(listing, 1, k)
        <5>1. CASE r.kind = "list"
          <6>1. list.orders = <<>> /\ k = 0
            BY <2>3, <5>1
          <6>2. SubSeq(listing, 1, 0) = <<>>
            BY <4>6, SubSeqEmpty
          <6> QED BY <4>6, <6>1, <6>2
        <5>2. CASE r.kind = "more"
          <6>1. ~list.loading /\ list.hasMore
            BY <2>3, <5>2
          <6> QED BY <1>1, <2>2, <3>7, <4>1, <4>2, <6>1 DEF List!PageFits
        <5> QED BY <2>3, <5>1, <5>2
      <4>8. /\ k + m <= Len(listing) /\ (Len(rest) > PageSize <=> k + m < Len(listing))
            /\ SubSeq(listing, 1, k) \o r.orders = SubSeq(listing, 1, k + m)
        BY <3>4, <4>6, <4>7 DEF Continues
      <4> QED BY <3>3, <4>1, <4>2, <4>4, <4>7, <4>8
    <3>8. List!PageFits'
      <4>1. \A query, shop : List!Listing(query)' = List!Listing(query)
              /\ List!ActiveCount(shop)' = List!ActiveCount(shop)
        BY <1>2, ListSame
      <4> QED BY <1>2, <1>3, <3>4, <3>5, <3>7, <4>1 DEF List!PageFits
    <3> QED BY <2>5, <3>5, <3>6, <3>8
  <2> QED BY <2>6, <2>7
<1> QED BY <1>7, <1>8

\* Somebody changes an order.
LEMMA ListChange ==
    ASSUME List!ListAssumption, List!IInv, NEW o \in Listed, NEW s \in ListStatuses, List!Change(o, s)
    PROVE  List!IInv'
<1>1. List!TypeOK /\ (\A q \in listRequests : List!RequestFits(q)) /\ List!Awaited
      /\ List!Cleared(address, deferred)
  BY DEF List!IInv
<1>2. /\ clock < ListChanges /\ clock' = clock + 1
      /\ status' = [status EXCEPT ![o] = s] /\ changed' = [changed EXCEPT ![o] = clock + 1]
      /\ UNCHANGED <<address, deferred, list, ticket, listRequests, listSent, listLost>>
  BY DEF List!Change
<1>3. clock' \in 0..ListChanges /\ clock' # 0 /\ clock + 1 \in 0..ListChanges
  <2>1. clock \in 0..ListChanges /\ ListChanges \in Nat
    BY <1>1, ListConstants DEF List!TypeOK
  <2> QED BY <1>2, <2>1
<1>4. status' \in [Listed -> ListStatuses] /\ changed' \in [Listed -> 0..ListChanges]
  BY <1>1, <1>2, <1>3 DEF List!TypeOK
<1>5. List!TypeOK'
  BY <1>1, <1>2, <1>3, <1>4 DEF List!TypeOK
<1>6. List!Asked' = List!Asked /\ (List!Steady' <=> List!Steady) /\ List!Cleared(address, deferred)'
  BY <1>1, <1>2, ListAskedSame
<1>7. List!Awaited'
  BY <1>1, <1>2, <1>6 DEF List!Awaited
<1>8. \A q \in listRequests' : List!RequestFits(q)'
  BY <1>1, <1>2, <1>3 DEF List!RequestFits
<1>9. List!PageFits'
  BY <1>3 DEF List!PageFits
<1> QED BY <1>5, <1>6, <1>7, <1>8, <1>9 DEF List!IInv

\* Every step of the page, of the server and of others.
LEMMA ListStep ==
    ASSUME List!ListAssumption, List!IInv, List!Next
    PROVE  List!IInv'
<1>1. CASE List!Catch \/ List!CleanAddress
  BY <1>1, ListCatch
<1>2. CASE \/ \E q \in Texts : List!Search(q)
           \/ \E s \in ListStatuses \cup {""} : List!FilterStatus(s)
           \/ \E sort \in List!Sorts : List!SortBy(sort)
           \/ List!ClearFilters
  BY <1>2, ListFilter
<1>3. CASE \/ \E view \in {"active", "archive"} : List!SetView(view)
           \/ \E shop \in List!Shops : List!ChangeShop(shop)
           \/ List!Retry
  BY <1>3, ListView
<1>4. CASE List!LoadMore
  BY <1>4, ListMore
<1>5. CASE \E o \in Listed, s \in ListStatuses : List!Change(o, s)
  BY <1>5, ListChange
<1>6. CASE \E r \in listRequests : List!Serve(r) \/ List!Lose(r)
  BY <1>6, ListAnswers
<1>7. CASE \E r \in listRequests : List!Receive(r)
  BY <1>7, ListReceive
<1> QED BY <1>1, <1>2, <1>3, <1>4, <1>5, <1>6, <1>7 DEF List!Next

\* Nothing changes while a behaviour is of another part, or stutters.
LEMMA ListStutter ==
    ASSUME List!IInv, UNCHANGED listVars
    PROVE  List!IInv'
<1>1. UNCHANGED <<status, changed, clock, address, deferred, list, ticket, listRequests, listSent, listLost>>
  BY DEF listVars
<1>2. List!TypeOK /\ (\A q \in listRequests : List!RequestFits(q)) /\ List!Awaited /\ List!PageFits
      /\ List!Cleared(address, deferred)
  BY DEF List!IInv
<1>3. List!Asked' = List!Asked /\ (List!Steady' <=> List!Steady) /\ address'.shop = address.shop
      /\ List!Cleared(address, deferred)'
  BY <1>1, <1>2, ListAskedSame
<1>4. List!TypeOK'
  BY <1>1, <1>2 DEF List!TypeOK
<1>5. List!Awaited'
  BY <1>1, <1>2, <1>3 DEF List!Awaited
<1>6. List!PageFits'
  BY <1>1, <1>2, <1>3, ListPageSame
<1>7. \A q \in listRequests' : List!RequestFits(q)'
  BY <1>1, <1>2, ListFitsSame
<1> QED BY <1>3, <1>4, <1>5, <1>6, <1>7 DEF List!IInv

\* What a settled page shows is what its list is.
LEMMA ListSafe ==
    ASSUME List!ListAssumption, List!IInv
    PROVE  List!TypeOK /\ List!ListExact
<1>1. List!TypeOK /\ List!PageFits
  BY DEF List!IInv
<1>2. ASSUME clock = 0, List!Shown, List!Settled
      PROVE  LET listing == List!Listing(List!Query(address, deferred))
             IN /\ List!IsPrefix(list.orders, listing)
                /\ list.hasMore <=> Len(list.orders) < Len(listing)
                /\ list.count = List!ActiveCount(address.shop)
  <2>1. ~list.loading /\ ~list.error
    BY <1>2 DEF List!Shown
  <2>2. List!Steady
    BY <1>2 DEF List!Steady, List!Settled, List!InvalidStatus
  <2>3. List!Query(address, deferred) = List!Asked
    BY <2>2, ListAsks
  <2>4. PICK listing : listing = List!Listing(List!Asked)
    OBVIOUS
  <2>5. /\ Len(list.orders) <= Len(listing)
        /\ list.orders = SubSeq(listing, 1, Len(list.orders))
        /\ list.hasMore <=> Len(list.orders) < Len(listing)
        /\ list.count = List!ActiveCount(address.shop)
    BY <1>1, <1>2, <2>1, <2>2, <2>4 DEF List!PageFits
  <2>6. List!IsPrefix(list.orders, listing)
    BY <2>5 DEF List!IsPrefix
  <2> QED BY <2>3, <2>4, <2>5, <2>6
<1> QED BY <1>1, <1>2 DEF List!ListExact

-----------------------------------------------------------------------------
(* The report (ShopReport) *)

\* The instance counts as this module does.
LEMMA ReportSets ==
    ASSUME NEW S
    PROVE  /\ Report!IsFiniteSet(S) <=> IsFiniteSet(S)
           /\ Report!Cardinality(S) = Cardinality(S)
BY Zenon DEF Report!IsFiniteSet, IsFiniteSet, Report!Cardinality, Cardinality

\* The lesser of two numbers.
LEMMA ReportMin ==
    ASSUME NEW i \in Nat, NEW j \in Nat
    PROVE  Report!Min({i, j}) = IF i <= j THEN i ELSE j
<1> DEFINE m == IF i <= j THEN i ELSE j
<1>1. m \in {i, j} /\ \A y \in {i, j} : m <= y
  OBVIOUS
<1>2. \A x \in {i, j} : (\A y \in {i, j} : x <= y) => x = m
  OBVIOUS
<1> QED BY <1>1, <1>2 DEF Report!Min

\* What the constants of the report are.
LEMMA ReportConstants ==
    ASSUME Report!ReportAssumption
    PROVE  /\ IsFiniteSet(Reported) /\ Cardinality(Reported) \in Nat
           /\ \A o \in Reported : Amount[o] \in Nat
           /\ IsFiniteSet(Products) /\ Products \subseteq Nat
           /\ \A p \in Products, o \in Reported : Quantity[p][o] \in Nat
           /\ FirstReported \in [Reported -> Report!Statuses \cup {"absent"}]
           /\ TopLimit \in Nat /\ ReportChanges \in Nat /\ ReportLosses \in Nat /\ ReportVisits \in Nat
           /\ ReportVisits > 0
<1>1. IsFiniteSet(Reported) /\ IsFiniteSet(Products)
  BY ReportSets, Zenon DEF Report!ReportAssumption
<1>2. Cardinality(Reported) \in Nat
  BY <1>1, FS_CardinalityType
<1>3. Amount \in [Reported -> Nat \ {0}] /\ Products \subseteq Nat
  BY DEF Report!ReportAssumption
<1>4. \A o \in Reported : Amount[o] \in Nat
  BY <1>3
<1>5. Quantity \in [Products -> [Reported -> Nat]]
  BY DEF Report!ReportAssumption
<1>6. \A p \in Products, o \in Reported : Quantity[p][o] \in Nat
  BY <1>5
<1>7. FirstReported \in [Reported -> Report!Statuses \cup {"absent"}]
  BY DEF Report!ReportAssumption
<1>8. /\ TopLimit \in Nat /\ ReportChanges \in Nat /\ ReportLosses \in Nat /\ ReportVisits \in Nat \ {0}
  BY DEF Report!ReportAssumption
<1>9. ReportVisits > 0
  BY <1>8
<1> QED BY <1>1, <1>2, <1>3, <1>4, <1>6, <1>7, <1>8, <1>9

\* The orders that exist and those that count are finitely many.
LEMMA ReportExisting ==
    ASSUME Report!ReportAssumption
    PROVE  /\ IsFiniteSet(Report!Existing) /\ Cardinality(Report!Existing) \in Nat
           /\ IsFiniteSet(Report!Confirmed) /\ Cardinality(Report!Confirmed) \in Nat
           /\ Report!Existing \subseteq Reported /\ Report!Confirmed \subseteq Reported
<1>1. Report!Existing \subseteq Reported /\ Report!Confirmed \subseteq Reported
  BY DEF Report!Existing, Report!Confirmed
<1>2. IsFiniteSet(Report!Existing) /\ IsFiniteSet(Report!Confirmed)
  BY <1>1, ReportConstants, FS_Subset
<1> QED BY <1>1, <1>2, FS_CardinalityType

\* What is sold of a product is a number.
LEMMA ReportSold ==
    ASSUME Report!ReportAssumption
    PROVE  \A p \in Products : Report!Sold(p) \in Nat
<1> SUFFICES ASSUME NEW p \in Products PROVE Report!Sold(p) \in Nat
  OBVIOUS
<1>1. IsFiniteSet(Report!Confirmed) /\ \A o \in Report!Confirmed : Quantity[p][o] \in Nat
  BY ReportConstants, ReportExisting
<1> QED BY <1>1, SumBetween DEF Report!Sold

\* The average is a number, and that of some of the orders.
THEOREM ReportSummary ==
    ASSUME Report!ReportAssumption
    PROVE  /\ Report!Summary \in [orderCount : Nat, confirmedOrderCount : Nat, confirmedOrderValue : Nat,
                                  averageOrderValue : Nat]
           /\ Report!Summary.orderCount = Cardinality(Report!Existing)
           /\ Report!Summary.confirmedOrderCount = Cardinality(Report!Confirmed)
           /\ Report!AverageFits(Report!Summary)
<1>1. PICK n \in Nat, count \in Nat : n = Cardinality(Report!Existing) /\ count = Cardinality(Report!Confirmed)
  BY ReportExisting
<1>2. /\ IsFiniteSet(Report!Confirmed) /\ Report!Confirmed \subseteq Reported
      /\ \A o \in Report!Confirmed : Amount[o] \in Nat
  BY ReportConstants, ReportExisting
<1>3. PICK value \in Nat : value = Report!SumFunctionOnSet(Amount, Report!Confirmed)
  BY <1>2, SumBetween
<1>4. PICK avg : avg = Report!Average(value, count)
  OBVIOUS
<1>5. count = 0 => avg = 0
  BY <1>4 DEF Report!Average
<1>6. ASSUME count # 0
      PROVE  avg \in Nat /\ \E o, p \in Reported : Amount[o] <= avg /\ avg <= Amount[p]
  <2>1. avg = value \div count /\ count > 0
    BY <1>4, <1>6 DEF Report!Average
  <2>2. Report!Confirmed # {}
    BY <1>1, <1>6, FS_EmptySet
  <2>3. PICK o \in Report!Confirmed, p \in Report!Confirmed : count * Amount[o] <= value /\ value <= count * Amount[p]
    BY <1>1, <1>2, <1>3, <2>2, SumBetween
  <2>4. PICK lo \in Nat, hi \in Nat : lo = Amount[o] /\ hi = Amount[p]
    BY <1>2
  <2>5. count * lo <= value /\ value <= count * hi
    BY <2>3, <2>4
  <2>6. avg \in Nat /\ count * avg <= value /\ value < count * (avg + 1)
    BY <2>1
  <2>7. lo <= avg
    <3>1. ASSUME ~(lo <= avg) PROVE FALSE
      <4>1. avg + 1 <= lo
        BY <2>6, <3>1
      <4>2. count * (avg + 1) <= count * lo
        BY <2>6, <4>1
      <4>3. count * (avg + 1) \in Nat /\ count * lo \in Nat
        BY <2>6
      <4> QED BY <2>5, <2>6, <4>2, <4>3
    <3> QED BY <3>1
  <2>8. avg <= hi
    <3>1. ASSUME ~(avg <= hi) PROVE FALSE
      <4>1. hi + 1 <= avg
        BY <2>6, <3>1
      <4>2. count * (hi + 1) <= count * avg
        BY <2>6, <4>1
      <4>3. count * (hi + 1) = count * hi + count /\ count * hi \in Nat /\ count * avg \in Nat
        BY <2>6
      <4> QED BY <2>1, <2>5, <2>6, <4>2, <4>3
    <3> QED BY <3>1
  <2> QED BY <1>2, <2>4, <2>6, <2>7, <2>8
<1>7. avg \in Nat
  BY <1>5, <1>6
<1>8. Report!Summary = [orderCount |-> n, confirmedOrderCount |-> count, confirmedOrderValue |-> value,
                        averageOrderValue |-> avg]
  BY <1>1, <1>3, <1>4, ReportSets DEF Report!Summary
<1>9. PICK summary : summary = Report!Summary
  OBVIOUS
<1>10. /\ summary \in [orderCount : Nat, confirmedOrderCount : Nat, confirmedOrderValue : Nat, averageOrderValue : Nat]
       /\ summary.orderCount = n /\ summary.confirmedOrderCount = count /\ summary.averageOrderValue = avg
  BY <1>7, <1>8, <1>9
<1>11. Report!AverageFits(summary)
  <2>1. count > 0 => count # 0
    OBVIOUS
  <2> QED BY <1>6, <1>10, <2>1 DEF Report!AverageFits
<1> QED BY <1>1, <1>9, <1>10, <1>11

\* There are finitely many statuses.
LEMMA ReportStatuses ==
    /\ IsFiniteSet({"paid", "preparing", "shipped"}) /\ {"paid", "preparing", "shipped"} \subseteq Report!Statuses
    /\ IsFiniteSet(Report!Statuses)
<1>1. IsFiniteSet({"paid", "preparing", "shipped"})
  <2>1. IsFiniteSet({"paid"})
    BY FS_Singleton
  <2>2. IsFiniteSet({"paid"} \cup {"preparing"})
    BY <2>1, FS_AddElement
  <2>3. IsFiniteSet(({"paid"} \cup {"preparing"}) \cup {"shipped"})
    BY <2>2, FS_AddElement
  <2>4. ({"paid"} \cup {"preparing"}) \cup {"shipped"} = {"paid", "preparing", "shipped"}
    OBVIOUS
  <2> QED BY <2>3, <2>4
<1>2. IsFiniteSet(Report!Statuses)
  <2> DEFINE T == {"paid", "preparing", "shipped"}
  <2>1. IsFiniteSet(T \cup {"waiting_info"})
    BY <1>1, FS_AddElement
  <2>2. IsFiniteSet((T \cup {"waiting_info"}) \cup {"waiting_payment"})
    BY <2>1, FS_AddElement
  <2>3. IsFiniteSet(((T \cup {"waiting_info"}) \cup {"waiting_payment"}) \cup {"cancelled"})
    BY <2>2, FS_AddElement
  <2>4. ((T \cup {"waiting_info"}) \cup {"waiting_payment"}) \cup {"cancelled"} = Report!Statuses
    BY DEF Report!Statuses
  <2> QED BY <2>3, <2>4
<1>3. {"paid", "preparing", "shipped"} \subseteq Report!Statuses
  BY DEF Report!Statuses
<1> QED BY <1>1, <1>2, <1>3

\* The bars of the statuses add up to the orders, and those of the confirmed ones to theirs.
THEOREM ReportCounts ==
    ASSUME Report!ReportAssumption, reported \in [Reported -> Report!Statuses \cup {"absent"}],
           NEW counts, counts = Report!StatusCounts
    PROVE  /\ counts \in [Report!Statuses -> Nat]
           /\ Report!SumFunctionOnSet(counts, Report!Statuses) = Cardinality(Report!Existing)
           /\ Report!SumFunctionOnSet(counts, {"paid", "preparing", "shipped"}) = Cardinality(Report!Confirmed)
<1> DEFINE P == [s \in Report!Statuses |-> {o \in Reported : reported[o] = s}]
<1>1. IsFiniteSet(Reported)
  BY ReportConstants
<1>2. \A s \in Report!Statuses : P[s] \in SUBSET Reported /\ P[s] = {o \in Reported : reported[o] = s}
  OBVIOUS
<1>3. \A s, t \in Report!Statuses : s # t => P[s] \cap P[t] = {}
  BY <1>2
<1> HIDE DEF P
<1>4. \A s \in Report!Statuses : counts[s] = Cardinality(P[s])
  <2>1. \A s \in Report!Statuses : counts[s] = Report!Cardinality({o \in Reported : reported[o] = s})
    BY DEF Report!StatusCounts
  <2> QED BY <1>2, <2>1, ReportSets
<1>5. counts \in [Report!Statuses -> Nat]
  <2>1. \A s \in Report!Statuses : Cardinality(P[s]) \in Nat
    BY <1>1, <1>2, FS_Subset, FS_CardinalityType
  <2>2. counts = [s \in Report!Statuses |-> counts[s]]
    BY DEF Report!StatusCounts
  <2> QED BY <1>4, <2>1, <2>2
<1>6. IsFiniteSet({"paid", "preparing", "shipped"}) /\ IsFiniteSet(Report!Statuses)
  BY ReportStatuses
<1>8. Report!SumFunctionOnSet(counts, Report!Statuses) = Cardinality(Report!Existing)
  <2>1. Report!SumFunctionOnSet(counts, Report!Statuses)
          = Cardinality({o \in Reported : \E s \in Report!Statuses : o \in P[s]})
    BY <1>1, <1>2, <1>3, <1>4, <1>6, SumOfSizes
  <2>2. {o \in Reported : \E s \in Report!Statuses : o \in P[s]} = Report!Existing
    <3>1. \A o \in Reported : (\E s \in Report!Statuses : o \in P[s]) <=> reported[o] \in Report!Statuses
      BY <1>2
    <3>2. "absent" \notin Report!Statuses
      BY DEF Report!Statuses
    <3>3. \A o \in Reported : reported[o] \in Report!Statuses <=> reported[o] # "absent"
      BY <3>2
    <3> QED BY <3>1, <3>3 DEF Report!Existing
  <2> QED BY <2>1, <2>2
<1>9. Report!SumFunctionOnSet(counts, {"paid", "preparing", "shipped"}) = Cardinality(Report!Confirmed)
  <2> DEFINE T == {"paid", "preparing", "shipped"}
  <2>1. \A s \in T : s \in Report!Statuses
    BY DEF Report!Statuses
  <2>2. /\ \A s \in T : P[s] \in SUBSET Reported
        /\ \A s, t \in T : s # t => P[s] \cap P[t] = {}
        /\ \A s \in T : counts[s] = Cardinality(P[s])
    BY <1>2, <1>3, <1>4, <2>1
  <2>3. {o \in Reported : \E s \in T : o \in P[s]} = Report!Confirmed
    <3>1. \A o \in Reported : (\E s \in T : o \in P[s]) <=> reported[o] \in T
      BY <1>2, <2>1
    <3> QED BY <3>1 DEF Report!Confirmed, Report!confirmedOrderStatuses
  <2>4. IsFiniteSet(T)
    BY <1>6
  <2> HIDE DEF T
  <2>5. Report!SumFunctionOnSet(counts, T) = Cardinality({o \in Reported : \E s \in T : o \in P[s]})
    BY <1>1, <2>2, <2>4, SumOfSizes
  <2> QED BY <2>3, <2>5 DEF T
<1> QED BY <1>5, <1>8, <1>9

\* The products of the report are the best sold ones, in their order, and as many as there are
\* up to the limit.
THEOREM ReportTop ==
    ASSUME Report!ReportAssumption, NEW top, top = Report!TopProducts,
           NEW sold, sold = [p \in Products |-> Report!Sold(p)]
    PROVE  /\ top \in Seq([id : Products, quantity : Nat]) /\ sold \in [Products -> Nat]
           /\ Report!TopFits(top, sold)
<1>1. \A p \in Products : sold[p] = Report!Sold(p) /\ sold[p] \in Nat /\ p \in Nat
  BY ReportSold, ReportConstants
<1>2. PICK S : S = {p \in Products : Report!Sold(p) > 0}
  OBVIOUS
<1>3. S \subseteq Products /\ IsFiniteSet(S) /\ Cardinality(S) \in Nat /\ S = {p \in Products : sold[p] > 0}
  <2>1. S \subseteq Products /\ S = {p \in Products : sold[p] > 0}
    BY <1>1, <1>2
  <2>2. IsFiniteSet(S)
    BY <2>1, ReportConstants, FS_Subset
  <2> QED BY <2>1, <2>2, FS_CardinalityType
<1>4. PICK R : R = {w \in Products \X Products : Report!RankedBefore(w[1], w[2])}
  OBVIOUS
<1>5. \A p, q \in Products : <<p, q>> \in R <=> Report!RankedBefore(p, q)
  BY <1>4
<1>6. \A p, q \in Products :
         <<p, q>> \in R <=> IF sold[p] # sold[q] THEN sold[p] > sold[q] ELSE p < q
  BY <1>1, <1>5 DEF Report!RankedBefore
<1>7. Ranked(S, R)
  <2>1. Ordered(S, R)
    BY <1>1, <1>3, <1>6 DEF Ordered
  <2> QED BY <1>3, <2>1, Ranks
<1>8. \A x, y \in S : Rank(S, R, x) < Rank(S, R, y) => sold[x] >= sold[y]
  <2> SUFFICES ASSUME NEW x \in S, NEW y \in S, Rank(S, R, x) < Rank(S, R, y) PROVE sold[x] >= sold[y]
    OBVIOUS
  <2>1. PICK i \in Nat, j \in Nat : i = Rank(S, R, x) /\ j = Rank(S, R, y)
    BY <1>7 DEF Ranked
  <2>2. ~(j < i)
    BY <2>1
  <2>3. <<y, x>> \notin R
    BY <1>7, <2>1, <2>2 DEF Ranked
  <2> QED BY <1>1, <1>3, <1>6, <2>3
<1>9. PICK n \in Nat : n = Report!Min({TopLimit, Report!Cardinality(S)}) /\ n <= Cardinality(S)
  <2>1. TopLimit \in Nat /\ Cardinality(S) \in Nat /\ Report!Cardinality(S) = Cardinality(S)
    BY <1>3, ReportConstants, ReportSets
  <2> QED BY <2>1, ReportMin
<1>10. PICK k : k = [i \in 1..n |-> CHOOSE p \in S : Rank(S, R, p) = i - 1]
  OBVIOUS
<1>11. ASSUME NEW i \in 1..n PROVE k[i] \in S /\ Rank(S, R, k[i]) = i - 1
  <2>1. i - 1 \in 0..Cardinality(S) - 1
    BY <1>3, <1>9
  <2>2. \E p \in S : Rank(S, R, p) = i - 1
    BY <1>7, <2>1 DEF Ranked
  <2> QED BY <1>10, <2>2
<1>12. top = [i \in 1..n |-> [id |-> k[i], quantity |-> sold[k[i]]]]
  <2>1. \A p \in S : {q \in S : Report!RankedBefore(q, p)} = Lower(S, R, p)
    BY <1>3, <1>5 DEF Lower
  <2>2. \A p \in S : Report!Cardinality({q \in S : Report!RankedBefore(q, p)}) = Rank(S, R, p)
    BY <2>1, ReportSets DEF Rank
  <2> DEFINE ranked(i) == CHOOSE p \in S : Report!Cardinality({q \in S : Report!RankedBefore(q, p)}) = i - 1
  <2>3. top = [i \in 1..n |-> [id |-> ranked(i), quantity |-> Report!Sold(ranked(i))]]
    BY <1>2, <1>9 DEF Report!TopProducts
  <2>4. \A i \in 1..n : ranked(i) = k[i]
    BY <1>10, <2>2
  <2>5. \A i \in 1..n : k[i] \in Products
    BY <1>3, <1>11
  <2> HIDE DEF ranked
  <2> QED BY <1>1, <2>3, <2>4, <2>5
<1>13. top \in Seq([id : Products, quantity : Nat])
  <2>1. \A i \in 1..n : [id |-> k[i], quantity |-> sold[k[i]]] \in [id : Products, quantity : Nat]
    BY <1>1, <1>3, <1>11
  <2>2. top \in [1..n -> [id : Products, quantity : Nat]]
    BY <1>12, <2>1
  <2>3. \A T : top \in [1..n -> T] => top \in Seq(T)
    BY SeqDef, Zenon
  <2> QED BY <2>2, <2>3, Zenon
<1>14. DOMAIN top = 1..n /\ \A i \in 1..n : top[i].id = k[i] /\ top[i].quantity = sold[k[i]]
  BY <1>12
<1>15. PICK listed : listed = {top[i].id : i \in DOMAIN top}
  OBVIOUS
<1>16. listed = {k[i] : i \in 1..n}
  BY <1>14, <1>15
<1>17. Cardinality(listed) = n
  <2>1. IsFiniteSet(1..n) /\ Cardinality(1..n) = n
    <3>1. 1 \in Int /\ n \in Int /\ (IF 1 > n THEN 0 ELSE n - 1 + 1) = n
      OBVIOUS
    <3> QED BY <3>1, FS_Interval, Zenon
  <2>2. k \in [1..n -> listed] /\ \A p \in listed : \E i \in 1..n : k[i] = p
    BY <1>10, <1>16
  <2>3. \A i, j \in 1..n : k[i] = k[j] => i = j
    <3> SUFFICES ASSUME NEW i \in 1..n, NEW j \in 1..n, k[i] = k[j] PROVE i = j
      OBVIOUS
    <3>1. i - 1 = j - 1
      BY <1>11
    <3> QED BY <3>1
  <2>4. k \in Surjection(1..n, listed) /\ k \in Injection(1..n, listed)
    BY <2>2, <2>3 DEF Surjection, Injection, IsInjective
  <2> QED BY <2>1, <2>4, FS_Surjection
<1>18. listed \subseteq S
  BY <1>11, <1>16
<1>19. \A p \in listed, q \in S \ listed : sold[p] >= sold[q]
  <2> SUFFICES ASSUME NEW p \in listed, NEW q \in S \ listed PROVE sold[p] >= sold[q]
    OBVIOUS
  <2>1. PICK i \in 1..n : k[i] = p
    BY <1>16
  <2>2. PICK j \in Nat : j = Rank(S, R, q)
    BY <1>7 DEF Ranked
  <2>3. ~(j < n)
    <3> SUFFICES ASSUME j < n PROVE FALSE
      OBVIOUS
    <3>1. j + 1 \in 1..n /\ (j + 1) - 1 = j
      OBVIOUS
    <3>2. k[j + 1] \in S /\ Rank(S, R, k[j + 1]) = j
      BY <1>11, <3>1
    <3>3. k[j + 1] = q
      BY <1>7, <2>2, <3>2 DEF Ranked
    <3> QED BY <1>16, <3>1, <3>3
  <2>4. Rank(S, R, p) < Rank(S, R, q) /\ p \in S
    <3>1. Rank(S, R, p) = i - 1 /\ p \in S
      BY <1>11, <2>1
    <3> QED BY <2>2, <2>3, <3>1
  <2> QED BY <1>8, <2>4
<1>20. \A i, j \in DOMAIN top : i < j => top[i].quantity >= top[j].quantity
  <2> SUFFICES ASSUME NEW i \in 1..n, NEW j \in 1..n, i < j PROVE sold[k[i]] >= sold[k[j]]
    BY <1>14
  <2>1. Rank(S, R, k[i]) < Rank(S, R, k[j]) /\ k[i] \in S /\ k[j] \in S
    BY <1>11
  <2> QED BY <1>8, <2>1
<1>21. Report!TopFits(top, sold)
  <2>1. Report!Cardinality(listed) = Report!Min({TopLimit, Report!Cardinality(S)})
    BY <1>9, <1>17, ReportSets
  <2>2. \A i \in DOMAIN top : top[i].quantity = sold[top[i].id]
    BY <1>14
  <2> QED BY <1>3, <1>15, <1>18, <1>19, <1>20, <2>1, <2>2 DEF Report!TopFits
<1>22. sold \in [Products -> Nat]
  BY ReportSold
<1> QED BY <1>13, <1>21, <1>22

\* A new page has no report, and its request none of its parts.
LEMMA ReportNone ==
    ASSUME Report!ReportAssumption, NEW n \in Nat
    PROVE  /\ Report!NoReport \in Report!Reports /\ Report!Blank \in Report!Page
           /\ Report!Blank.loading /\ ~Report!Blank.shown /\ ~Report!Blank.error
           /\ Report!Request(n) \in Report!Requests /\ Report!Request(n).n = n /\ ~Report!Request(n).failed
           /\ Report!Gathered(Report!Request(n))
<1>1. Report!NoReport \in Report!Reports
  <2>1. PICK counts, sold : counts = [s \in Report!Statuses |-> 0] /\ sold = [p \in Products |-> 0]
    OBVIOUS
  <2>2. counts \in [Report!Statuses -> Nat] /\ sold \in [Products -> Nat]
    BY <2>1
  <2>3. <<>> \in Seq([id : Products, quantity : Nat])
    OBVIOUS
  <2>4. Report!NoReport = [summary |-> [orderCount |-> 0, confirmedOrderCount |-> 0, confirmedOrderValue |-> 0,
                                        averageOrderValue |-> 0],
                           counts |-> counts, top |-> <<>>, drift |-> 0, sold |-> sold]
    BY <2>1 DEF Report!NoReport
  <2> QED BY <2>2, <2>3, <2>4 DEF Report!Reports
<1>2. PICK none \in Report!Reports : none = Report!NoReport
  BY <1>1
<1>3. PICK blank : blank = Report!Blank
  OBVIOUS
<1>4. blank \in Report!Page /\ blank.loading /\ ~blank.shown /\ ~blank.error
  BY <1>2, <1>3 DEF Report!Blank, Report!Page
<1>5. PICK r : r = Report!Request(n)
  OBVIOUS
<1>6. r \in Report!Requests /\ r.n = n /\ ~r.failed /\ r.stage = "sent"
  BY <1>2, <1>5 DEF Report!Request, Report!Requests
<1>7. Report!Gathered(r)
  BY <1>6 DEF Report!Gathered
<1> QED BY <1>2, <1>3, <1>4, <1>5, <1>6, <1>7

\* The report opens with its first request.
LEMMA ReportInit ==
    ASSUME Report!ReportAssumption, Report!Init
    PROVE  Report!IInv
<1>1. /\ reported = FirstReported /\ report = Report!Blank /\ reportRequests = {Report!Request(1)}
      /\ changes = 0 /\ reportLost = 0 /\ reportVisits = 1
  BY DEF Report!Init
<1>2. PICK r : r = Report!Request(1) /\ r \in Report!Requests /\ r.n = 1 /\ ~r.failed /\ Report!Gathered(r)
  BY ReportNone
<1>3. report \in Report!Page /\ report.loading /\ ~report.shown /\ ~report.error
  BY <1>1, ReportNone
<1>4. 0 \in 0..ReportChanges /\ 0 \in 0..ReportLosses /\ 1 \in 1..ReportVisits
  <2>1. ReportChanges \in Nat /\ ReportLosses \in Nat /\ ReportVisits \in Nat /\ ReportVisits > 0
    BY ReportConstants
  <2> QED BY <2>1
<1>5. reported \in [Reported -> Report!Statuses \cup {"absent"}]
  BY <1>1, ReportConstants
<1>6. Report!TypeOK
  BY <1>1, <1>2, <1>3, <1>4, <1>5 DEF Report!TypeOK
<1>7. Report!PartsDriftApart /\ Report!TopIsBest
  BY <1>3 DEF Report!PartsDriftApart, Report!TopIsBest
<1> QED BY <1>1, <1>2, <1>3, <1>6, <1>7 DEF Report!IInv

\* The page asks again.
LEMMA ReportAsk ==
    ASSUME Report!ReportAssumption, Report!IInv, Report!Open \/ Report!Retry
    PROVE  Report!IInv'
<1>1. /\ reportVisits < ReportVisits /\ reportVisits' = reportVisits + 1 /\ report' = Report!Blank
      /\ reportRequests' = {Report!Request(reportVisits + 1)}
      /\ reported' = reported /\ changes' = changes /\ reportLost' = reportLost
  BY DEF Report!Open, Report!Retry, Report!Ask
<1>2. Report!TypeOK
  BY DEF Report!IInv
<1>3. reportVisits \in 1..ReportVisits /\ ReportVisits \in Nat
  BY <1>2, ReportConstants DEF Report!TypeOK
<1>4. reportVisits + 1 \in 1..ReportVisits /\ reportVisits + 1 \in Nat
  BY <1>1, <1>3
<1>5. PICK n \in Nat : n = reportVisits + 1
  BY <1>4
<1>6. PICK r : r = Report!Request(n) /\ r \in Report!Requests /\ r.n = n /\ ~r.failed /\ Report!Gathered(r)
  BY ReportNone
<1>7. report' \in Report!Page /\ report'.loading /\ ~report'.shown /\ ~report'.error
  BY <1>1, ReportNone
<1>8. reportRequests' = {r}
  BY <1>1, <1>5, <1>6
<1>9. Report!TypeOK'
  BY <1>1, <1>2, <1>4, <1>5, <1>6, <1>7, <1>8 DEF Report!TypeOK
<1>10. Report!PartsDriftApart' /\ Report!TopIsBest'
  BY <1>7 DEF Report!PartsDriftApart, Report!TopIsBest
<1>11. Report!Gathered(r)'
  <2>1. r.stage = "sent"
    BY <1>6 DEF Report!Request
  <2> QED BY <2>1 DEF Report!Gathered
<1> QED BY <1>6, <1>7, <1>8, <1>9, <1>10, <1>11 DEF Report!IInv

\* What has been gathered, while no order changes.
LEMMA ReportGatheredSame ==
    ASSUME UNCHANGED reported, NEW r, Report!Gathered(r)
    PROVE  Report!Gathered(r)'
<1>1. Report!Existing' = Report!Existing /\ Report!Confirmed' = Report!Confirmed
  BY DEF Report!Existing, Report!Confirmed
<1> QED BY <1>1 DEF Report!Gathered

\* A query of the one request ends, or fails.
LEMMA ReportReplaced ==
    ASSUME Report!ReportAssumption, Report!IInv, NEW r \in reportRequests, NEW s \in Report!Requests,
           s.n = r.n, IF s.failed THEN s.stage = "done" ELSE Report!Gathered(s),
           reportRequests' = (reportRequests \ {r}) \cup {s}, reportLost' \in 0..ReportLosses,
           UNCHANGED <<reported, report, changes, reportVisits>>
    PROVE  Report!IInv'
<1>1. /\ Report!TypeOK /\ Report!PartsDriftApart /\ Report!TopIsBest
      /\ (\A q \in reportRequests : q = r) /\ (report.loading => ~report.shown /\ ~report.error)
  BY DEF Report!IInv
<1>2. reportRequests' = {s}
  BY <1>1
<1>3. Report!TypeOK'
  BY <1>1, <1>2 DEF Report!TypeOK
<1>4. Report!PartsDriftApart' /\ Report!TopIsBest'
  BY <1>1 DEF Report!PartsDriftApart, Report!TopIsBest
<1>5. IF s.failed THEN s.stage = "done" ELSE Report!Gathered(s)'
  BY ReportGatheredSame
<1> QED BY <1>1, <1>2, <1>3, <1>4, <1>5 DEF Report!IInv

\* The three queries, each of its own moment.
LEMMA ReportQueries ==
    ASSUME Report!ReportAssumption, Report!IInv, NEW r \in reportRequests,
           Report!Summarise(r) \/ Report!CountStatuses(r) \/ Report!RankProducts(r)
    PROVE  Report!IInv'
<1>1. Report!TypeOK /\ IF r.failed THEN r.stage = "done" ELSE Report!Gathered(r)
  BY DEF Report!IInv
<1>2. r \in Report!Requests /\ reported \in [Reported -> Report!Statuses \cup {"absent"}]
        /\ reportLost \in 0..ReportLosses
  BY <1>1 DEF Report!TypeOK
<1>3. r.report \in Report!Reports /\ r.failed \in BOOLEAN
  BY <1>2 DEF Report!Requests
<1>4. ~r.failed /\ Report!Gathered(r)
  BY <1>1, <1>3 DEF Report!Summarise, Report!CountStatuses, Report!RankProducts
<1>5. PICK n \in Nat, m \in Nat :
         /\ n = Cardinality(Report!Existing) /\ n = Report!Cardinality(Report!Existing)
         /\ m = Cardinality(Report!Confirmed) /\ m = Report!Cardinality(Report!Confirmed)
  BY ReportExisting, ReportSets
<1>6. CASE Report!Summarise(r)
  <2>1. PICK summary : summary = Report!Summary
    OBVIOUS
  <2>2. /\ summary \in [orderCount : Nat, confirmedOrderCount : Nat, confirmedOrderValue : Nat, averageOrderValue : Nat]
        /\ summary.orderCount = n /\ summary.confirmedOrderCount = m /\ Report!AverageFits(summary)
    BY <1>5, <2>1, ReportSummary
  <2>3. PICK new : new = [r.report EXCEPT !.summary = summary]
    OBVIOUS
  <2>4. PICK s : s = [r EXCEPT !.stage = "summed", !.report = new]
    OBVIOUS
  <2>5. new \in Report!Reports /\ new.summary = summary /\ new.drift \in Nat
    BY <1>3, <2>2, <2>3 DEF Report!Reports
  <2>6. s \in Report!Requests /\ s.n = r.n /\ ~s.failed /\ s.stage = "summed" /\ s.report = new
    BY <1>2, <1>4, <2>4, <2>5 DEF Report!Requests
  <2>7. reportRequests' = (reportRequests \ {r}) \cup {s}
          /\ UNCHANGED <<reported, report, changes, reportLost, reportVisits>>
    BY <1>6, <2>1, <2>3, <2>4 DEF Report!Summarise, Report!Becomes
  <2>8. Report!Gathered(s)
    <3>1. Report!Apart(n, n) = 0 /\ Report!Apart(m, m) = 0
      BY DEF Report!Apart
    <3>2. Report!DiffersBy(new, n, m)
      BY <2>2, <2>5, <3>1 DEF Report!DiffersBy
    <3> QED BY <1>5, <2>2, <2>5, <2>6, <3>2 DEF Report!Gathered
  <2> QED BY <1>2, <2>6, <2>7, <2>8, ReportReplaced
<1>7. CASE Report!CountStatuses(r)
  <2>1. PICK counts : counts = Report!StatusCounts
    OBVIOUS
  <2>2. /\ counts \in [Report!Statuses -> Nat]
        /\ Report!SumFunctionOnSet(counts, Report!Statuses) = n
        /\ Report!SumFunctionOnSet(counts, {"paid", "preparing", "shipped"}) = m
    BY <1>2, <1>5, <2>1, ReportCounts
  <2>3. PICK new : new = [r.report EXCEPT !.counts = counts]
    OBVIOUS
  <2>4. PICK s : s = [r EXCEPT !.stage = "counted", !.report = new]
    OBVIOUS
  <2>5. /\ new \in Report!Reports /\ new.counts = counts /\ new.summary = r.report.summary
        /\ new.drift = r.report.drift
    BY <1>3, <2>2, <2>3 DEF Report!Reports
  <2>6. s \in Report!Requests /\ s.n = r.n /\ ~s.failed /\ s.stage = "counted" /\ s.report = new
    BY <1>2, <1>4, <2>4, <2>5 DEF Report!Requests
  <2>7. reportRequests' = (reportRequests \ {r}) \cup {s}
          /\ UNCHANGED <<reported, report, changes, reportLost, reportVisits>>
    BY <1>7, <2>1, <2>3, <2>4 DEF Report!CountStatuses, Report!Becomes
  <2>8. Report!Gathered(s)
    <3>1. r.stage = "summed"
      BY <1>7 DEF Report!CountStatuses
    <3>2. Report!AverageFits(new.summary) /\ Report!DiffersBy(r.report, n, m)
      BY <1>4, <1>5, <2>5, <3>1 DEF Report!Gathered
    <3>3. Report!DiffersBy(new, n, m)
      BY <2>5, <3>2 DEF Report!DiffersBy
    <3>4. Report!BarsFit(new)
      BY <2>2, <2>5, <3>3 DEF Report!BarsFit
    <3> QED BY <2>6, <3>2, <3>4 DEF Report!Gathered
  <2> QED BY <1>2, <2>6, <2>7, <2>8, ReportReplaced
<1>8. CASE Report!RankProducts(r)
  <2>1. PICK top, sold : top = Report!TopProducts /\ sold = [p \in Products |-> Report!Sold(p)]
    OBVIOUS
  <2>2. /\ top \in Seq([id : Products, quantity : Nat]) /\ sold \in [Products -> Nat]
        /\ Report!TopFits(top, sold)
    BY <2>1, ReportTop
  <2>3. PICK new : new = [r.report EXCEPT !.top = top, !.sold = sold]
    OBVIOUS
  <2>4. PICK s : s = [r EXCEPT !.stage = "done", !.report = new]
    OBVIOUS
  <2>5. /\ new \in Report!Reports /\ new.top = top /\ new.sold = sold
        /\ new.counts = r.report.counts /\ new.summary = r.report.summary /\ new.drift = r.report.drift
    BY <1>3, <2>2, <2>3 DEF Report!Reports
  <2>6. s \in Report!Requests /\ s.n = r.n /\ ~s.failed /\ s.stage = "done" /\ s.report = new
    BY <1>2, <1>4, <2>4, <2>5 DEF Report!Requests
  <2>7. reportRequests' = (reportRequests \ {r}) \cup {s}
          /\ UNCHANGED <<reported, report, changes, reportLost, reportVisits>>
    BY <1>8, <2>1, <2>3, <2>4 DEF Report!RankProducts, Report!Becomes
  <2>8. Report!Gathered(s)
    <3>1. r.stage = "counted"
      BY <1>8 DEF Report!RankProducts
    <3>2. Report!AverageFits(new.summary) /\ Report!BarsFit(r.report)
      BY <1>4, <2>5, <3>1 DEF Report!Gathered
    <3>3. Report!BarsFit(new)
      BY <2>5, <3>2 DEF Report!BarsFit, Report!DiffersBy
    <3> QED BY <2>2, <2>5, <2>6, <3>2, <3>3 DEF Report!Gathered
  <2> QED BY <1>2, <2>6, <2>7, <2>8, ReportReplaced
<1> QED BY <1>6, <1>7, <1>8

\* A query or the connection fails.
LEMMA ReportFail ==
    ASSUME Report!ReportAssumption, Report!IInv, NEW r \in reportRequests, Report!Fail(r)
    PROVE  Report!IInv'
<1>1. r \in Report!Requests /\ reportLost \in 0..ReportLosses /\ ReportLosses \in Nat
  BY ReportConstants DEF Report!IInv, Report!TypeOK
<1>2. PICK s : s = [r EXCEPT !.stage = "done", !.failed = TRUE]
  OBVIOUS
<1>3. /\ reportRequests' = (reportRequests \ {r}) \cup {s} /\ UNCHANGED <<reported, report, changes, reportVisits>>
      /\ reportLost < ReportLosses /\ reportLost' = reportLost + 1
  BY <1>2 DEF Report!Fail, Report!Becomes
<1>4. s \in Report!Requests /\ s.n = r.n /\ s.failed /\ s.stage = "done"
  BY <1>1, <1>2 DEF Report!Requests
<1>5. reportLost' \in 0..ReportLosses
  BY <1>1, <1>3
<1> QED BY <1>3, <1>4, <1>5, ReportReplaced

\* The page shows what it gets.
LEMMA ReportReceive ==
    ASSUME Report!ReportAssumption, Report!IInv, NEW r \in reportRequests, Report!Receive(r)
    PROVE  Report!IInv'
<1>1. /\ Report!TypeOK /\ (\A q \in reportRequests : q = r) /\ (report.loading => ~report.shown /\ ~report.error)
      /\ IF r.failed THEN r.stage = "done" ELSE Report!Gathered(r)
  BY DEF Report!IInv
<1>2. /\ r.stage = "done" /\ reportRequests' = reportRequests \ {r}
      /\ report' = IF r.failed THEN [report EXCEPT !.error = TRUE, !.loading = FALSE]
                   ELSE [report EXCEPT !.shown = TRUE, !.report = r.report, !.loading = FALSE]
      /\ UNCHANGED <<reported, changes, reportLost, reportVisits>>
  BY DEF Report!Receive, Report!LoadingAfter
<1>3. reportRequests' = {}
  BY <1>1, <1>2
<1>4. report \in Report!Page /\ r \in Report!Requests /\ report.loading /\ ~report.shown /\ ~report.error
  BY <1>1 DEF Report!TypeOK
<1>5. r.report \in Report!Reports
  BY <1>4 DEF Report!Requests
<1>6. CASE r.failed
  <2>1. report' = [report EXCEPT !.error = TRUE, !.loading = FALSE]
    BY <1>2, <1>6
  <2>2. report' \in Report!Page /\ ~report'.loading /\ ~report'.shown
    BY <1>4, <2>1 DEF Report!Page
  <2>3. Report!TypeOK'
    BY <1>1, <1>2, <1>3, <2>2 DEF Report!TypeOK
  <2>4. Report!PartsDriftApart' /\ Report!TopIsBest'
    BY <2>2 DEF Report!PartsDriftApart, Report!TopIsBest
  <2> QED BY <1>3, <2>2, <2>3, <2>4 DEF Report!IInv
<1>7. CASE ~r.failed
  <2>1. report' = [report EXCEPT !.shown = TRUE, !.report = r.report, !.loading = FALSE]
    BY <1>2, <1>7
  <2>2. report' \in Report!Page /\ ~report'.loading /\ ~report'.error /\ report'.report = r.report
    BY <1>4, <1>5, <2>1 DEF Report!Page
  <2>3. Report!TypeOK'
    BY <1>1, <1>2, <1>3, <2>2 DEF Report!TypeOK
  <2>4. /\ Report!AverageFits(r.report.summary) /\ Report!BarsFit(r.report)
        /\ Report!TopFits(r.report.top, r.report.sold)
    BY <1>1, <1>2, <1>7 DEF Report!Gathered
  <2>5. Report!PartsDriftApart' /\ Report!TopIsBest'
    BY <2>2, <2>4 DEF Report!PartsDriftApart, Report!TopIsBest
  <2> QED BY <1>3, <2>2, <2>3, <2>5 DEF Report!IInv
<1> QED BY <1>6, <1>7

\* A change moves each number by one at most.
LEMMA ReportMoves ==
    ASSUME Report!ReportAssumption, reported \in [Reported -> Report!Statuses \cup {"absent"}],
           NEW o \in Reported, NEW s \in Report!Statuses, reported' = [reported EXCEPT ![o] = s]
    PROVE  /\ Cardinality(Report!Existing') \in {Cardinality(Report!Existing), Cardinality(Report!Existing) + 1}
           /\ Cardinality(Report!Confirmed') \in {Cardinality(Report!Confirmed) - 1, Cardinality(Report!Confirmed),
                                                 Cardinality(Report!Confirmed) + 1}
<1>1. \A p \in Reported : reported'[p] = IF p = o THEN s ELSE reported[p]
  OBVIOUS
<1>2. s # "absent"
  BY DEF Report!Statuses
<1>3. Report!Existing' = Report!Existing \cup {o}
  BY <1>1, <1>2 DEF Report!Existing
<1>4. Report!Confirmed' = IF s \in Report!confirmedOrderStatuses THEN Report!Confirmed
        \cup {o} ELSE Report!Confirmed \ {o}
  BY <1>1 DEF Report!Confirmed
<1>5. /\ IsFiniteSet(Report!Existing) /\ IsFiniteSet(Report!Confirmed)
      /\ Cardinality(Report!Existing) \in Nat /\ Cardinality(Report!Confirmed) \in Nat
  BY ReportExisting
<1>6. Cardinality(Report!Existing \cup {o}) \in {Cardinality(Report!Existing), Cardinality(Report!Existing) + 1}
  BY <1>5, FS_AddElement
<1>7. Cardinality(Report!Confirmed \cup {o}) \in {Cardinality(Report!Confirmed), Cardinality(Report!Confirmed) + 1}
  BY <1>5, FS_AddElement
<1>8. Cardinality(Report!Confirmed \ {o}) \in {Cardinality(Report!Confirmed), Cardinality(Report!Confirmed) - 1}
  BY <1>5, FS_RemoveElement
<1> QED BY <1>3, <1>4, <1>6, <1>7, <1>8

\* A number that moves by one is further apart by one at most.
LEMMA ReportApart ==
    ASSUME NEW n \in Nat, NEW m \in Nat, NEW k \in Nat, NEW d \in Nat, m \in {n - 1, n, n + 1}, Report!Apart(n, k) <= d
    PROVE  Report!Apart(m, k) <= d + 1
BY DEF Report!Apart

\* Somebody creates an order or changes its status.
LEMMA ReportChange ==
    ASSUME Report!ReportAssumption, Report!IInv, NEW o \in Reported, NEW s \in Report!Statuses, Report!Change(o, s)
    PROVE  Report!IInv'
<1>1. /\ Report!TypeOK /\ Report!PartsDriftApart /\ Report!TopIsBest
      /\ (\A q, r \in reportRequests : q = r) /\ (report.loading => ~report.shown /\ ~report.error)
      /\ \A r \in reportRequests : IF r.failed THEN r.stage = "done" ELSE Report!Gathered(r)
  BY DEF Report!IInv
<1>2. /\ changes < ReportChanges /\ changes' = changes + 1
      /\ reported' = [reported EXCEPT ![o] = s]
      /\ reportRequests' = {IF Report!Gathering(r) THEN [r EXCEPT !.report.drift = @ + 1] ELSE r : r \in reportRequests}
      /\ UNCHANGED <<report, reportLost, reportVisits>>
  BY DEF Report!Change
<1>3. changes' \in 0..ReportChanges
  <2>1. changes \in 0..ReportChanges /\ ReportChanges \in Nat
    BY <1>1, ReportConstants DEF Report!TypeOK
  <2> QED BY <1>2, <2>1
<1>4. reported \in [Reported -> Report!Statuses \cup {"absent"}]
        /\ reported' \in [Reported -> Report!Statuses \cup {"absent"}]
  BY <1>1, <1>2 DEF Report!TypeOK
<1>5. PICK n \in Nat, m \in Nat, n1 \in Nat, m1 \in Nat :
         /\ n = Report!Cardinality(Report!Existing) /\ m = Report!Cardinality(Report!Confirmed)
         /\ n1 = Report!Cardinality(Report!Existing') /\ m1 = Report!Cardinality(Report!Confirmed')
         /\ n1 \in {n - 1, n, n + 1} /\ m1 \in {m - 1, m, m + 1}
  <2>1. PICK n \in Nat, m \in Nat : n = Cardinality(Report!Existing) /\ m = Cardinality(Report!Confirmed)
    BY ReportExisting
  <2>2. PICK n1, m1 : n1 = Cardinality(Report!Existing') /\ m1 = Cardinality(Report!Confirmed')
    OBVIOUS
  <2>3. n1 \in {n, n + 1} /\ m1 \in {m - 1, m, m + 1}
    BY <1>2, <1>4, <2>1, <2>2, ReportMoves
  <2>4. n1 \in Nat /\ m1 \in Nat
    <3>1. IsFiniteSet(Reported)
      BY ReportConstants
    <3>2. Report!Existing' \in SUBSET Reported /\ Report!Confirmed' \in SUBSET Reported
      BY DEF Report!Existing, Report!Confirmed
    <3> QED BY <2>2, <3>1, <3>2, FS_Subset, FS_CardinalityType
  <2> QED BY <2>1, <2>2, <2>3, <2>4, ReportSets
<1>6. ASSUME NEW r \in reportRequests, NEW q, q = IF Report!Gathering(r) THEN [r EXCEPT !.report.drift = @ + 1] ELSE r
      PROVE  q \in Report!Requests /\ q.n = r.n /\ IF q.failed THEN q.stage = "done" ELSE Report!Gathered(q)'
  <2>1. r \in Report!Requests /\ IF r.failed THEN r.stage = "done" ELSE Report!Gathered(r)
    BY <1>1 DEF Report!TypeOK
  <2>2. CASE ~Report!Gathering(r)
    <3>1. q = r /\ r.stage \notin {"summed", "counted"}
      BY <1>6, <2>2 DEF Report!Gathering
    <3>2. Report!Gathered(r) => Report!Gathered(r)'
      BY <3>1 DEF Report!Gathered
    <3> QED BY <2>1, <3>1, <3>2
  <2>3. CASE Report!Gathering(r)
    <3>1. r.stage \in {"summed", "counted"} /\ ~r.failed /\ Report!Gathered(r)
      BY <2>1, <2>3 DEF Report!Gathering
    <3>2. r.report \in Report!Reports
      BY <2>1 DEF Report!Requests
    <3>3. PICK d \in Nat : d = r.report.drift
      BY <3>2 DEF Report!Reports
    <3>4. PICK new : new = [r.report EXCEPT !.drift = d + 1]
      OBVIOUS
    <3>5. /\ new \in Report!Reports /\ new.drift = d + 1 /\ new.summary = r.report.summary
            /\ new.counts = r.report.counts
      <4>1. PICK e \in Nat : e = d + 1
        OBVIOUS
      <4>2. new = [r.report EXCEPT !.drift = e]
        BY <3>4, <4>1
      <4>3. new \in Report!Reports /\ new.drift = e /\ new.summary = r.report.summary /\ new.counts = r.report.counts
        BY <3>2, <4>2 DEF Report!Reports
      <4> QED BY <4>1, <4>3
    <3>6. q = [r EXCEPT !.report = new]
      BY <1>6, <2>3, <3>3, <3>4
    <3>7. q \in Report!Requests /\ q.n = r.n /\ q.failed = r.failed /\ q.stage = r.stage /\ q.report = new
      BY <2>1, <3>5, <3>6 DEF Report!Requests
    <3>8. PICK count \in Nat, confirmed \in Nat : count = r.report.summary.orderCount
            /\ confirmed = r.report.summary.confirmedOrderCount
      <4>1. r.report.summary \in [orderCount : Nat, confirmedOrderCount : Nat, confirmedOrderValue : Nat,
              averageOrderValue : Nat]
        BY <3>2 DEF Report!Reports
      <4> QED BY <4>1
    <3>9. Report!AverageFits(new.summary)
      BY <3>1, <3>5 DEF Report!Gathered
    <3>10. CASE r.stage = "summed"
      <4>1. Report!DiffersBy(r.report, n, m)
        BY <1>5, <3>1, <3>10 DEF Report!Gathered
      <4>2. Report!Apart(n1, count) <= d + 1 /\ Report!Apart(m1, confirmed) <= d + 1
        <5>1. Report!Apart(n, count) <= d /\ Report!Apart(m, confirmed) <= d
          BY <3>3, <3>8, <4>1 DEF Report!DiffersBy
        <5> QED BY <1>5, <5>1, ReportApart
      <4>3. Report!DiffersBy(new, n1, m1)
        BY <3>5, <3>8, <4>2 DEF Report!DiffersBy
      <4>4. Report!Gathered(q)'
        BY <1>5, <3>7, <3>9, <3>10, <4>3 DEF Report!Gathered
      <4> QED BY <3>1, <3>7, <4>4
    <3>11. CASE r.stage = "counted"
      <4>1. Report!BarsFit(r.report)
        BY <3>1, <3>11 DEF Report!Gathered
      <4>2. PICK all, some : /\ all = Report!SumFunctionOnSet(new.counts, Report!Statuses)
                             /\ some = Report!SumFunctionOnSet(new.counts, {"paid", "preparing", "shipped"})
        OBVIOUS
      <4>3. Report!Apart(all, count) <= d /\ Report!Apart(some, confirmed) <= d
        BY <3>3, <3>5, <3>8, <4>1, <4>2 DEF Report!BarsFit, Report!DiffersBy
      <4>4. all \in Nat /\ some \in Nat
        <5>1. new.counts \in [Report!Statuses -> Nat]
          BY <3>5 DEF Report!Reports
        <5>2. IsFiniteSet(Report!Statuses) /\ {"paid", "preparing", "shipped"} \subseteq Report!Statuses
          BY ReportStatuses
        <5>3. IsFiniteSet({"paid", "preparing", "shipped"})
          BY <5>2, FS_Subset
        <5>4. PICK T : T = {"paid", "preparing", "shipped"}
          OBVIOUS
        <5>5. \A x \in T : new.counts[x] \in Nat
          BY <5>1, <5>2, <5>4
        <5>6. Report!SumFunctionOnSet(new.counts, T) \in Nat
          BY <5>3, <5>4, <5>5, SumBetween
        <5>7. Report!SumFunctionOnSet(new.counts, Report!Statuses) \in Nat
          BY <5>1, <5>2, SumBetween
        <5> QED BY <4>2, <5>4, <5>6, <5>7
      <4>5. Report!Apart(all, count) <= d + 1 /\ Report!Apart(some, confirmed) <= d + 1
        BY <4>3, <4>4, ReportApart
      <4>6. Report!BarsFit(new)
        BY <3>5, <3>8, <4>2, <4>5 DEF Report!BarsFit, Report!DiffersBy
      <4>7. Report!Gathered(q)'
        BY <3>7, <3>9, <3>11, <4>6 DEF Report!Gathered
      <4> QED BY <3>1, <3>7, <4>7
    <3> QED BY <3>1, <3>10, <3>11
  <2> QED BY <2>2, <2>3
<1>7. \A q \in reportRequests' : \E r \in reportRequests :
         /\ q = (IF Report!Gathering(r) THEN [r EXCEPT !.report.drift = @ + 1] ELSE r)
         /\ q \in Report!Requests /\ q.n = r.n /\ IF q.failed THEN q.stage = "done" ELSE Report!Gathered(q)'
  BY <1>2, <1>6
<1>8. reportRequests' = {} <=> reportRequests = {}
  BY <1>2
<1>9. Report!TypeOK'
  <2>1. reportRequests' \subseteq Report!Requests /\ \A q \in reportRequests' : q.n = reportVisits'
    BY <1>1, <1>2, <1>7 DEF Report!TypeOK
  <2> QED BY <1>1, <1>2, <1>3, <1>4, <1>8, <2>1 DEF Report!TypeOK
<1>10. Report!PartsDriftApart' /\ Report!TopIsBest'
  BY <1>1, <1>2 DEF Report!PartsDriftApart, Report!TopIsBest
<1>11. \A p, q \in reportRequests' : p = q
  BY <1>1, <1>7
<1>12. \A q \in reportRequests' : IF q.failed THEN q.stage = "done" ELSE Report!Gathered(q)'
  BY <1>7
<1> QED BY <1>1, <1>2, <1>9, <1>10, <1>11, <1>12 DEF Report!IInv

\* Every step of the page, of the queries and of others.
LEMMA ReportStep ==
    ASSUME Report!ReportAssumption, Report!IInv, Report!Next
    PROVE  Report!IInv'
<1>1. CASE Report!Open \/ Report!Retry
  BY <1>1, ReportAsk
<1>2. CASE \E o \in Reported, s \in Report!Statuses : Report!Change(o, s)
  BY <1>2, ReportChange
<1>3. CASE \E r \in reportRequests : Report!Summarise(r) \/ Report!CountStatuses(r) \/ Report!RankProducts(r)
  BY <1>3, ReportQueries
<1>4. CASE \E r \in reportRequests : Report!Receive(r)
  BY <1>4, ReportReceive
<1>5. CASE \E r \in reportRequests : Report!Fail(r)
  BY <1>5, ReportFail
<1> QED BY <1>1, <1>2, <1>3, <1>4, <1>5 DEF Report!Next

\* Nothing changes while a behaviour is of another part, or stutters.
LEMMA ReportStutter ==
    ASSUME Report!IInv, UNCHANGED reportVars
    PROVE  Report!IInv'
<1>1. UNCHANGED <<reported, report, reportRequests, changes, reportLost, reportVisits>>
  BY DEF reportVars
<1>2. /\ Report!TypeOK /\ Report!PartsDriftApart /\ Report!TopIsBest
      /\ (\A r, s \in reportRequests : r = s) /\ (report.loading => ~report.shown /\ ~report.error)
      /\ \A r \in reportRequests : IF r.failed THEN r.stage = "done" ELSE Report!Gathered(r)
  BY DEF Report!IInv
<1>3. \A r : Report!Gathered(r) => Report!Gathered(r)'
  BY <1>1, ReportGatheredSame
<1>4. Report!TypeOK'
  BY <1>1, <1>2 DEF Report!TypeOK
<1>5. Report!PartsDriftApart' /\ Report!TopIsBest'
  BY <1>1, <1>2 DEF Report!PartsDriftApart, Report!TopIsBest
<1> QED BY <1>1, <1>2, <1>3, <1>4, <1>5 DEF Report!IInv

-----------------------------------------------------------------------------
(* The pages together *)

\* A behaviour begins with one page.
LEMMA PagesInit == MCInit => PagesInv
<1> SUFFICES ASSUME MCInit PROVE PagesInv
  OBVIOUS
<1>1. /\ \A c \in Settings : Bench(c)!WorkbenchAssumption /\ c.part # "list" /\ c.part # "report"
      /\ \A c, d \in Settings : c.part = d.part => c = d
      /\ List!ListAssumption /\ Report!ReportAssumption
  BY PagesAssumption
<1>2. part = "list" => List!IInv
  BY <1>1, ListInit DEF MCInit
<1>3. part = "report" => Report!IInv
  BY <1>1, ReportInit DEF MCInit
<1>4. CASE \E c \in Settings : part = c.part /\ Bench(c)!Init
  <2>1. PICK c \in Settings : part = c.part /\ Bench(c)!Init
    BY <1>4
  <2>2. Bench(c)!IInv
    BY <1>1, <2>1, BenchInit
  <2>3. \A d \in Settings : part = d.part => d = c
    BY <1>1, <2>1
  <2> QED BY <1>2, <1>3, <2>2, <2>3 DEF PagesInv
<1>5. CASE part \in {"list", "report"}
  BY <1>1, <1>2, <1>3, <1>5 DEF PagesInv
<1> QED BY <1>4, <1>5 DEF MCInit

\* Every step is one of the behaviour's page.
LEMMA PagesStep == PagesInv /\ [MCNext]_<<part, orderVars, listVars, reportVars>> => PagesInv'
<1> SUFFICES ASSUME PagesInv, [MCNext]_<<part, orderVars, listVars, reportVars>> PROVE PagesInv'
  OBVIOUS
<1>1. /\ \A c \in Settings : Bench(c)!WorkbenchAssumption /\ c.part # "list" /\ c.part # "report"
      /\ \A c, d \in Settings : c.part = d.part => c = d
      /\ List!ListAssumption /\ Report!ReportAssumption
  BY PagesAssumption
<1>2. /\ \A c \in Settings : part = c.part => Bench(c)!IInv
      /\ part = "list" => List!IInv
      /\ part = "report" => Report!IInv
  BY DEF PagesInv
<1>3. part' = part
  BY DEF MCNext
<1>4. ASSUME NEW c \in Settings, part = c.part, Bench(c)!Next PROVE PagesInv'
  <2>1. Bench(c)!IInv'
    BY <1>1, <1>2, <1>4, BenchStep
  <2>2. \A d \in Settings : part = d.part => d = c
    BY <1>1, <1>4
  <2>3. part # "list" /\ part # "report"
    BY <1>1, <1>4
  <2> QED BY <1>3, <2>1, <2>2, <2>3 DEF PagesInv
<1>5. CASE part = "list" /\ List!Next
  <2>1. List!IInv'
    BY <1>1, <1>2, <1>5, ListStep
  <2> QED BY <1>1, <1>3, <1>5, <2>1 DEF PagesInv
<1>6. CASE part = "report" /\ Report!Next
  <2>1. Report!IInv'
    BY <1>1, <1>2, <1>6, ReportStep
  <2> QED BY <1>1, <1>3, <1>6, <2>1 DEF PagesInv
<1>7. CASE UNCHANGED <<part, orderVars, listVars, reportVars>>
  <2>1. UNCHANGED orderVars /\ UNCHANGED listVars /\ UNCHANGED reportVars
    BY <1>7
  <2>2. \A c \in Settings : part = c.part => Bench(c)!IInv'
    BY <1>2, <2>1, BenchStutter
  <2>3. part = "list" => List!IInv'
    BY <1>2, <2>1, ListStutter
  <2>4. part = "report" => Report!IInv'
    BY <1>2, <2>1, ReportStutter
  <2> QED BY <1>3, <2>2, <2>3, <2>4 DEF PagesInv
<1> QED BY <1>4, <1>5, <1>6, <1>7 DEF MCNext

\* Where the pages stand in any behaviour.
THEOREM PagesInvariant == MCSpec => []PagesInv
BY PagesInit, PagesStep, PTL DEF MCSpec

(* The page of an order has one change under way at most, whatever order it shows
   meanwhile; if the operator stays while a change is saved it holds the record, the link
   and the fields of the order of its route; shipping before the final payment is warned
   about; what is offered on a current record is granted (AdminOrderPage.tsx).  *)
THEOREM PagesWorkbench == MCSpec => []WorkbenchSafe
<1>1. PagesInv => WorkbenchSafe
  <2> SUFFICES ASSUME PagesInv, NEW c \in Settings, part = c.part
               PROVE  /\ Bench(c)!TypeOK /\ Bench(c)!SavingMatches
                      /\ c.patient => Bench(c)!RecordIsOwn
                      /\ Bench(c)!ShippedIsWarned /\ Bench(c)!OfferedIsGranted
    BY DEF WorkbenchSafe
  <2>1. Bench(c)!WorkbenchAssumption
    BY PagesAssumption
  <2>2. Bench(c)!IInv
    BY DEF PagesInv
  <2> QED BY <2>1, <2>2, BenchSafe
<1> QED BY <1>1, PagesInvariant, PTL

(* The list shows the first orders of the one listing that is asked for; the parts of a
   report differ by no more than what changed while it was gathered, and its products are
   the best of one moment (OrdersPage.tsx, listOrders; ReportPage.tsx, shopReport).  *)
THEOREM PagesViews == MCSpec => []ViewsExact
<1>1. PagesInv => ViewsExact
  <2> SUFFICES ASSUME PagesInv PROVE ViewsExact
    OBVIOUS
  <2>1. part = "list" => List!TypeOK /\ List!ListExact
    <3>1. List!ListAssumption
      BY PagesAssumption
    <3> QED BY <3>1, ListSafe DEF PagesInv
  <2>2. part = "report" => Report!TypeOK /\ Report!PartsDriftApart /\ Report!TopIsBest
    BY DEF PagesInv, Report!IInv
  <2> QED BY <2>1, <2>2 DEF ViewsExact
<1> QED BY <1>1, PagesInvariant, PTL
=============================================================================
