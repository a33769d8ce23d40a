------------------------------ MODULE FoldLemmas ------------------------------
(***************************************************************************)
(* What folds and orders of finite sets compute, for any length.  The folds  *)
(* of the community modules are defined by CHOOSE over a function on the      *)
(* subsets of 1..n; FoldExists shows that there is one, whatever is folded,   *)
(* so that what a fold returns can be read off its equation.  Induction over  *)
(* n comes from NatLessThanWellFounded: a set that has 0 and, with every n,   *)
(* n + 1, has a least element outside of it, or none.                         *)
(***************************************************************************)
EXTENDS Lists, FiniteSetTheorems, WellFoundedInduction, TLAPS

----------------------------------------------------------------------------
(* Natural numbers, step by step *)

\* A set that has 0, and n + 1 with every n, has every natural number.
LEMMA NaturalsByStep ==
    ASSUME NEW G, 0 \in G, \A n \in Nat : n \in G => n + 1 \in G
    PROVE  Nat \subseteq G
<1> SUFFICES ASSUME ~(Nat \subseteq G) PROVE FALSE
  OBVIOUS
<1> DEFINE out == Nat \ G
           less == OpToRel(<, Nat)
<1>1. out \subseteq Nat /\ out # {}
  OBVIOUS
<1>2. IsWellFoundedOn(less, Nat)
  BY NatLessThanWellFounded
<1>3. \E x \in out : \A y \in out : <<y, x>> \notin less
  <2> HIDE DEF out, less
  <2> QED
    BY <1>1, <1>2, WFMin
<1>4. PICK n \in out : \A y \in out : <<y, n>> \notin less
  BY <1>3
<1>5. n \in Nat /\ n \notin G
  BY <1>4
<1>6. n - 1 \in Nat /\ (n - 1) + 1 = n
  BY <1>5
<1>7. <<n - 1, n>> \in less
  BY <1>5, <1>6 DEF OpToRel
<1>8. n - 1 \in G
  BY <1>4, <1>6, <1>7
<1> QED
  BY <1>5, <1>6, <1>8

\* The end of an interval is its largest element.
LEMMA MaxOfInterval ==
    ASSUME NEW n \in Nat, NEW s \in SUBSET (1..n+1), n + 1 \in s
    PROVE  Max(s) = n + 1
<1>1. \A y \in s : y \in Int /\ n + 1 >= y
  OBVIOUS
<1>2. \A x \in s : (\A y \in s : x >= y) => x = n + 1
  BY <1>1
<1> QED
  BY <1>1, <1>2 DEF Max

\* A set of places has a largest one.
LEMMA MaxIsIn ==
    ASSUME NEW n \in Nat, NEW s \in SUBSET (1..n), s # {}
    PROVE  Max(s) \in s /\ \A y \in s : Max(s) >= y
<1> DEFINE G == {m \in Nat : \A t \in SUBSET (1..m) : t # {} => (\E x \in t : \A y \in t : x >= y)}
<1>1. 0 \in G
  <2>1. 1..0 = {}
    OBVIOUS
  <2> QED
    BY <2>1
<1>2. ASSUME NEW m \in Nat, m \in G PROVE m + 1 \in G
  <2> SUFFICES ASSUME NEW t \in SUBSET (1..m+1), t # {} PROVE \E x \in t : \A y \in t : x >= y
    OBVIOUS
  <2>1. CASE m + 1 \in t
    BY <2>1
  <2>2. CASE m + 1 \notin t
    <3>1. t \in SUBSET (1..m)
      BY <2>2
    <3> QED
      BY <1>2, <3>1
  <2> QED
    BY <2>1, <2>2
<1>3. n \in G
  <2> HIDE DEF G
  <2> QED
    BY <1>1, <1>2, NaturalsByStep
<1>4. \E x \in s : \A y \in s : x >= y
  BY <1>3
<1> QED
  BY <1>4 DEF Max

\* A set of natural numbers has a smallest one.
LEMMA MinIsIn ==
    ASSUME NEW S \in SUBSET Nat, S # {}
    PROVE  \E x \in S : \A y \in S : x <= y
<1> SUFFICES ASSUME ~\E x \in S : \A y \in S : x <= y PROVE FALSE
  OBVIOUS
<1> DEFINE G == {m \in Nat : \A x \in S : x > m}
<1>1. 0 \in G
  BY DEF G
<1>2. ASSUME NEW m \in Nat, m \in G PROVE m + 1 \in G
  <2>1. \A x \in S : x \in Nat /\ x > m
    BY <1>2
  <2>2. m + 1 \notin S
    <3>1. \A x \in S : m + 1 <= x
      BY <2>1
    <3> QED
      BY <3>1
  <2>3. \A x \in S : x # m + 1
    BY <2>2
  <2> QED
    BY <2>1, <2>3
<1>3. Nat \subseteq G
  <2> HIDE DEF G
  <2> QED
    BY <1>1, <1>2, NaturalsByStep
<1>4. PICK x \in S : TRUE
  OBVIOUS
<1>5. x \in Nat /\ x > x
  BY <1>3, <1>4
<1> QED
  BY <1>5

----------------------------------------------------------------------------
(* Folds *)

\* g is the fold of h over the places 1 .. n, the largest one last.
IsFold(n, V, base, h, g) ==
    /\ g \in [SUBSET (1..n) -> V]
    /\ \A s \in SUBSET (1..n) : g[s] = IF s = {} THEN base ELSE h[<<Max(s), g[s \ {Max(s)}]>>]

\* A fold over m places extends to one more.
LEMMA FoldStep ==
    ASSUME NEW m \in Nat, NEW n \in Nat, m + 1 <= n,
           NEW V, NEW base \in V, NEW h \in [(1..n) \X V -> V],
           NEW f, IsFold(m, V, base, h, f)
    PROVE  \E g : IsFold(m + 1, V, base, h, g)
<1> DEFINE g == [s \in SUBSET (1..m+1) |->
                     IF m + 1 \in s THEN h[<<m + 1, f[s \ {m + 1}]>>] ELSE f[s]]
<1>1. \A s \in SUBSET (1..m+1) : /\ m + 1 \in s => (s \ {m + 1}) \in SUBSET (1..m)
                                 /\ m + 1 \notin s => s \in SUBSET (1..m)
  OBVIOUS
<1>2. ASSUME NEW s \in SUBSET (1..m) PROVE f[s] \in V /\ <<m + 1, f[s]>> \in (1..n) \X V
  BY DEF IsFold
<1>3. ASSUME NEW s \in SUBSET (1..m+1) PROVE g[s] \in V
  <2>1. CASE m + 1 \in s
    <3>1. s \ {m + 1} \in SUBSET (1..m) /\ g[s] = h[<<m + 1, f[s \ {m + 1}]>>]
      BY <1>1, <2>1
    <3> QED
      BY <1>2, <3>1
  <2>2. CASE m + 1 \notin s
    <3>1. s \in SUBSET (1..m) /\ g[s] = f[s]
      BY <1>1, <2>2
    <3> QED
      BY <1>2, <3>1
  <2> QED
    BY <2>1, <2>2
<1>4. g \in [SUBSET (1..m+1) -> V]
  BY <1>3
<1>5. ASSUME NEW s \in SUBSET (1..m+1)
        PROVE  g[s] = IF s = {} THEN base ELSE h[<<Max(s), g[s \ {Max(s)}]>>]
  <2>1. CASE m + 1 \in s
      <4>1. Max(s) = m + 1
        BY <2>1, MaxOfInterval
      <4>2. g[s \ {m + 1}] = f[s \ {m + 1}]
        BY <1>1, <2>1
      <4> QED
        BY <2>1, <4>1, <4>2
  <2>2. CASE m + 1 \notin s
      <4>1. s \in SUBSET (1..m) /\ g[s] = f[s]
        BY <1>1, <2>2
      <4>2. g[s \ {Max(s)}] = f[s \ {Max(s)}]
        <5>1. s \ {Max(s)} \in SUBSET (1..m+1) /\ m + 1 \notin s \ {Max(s)}
          BY <2>2
        <5> QED
          BY <5>1
      <4> HIDE DEF g
      <4> QED
        BY <4>1, <4>2 DEF IsFold
  <2> QED
    BY <2>1, <2>2
<1> HIDE DEF g
<1> QED
  BY <1>4, <1>5 DEF IsFold

\* There is a fold over every number of places.
LEMMA FoldExists ==
    ASSUME NEW n \in Nat, NEW V, NEW base \in V, NEW h \in [(1..n) \X V -> V]
    PROVE  \E g : IsFold(n, V, base, h, g)
<1> DEFINE G == {m \in Nat : m <= n => (\E g : IsFold(m, V, base, h, g))}
<1>1. 0 \in G
  <2>1. IsFold(0, V, base, h, [s \in SUBSET (1..0) |-> base])
    <3>1. 1..0 = {}
      OBVIOUS
    <3> QED
      BY <3>1 DEF IsFold
  <2> QED
    BY <2>1
<1>2. ASSUME NEW m \in Nat, m \in G PROVE m + 1 \in G
  <2>1. m + 1 <= n => \E g : IsFold(m + 1, V, base, h, g)
    <3> SUFFICES ASSUME m + 1 <= n PROVE \E g : IsFold(m + 1, V, base, h, g)
      OBVIOUS
    <3>1. PICK f : IsFold(m, V, base, h, f)
      BY <1>2
    <3> QED
      BY <3>1, FoldStep
  <2> QED
    BY <2>1
<1>3. n \in G
  <2> HIDE DEF G
  <2> QED
    BY <1>1, <1>2, NaturalsByStep
<1> QED
  BY <1>3

\* The first k places: a fold visits them in their order.
LEMMA FirstPlaces ==
    ASSUME NEW n \in Nat, NEW k \in 1..n
    PROVE  /\ 1..k \in SUBSET (1..n) /\ 1..k # {}
           /\ Max(1..k) = k
           /\ (1..k) \ {k} = 1..(k-1)
<1>1. /\ (1..k) \in SUBSET (1..n) 
      /\ k \in 1..k
  OBVIOUS
<1>2. k - 1 \in Nat /\ (k - 1) + 1 = k
  OBVIOUS
<1>3. Max(1..k) = k
  BY <1>1, <1>2, MaxOfInterval
<1>4. \A x : x \in (1..k) \ {k} <=> x \in 1..(k - 1)
  OBVIOUS
<1>5. (1..k) \ {k} = 1..(k - 1)
  BY <1>4
<1>6. 1..k # {}
  BY <1>1
<1> QED
  BY <1>1, <1>3, <1>5, <1>6

\* it folds h over the sets of places, on what it has in V
FoldsBy(it, n, V, base, h) ==
    /\ it[{}] = base
    /\ \A s \in SUBSET (1..n) : (s # {} /\ it[s \ {Max(s)}] \in V) =>
          it[s] = h[<<Max(s), it[s \ {Max(s)}]>>]

\* what a fold has computed after each place, and in the end
Chain(r, n, V, base, h, last) ==
    /\ r \in [0..n -> V]
    /\ r[0] = base /\ r[n] = last
    /\ \A k \in 1..n : r[k] = h[<<k, r[k - 1]>>]

\* What a fold has computed after each of n places.
LEMMA FoldChain ==
    ASSUME NEW n \in Nat, NEW V, NEW base \in V, NEW h \in [(1..n) \X V -> V], NEW it,
           FoldsBy(it, n, V, base, h)
    PROVE  \E r : Chain(r, n, V, base, h, it[1..n])
<1>0. /\ it[{}] = base
      /\ \A s \in SUBSET (1..n) : (s # {} /\ it[s \ {Max(s)}] \in V) =>
            it[s] = h[<<Max(s), it[s \ {Max(s)}]>>]
  BY DEF FoldsBy
<1> DEFINE r == [k \in 0..n |-> it[1..k]]
<1>1. r[0] = base /\ r[n] = it[1..n]
  <2>1. 1..0 = {} /\ 0 \in 0..n /\ n \in 0..n
    OBVIOUS
  <2> QED
    BY <1>0, <2>1
<1>2. ASSUME NEW k \in 1..n, r[k - 1] \in V PROVE r[k] = h[<<k, r[k - 1]>>] /\ r[k] \in V
  <2>1. /\ 1..k \in SUBSET (1..n) /\ 1..k # {}
        /\ Max(1..k) = k /\ (1..k) \ {k} = 1..(k - 1)
    BY FirstPlaces
  <2>2. k \in 0..n /\ k - 1 \in 0..n /\ r[k] = it[1..k] /\ r[k - 1] = it[1..(k - 1)]
    OBVIOUS
  <2> HIDE DEF r
  <2>3. it[1..k] = h[<<k, it[1..(k - 1)]>>]
    BY <1>0, <1>2, <2>1, <2>2
  <2>4. <<k, r[k - 1]>> \in (1..n) \X V
    BY <1>2
  <2> QED
    BY <2>2, <2>3, <2>4
<1>3. r = [k \in 0..n |-> r[k]]
  OBVIOUS
<1> HIDE DEF r
<1> DEFINE G == {k \in Nat : k <= n => r[k] \in V}
<1>4. 0 \in G
  BY <1>1
<1>5. ASSUME NEW k \in Nat, k \in G PROVE k + 1 \in G
  <2> SUFFICES ASSUME k + 1 <= n PROVE r[k + 1] \in V
    OBVIOUS
  <2>1. k + 1 \in 1..n /\ (k + 1) - 1 = k /\ k <= n
    OBVIOUS
  <2>2. r[k] \in V
    BY <1>5, <2>1
  <2> QED
    BY <1>2, <2>1, <2>2
<1>6. Nat \subseteq G
  <2> HIDE DEF G
  <2> QED
    BY <1>4, <1>5, NaturalsByStep
<1>7. \A k \in 0..n : r[k] \in V
  <2>1. \A k \in 0..n : k \in Nat /\ k <= n
    OBVIOUS
  <2> QED
    BY <1>6, <2>1
<1>8. \A k \in 1..n : k - 1 \in 0..n
  OBVIOUS
<1>9. r \in [0..n -> V]
  BY <1>3, <1>7
<1>10. \A k \in 1..n : r[k] = h[<<k, r[k - 1]>>]
  BY <1>2, <1>7, <1>8
<1> QED
  BY <1>1, <1>9, <1>10 DEF Chain

\* Two sets that share nothing have as many elements as both together.
LEMMA DisjointUnion ==
    ASSUME NEW S, IsFiniteSet(S), NEW T, IsFiniteSet(T), S \intersect T = {}
    PROVE  /\ IsFiniteSet(S \union T)
           /\ Cardinality(S \union T) = Cardinality(S) + Cardinality(T)
           /\ Cardinality(S) \in Nat /\ Cardinality(T) \in Nat
<1>1. /\ IsFiniteSet(S \union T)
      /\ Cardinality(S \union T) = Cardinality(S) + Cardinality(T) - Cardinality(S \intersect T)
  BY FS_Union
<1>2. Cardinality(S) \in Nat /\ Cardinality(T) \in Nat
  BY FS_CardinalityType
<1>3. Cardinality(S \intersect T) = 0
  BY FS_EmptySet
<1> DEFINE a == Cardinality(S)
           b == Cardinality(T)
<1>4. a + b - 0 = a + b
  BY <1>2
<1> QED
  BY <1>1, <1>2, <1>3, <1>4

\* The elements of a finite set in some order: a sequence of as many of them, and of all.
LEMMA SetToSeqLists ==
    ASSUME NEW S, IsFiniteSet(S)
    PROVE  /\ SetToSeq(S) \in [1..Cardinality(S) -> S]
           /\ Cardinality(S) \in Nat
           /\ S # {} => Cardinality(S) # 0
           /\ \A x \in S : \E i \in 1..Cardinality(S) : SetToSeq(S)[i] = x
<1> DEFINE n == Cardinality(S)
<1>1. n \in Nat /\ ExistsBijection(1..n, S)
  BY FS_CardinalityType
<1>2. \E f \in [1..n -> S] : IsInjective(f)
  BY <1>1 DEF ExistsBijection, Bijection, Injection, IsInjective
<1>3. SetToSeq(S) \in [1..n -> S] /\ IsInjective(SetToSeq(S))
  BY <1>2 DEF SetToSeq
<1>4. S # {} => n # 0
  BY FS_EmptySet
<1>5. SetToSeq(S) \in Surjection(1..n, S)
  <2>1. SetToSeq(S) \in Injection(1..n, S)
    BY <1>3 DEF Injection, IsInjective
  <2>2. IsFiniteSet(1..n) /\ Cardinality(1..n) = Cardinality(S)
    BY <1>1, FS_Interval
  <2> QED
    BY <2>1, <2>2, FS_Injection
<1> QED
  BY <1>1, <1>3, <1>4, <1>5 DEF Surjection

----------------------------------------------------------------------------
(* The members of a list that are in a set *)

\* one more member
OneMore(kept, e, of) == IF e \in of THEN Append(kept, e) ELSE kept

\* what Kept has found, after each of n places
Finds(r, list, n, S, of) ==
    /\ r \in [0..n -> Seq(S)]
    /\ r[0] = <<>> /\ r[n] = Kept(list, of)
    /\ \A k \in 1..n : r[k] = OneMore(r[k - 1], list[k], of)

\* Kept goes through the list from its first member to its last.
LEMMA KeptChain ==
    ASSUME NEW S, NEW n \in Nat, NEW list \in [1..n -> S], NEW of
    PROVE  \E r : Finds(r, list, n, S, of)
<1> DEFINE F(g) == [s \in SUBSET (1..n) |->
                        IF s = {} THEN <<>> ELSE OneMore(g[s \ {Max(s)}], list[Max(s)], of)]
           it == CHOOSE g : g = F(g)
           h == [p \in (1..n) \X Seq(S) |-> OneMore(p[2], list[p[1]], of)]
<1>1. Kept(list, of) = it[1..n]
  <2>1. DOMAIN list = 1..n
    OBVIOUS
  <2> QED BY <2>1 DEF Kept, FoldLeft, MapThenFoldSet, OneMore
<1>2. ASSUME NEW kept \in Seq(S), NEW i \in 1..n PROVE OneMore(kept, list[i], of) \in Seq(S)
  BY DEF OneMore
<1>3. h \in [(1..n) \X Seq(S) -> Seq(S)]
  BY <1>2
<1>4. PICK g : IsFold(n, Seq(S), <<>>, h, g)
  <2> HIDE DEF h
  <2>1. <<>> \in Seq(S)
    OBVIOUS
  <2> QED
    BY <1>3, <2>1, FoldExists
<1>5. g = F(g)
  <2>1. ASSUME NEW s \in SUBSET (1..n), s # {}
        PROVE  h[<<Max(s), g[s \ {Max(s)}]>>] = OneMore(g[s \ {Max(s)}], list[Max(s)], of)
    <3>1. s \ {Max(s)} \in SUBSET (1..n) /\ g[s \ {Max(s)}] \in Seq(S)
      BY <1>4 DEF IsFold
    <3>2. Max(s) \in 1..n
      BY <2>1, MaxIsIn
    <3> QED
      BY <3>1, <3>2
  <2>2. g = [s \in SUBSET (1..n) |-> g[s]]
    BY <1>4 DEF IsFold
  <2> HIDE DEF h
  <2> QED
    BY <1>4, <2>1, <2>2 DEF IsFold
<1>6. it = F(it)
  <2> HIDE DEF F
  <2> QED
    BY <1>5
<1> DEFINE r == [k \in 0..n |-> it[1..k]]
<1> HIDE DEF it
<1>7. r[0] = <<>> /\ r[n] = Kept(list, of)
  <2>1. 1..0 = {} /\ 1..0 \in SUBSET (1..n) /\ 0 \in 0..n /\ n \in 0..n
    OBVIOUS
  <2>2. it[1..0] = <<>>
    BY <1>6, <2>1
  <2> QED
    BY <1>1, <2>1, <2>2
<1>8. ASSUME NEW k \in 1..n PROVE r[k] = OneMore(r[k - 1], list[k], of)
  <2>1. /\ 1..k \in SUBSET (1..n) /\ 1..k # {}
        /\ Max(1..k) = k /\ (1..k) \ {k} = 1..(k - 1)
    BY FirstPlaces
  <2>2. it[1..k] = OneMore(it[1..(k - 1)], list[k], of)
    BY <1>6, <2>1
  <2>3. k \in 0..n /\ k - 1 \in 0..n
    OBVIOUS
  <2> QED
    BY <2>2, <2>3
<1>9. r \in [0..n -> Seq(S)]
  <2> DEFINE G == {k \in Nat : k <= n => r[k] \in Seq(S)}
  <2>1. 0 \in G
    <3>1. <<>> \in Seq(S)
      OBVIOUS
    <3> HIDE DEF r
    <3> QED
      BY <1>7, <3>1
  <2>2. ASSUME NEW k \in Nat, k \in G PROVE k + 1 \in G
    <3> HIDE DEF r
    <3> SUFFICES ASSUME k + 1 <= n PROVE r[k + 1] \in Seq(S)
      OBVIOUS
    <3>1. k + 1 \in 1..n /\ (k + 1) - 1 = k
      OBVIOUS
    <3> QED
      BY <1>2, <1>8, <2>2, <3>1
  <2>3. Nat \subseteq G
    <3> HIDE DEF G
    <3> QED
      BY <2>1, <2>2, NaturalsByStep
  <2>4. \A k \in 0..n : k \in Nat /\ k <= n
    OBVIOUS
  <2>5. r = [k \in 0..n |-> r[k]]
    OBVIOUS
  <2> HIDE DEF r
  <2>6. \A k \in 0..n : r[k] \in Seq(S)
    BY <2>3, <2>4
  <2> QED
    BY <2>5, <2>6
<1> HIDE DEF r
<1> QED
  BY <1>7, <1>8, <1>9 DEF Finds

\* where the members that are kept come from
Places(p, kept, list, n, of) ==
    /\ p \in [1..Len(kept) -> 1..n]
    /\ \A i, j \in 1..Len(kept) : i < j => p[i] < p[j]
    /\ \A i \in 1..Len(kept) : kept[i] = list[p[i]] /\ list[p[i]] \in of
    /\ \A k \in 1..n : list[k] \in of => \E i \in 1..Len(kept) : p[i] = k

\* The member at the next place is kept.
LEMMA PlacesMore ==
    ASSUME NEW S, NEW list, NEW of, NEW k \in Nat, NEW kept \in Seq(S), NEW p,
           list[k + 1] \in of, list[k + 1] \in S, Places(p, kept, list, k, of)
    PROVE  \E q : Places(q, Append(kept, list[k + 1]), list, k + 1, of)
<1> DEFINE m == Len(kept)
           more == Append(kept, list[k + 1])
           q == [i \in 1..(m + 1) |-> IF i = m + 1 THEN k + 1 ELSE p[i]]
<1>1. m \in Nat
  OBVIOUS
<1>2. Len(more) = m + 1 /\ more[m + 1] = list[k + 1] /\ \A i \in 1..m : more[i] = kept[i]
  OBVIOUS
<1>3. /\ p \in [1..m -> 1..k]
      /\ \A i, j \in 1..m : i < j => p[i] < p[j]
      /\ \A i \in 1..m : kept[i] = list[p[i]] /\ list[p[i]] \in of
      /\ \A j \in 1..k : list[j] \in of => \E i \in 1..m : p[i] = j
  BY DEF Places
<1> HIDE DEF m, more
<1>4. \A i \in 1..(m + 1) : i \in 1..m \/ i = m + 1
  BY <1>1
<1>5. ASSUME NEW i \in 1..m PROVE i # m + 1 /\ i \in 1..(m + 1) /\ q[i] = p[i] /\ p[i] \in 1..k
  BY <1>1, <1>3
<1>6. m + 1 \in 1..(m + 1) /\ q[m + 1] = k + 1
  BY <1>1
<1>7. q \in [1..(m + 1) -> 1..(k + 1)]
  BY <1>3, <1>4
<1> HIDE DEF q
<1>8. ASSUME NEW i \in 1..(m + 1), NEW j \in 1..(m + 1), i < j PROVE q[i] < q[j]
  <2>1. i \in 1..m
    BY <1>1, <1>8
  <2>2. CASE j = m + 1
    <3>1. q[i] \in 1..k
      BY <1>5, <2>1
    <3> QED
      BY <1>6, <2>2, <3>1
  <2>3. CASE j \in 1..m
    BY <1>3, <1>5, <1>8, <2>1, <2>3
  <2> QED
    BY <1>4, <2>2, <2>3
<1>9. ASSUME NEW i \in 1..(m + 1) PROVE more[i] = list[q[i]] /\ list[q[i]] \in of
  <2>1. CASE i = m + 1
    BY <1>2, <1>6, <2>1
  <2>2. CASE i \in 1..m
    BY <1>2, <1>3, <1>5, <2>2
  <2> QED
    BY <1>4, <2>1, <2>2
<1>10. ASSUME NEW j \in 1..(k + 1), list[j] \in of PROVE \E i \in 1..(m + 1) : q[i] = j
  <2>1. CASE j = k + 1
    BY <1>6, <2>1
  <2>2. CASE j \in 1..k
    <3>1. PICK i \in 1..m : p[i] = j
      BY <1>3, <1>10, <2>2
    <3> QED
      BY <1>5, <3>1
  <2> QED
    BY <2>1, <2>2
<1>11. Places(q, more, list, k + 1, of)
  BY <1>2, <1>7, <1>8, <1>9, <1>10 DEF Places
<1> QED
  BY <1>11 DEF more

\* What is kept is what the list has of the set, in its order.
LEMMA KeptPlaces ==
    ASSUME NEW S, NEW n \in Nat, NEW list \in [1..n -> S], NEW of
    PROVE  /\ Kept(list, of) \in Seq(S)
           /\ \E p : Places(p, Kept(list, of), list, n, of)
<1>0. PICK r : Finds(r, list, n, S, of)
  BY KeptChain
<1>1. /\ r \in [0..n -> Seq(S)]
      /\ r[0] = <<>> /\ r[n] = Kept(list, of)
      /\ \A k \in 1..n : r[k] = OneMore(r[k - 1], list[k], of)
  BY <1>0 DEF Finds
<1> DEFINE G == {k \in Nat : k <= n => \E p : Places(p, r[k], list, k, of)}
<1>2. 0 \in G
  <2>1. Places(<<>>, <<>>, list, 0, of)
    <3>1. 1..Len(<<>>) = {} /\ 1..0 = {} /\ <<>> \in [{} -> {}]
      OBVIOUS
    <3> QED
      BY <3>1 DEF Places
  <2> QED
    BY <1>1, <2>1
<1>3. ASSUME NEW k \in Nat, k \in G PROVE k + 1 \in G
  <2> SUFFICES ASSUME k + 1 <= n PROVE \E p : Places(p, r[k + 1], list, k + 1, of)
    OBVIOUS
  <2>1. PICK p : Places(p, r[k], list, k, of)
    BY <1>3
  <2>2. r[k] \in Seq(S) /\ k + 1 \in 1..n /\ r[k + 1] = OneMore(r[k], list[k + 1], of)
    <3>1. k + 1 \in 1..n /\ (k + 1) - 1 = k /\ k \in 0..n
      OBVIOUS
    <3> QED
      BY <1>1, <3>1
  <2> DEFINE m == Len(r[k])
  <2>3. m \in Nat
    BY <2>2
  <2>4. CASE list[k + 1] \notin of
    <3>1. r[k + 1] = r[k]
      BY <2>2, <2>4 DEF OneMore
    <3>2. \A j \in 1..(k + 1) : j \in 1..k \/ j = k + 1
      OBVIOUS
    <3>3. p \in [1..m -> 1..(k + 1)]
      <4>1. p \in [1..m -> 1..k]
        BY <2>1 DEF Places
      <4>2. \A j \in 1..k : j \in 1..(k + 1)
        OBVIOUS
      <4> HIDE DEF m
      <4> QED
        BY <4>1, <4>2
    <3>4. /\ \A i, j \in 1..m : i < j => p[i] < p[j]
          /\ \A i \in 1..m : r[k][i] = list[p[i]] /\ list[p[i]] \in of
          /\ \A j \in 1..k : list[j] \in of => \E i \in 1..m : p[i] = j
      BY <2>1 DEF Places
    <3>5. \A j \in 1..(k + 1) : list[j] \in of => \E i \in 1..m : p[i] = j
      BY <2>4, <3>2, <3>4
    <3>6. Places(p, r[k], list, k + 1, of)
      BY <3>3, <3>4, <3>5 DEF Places
    <3> QED
      BY <3>1, <3>6
  <2>5. CASE list[k + 1] \in of
    <3>1. r[k + 1] = Append(r[k], list[k + 1])
      BY <2>2, <2>5 DEF OneMore
    <3>2. list \in [1..n -> S] /\ list[k + 1] \in S
      BY <2>2
    <3>3. \E q : Places(q, Append(r[k], list[k + 1]), list, k + 1, of)
      BY <2>1, <2>2, <2>5, <3>2, PlacesMore
    <3> QED
      BY <3>1, <3>3
  <2> QED
    BY <2>4, <2>5
<1>4. n \in G
  <2> HIDE DEF G
  <2> QED
    BY <1>2, <1>3, NaturalsByStep
<1> QED
  BY <1>1, <1>4

\* What is kept is in the set, and nothing else is left out.
LEMMA KeptMembers ==
    ASSUME NEW S, NEW list \in Seq(S), NEW of
    PROVE  /\ Kept(list, of) \in Seq(S)
           /\ ToSet(Kept(list, of)) = ToSet(list) \intersect of
<1> DEFINE kept == Kept(list, of)
           n == Len(list)
<1>1. n \in Nat /\ list \in [1..n -> S] /\ DOMAIN list = 1..n
  OBVIOUS
<1> HIDE DEF n
<1>2. kept \in Seq(S) /\ \E p : Places(p, kept, list, n, of)
  BY <1>1, KeptPlaces
<1> HIDE DEF kept
<1>3. DOMAIN kept = 1..Len(kept)
  BY <1>2
<1>4. PICK p : Places(p, kept, list, n, of)
  BY <1>2
<1>5. ASSUME NEW i \in 1..Len(kept) PROVE kept[i] \in ToSet(list) \intersect of
  BY <1>1, <1>4 DEF Places, ToSet
<1>6. ASSUME NEW k \in 1..n, list[k] \in of PROVE list[k] \in ToSet(kept)
  <2>1. PICK i \in 1..Len(kept) : p[i] = k
    BY <1>4, <1>6 DEF Places
  <2>2. kept[i] = list[k]
    BY <1>4, <2>1 DEF Places
  <2> QED
    BY <1>3, <2>2 DEF ToSet
<1>7. ToSet(kept) = ToSet(list) \intersect of
  BY <1>1, <1>3, <1>5, <1>6 DEF ToSet
<1> QED
  BY <1>2, <1>7 DEF kept

\* A list that is in the set is kept at its length.
LEMMA KeptWhole ==
    ASSUME NEW S, NEW list \in Seq(S), NEW of, ToSet(list) \subseteq of
    PROVE  Len(Kept(list, of)) = Len(list)
<1> DEFINE n == Len(list)
           m == Len(Kept(list, of))
<1>1. n \in Nat /\ list \in [1..n -> S] /\ DOMAIN list = 1..n
  OBVIOUS
<1> HIDE DEF n
<1>2. Kept(list, of) \in Seq(S) /\ \E p : Places(p, Kept(list, of), list, n, of)
  BY <1>1, KeptPlaces
<1>3. m \in Nat
  BY <1>2
<1>4. PICK p : Places(p, Kept(list, of), list, n, of)
  BY <1>2
<1>5. /\ p \in [1..m -> 1..n]
      /\ \A i, j \in 1..m : i < j => p[i] < p[j]
      /\ \A k \in 1..n : \E i \in 1..m : p[i] = k
  BY <1>1, <1>4 DEF Places, ToSet
<1> HIDE DEF m
<1>6. \A i, j \in 1..m : i # j => p[i] # p[j]
  BY <1>3, <1>5
<1>7. p \in Surjection(1..m, 1..n) /\ p \in Injection(1..m, 1..n)
  BY <1>5, <1>6 DEF Surjection, Injection, IsInjective
<1>8. /\ IsFiniteSet(1..m) /\ Cardinality(1..m) = m
      /\ IsFiniteSet(1..n) /\ Cardinality(1..n) = n
  BY <1>1, <1>3, FS_Interval
<1>9. n <= m /\ m <= n
  BY <1>7, <1>8, FS_Surjection, FS_Injection
<1> QED
  BY <1>1, <1>3, <1>9 DEF m, n

----------------------------------------------------------------------------
(* Finite sets in an order *)

\* the pairs of a strict total order on a set
TotalOrder(S, before) ==
    /\ \A x \in S : <<x, x>> \notin before
    /\ \A x, y, z \in S : <<x, y>> \in before /\ <<y, z>> \in before => <<x, z>> \in before
    /\ \A x, y \in S : x # y => <<x, y>> \in before \/ <<y, x>> \in before

\* Each element of the set is in the list once, and the list is in order: an element
\* stands where the number of those before it says.
LEMMA OrderedSorts ==
    ASSUME NEW S, IsFiniteSet(S), NEW before, TotalOrder(S, before)
    PROVE  LET n == Cardinality(S)
           IN  /\ n \in Nat
               /\ Ordered(S, before) \in [1..n -> S]
               /\ \A i, j \in 1..n : i < j => <<Ordered(S, before)[i], Ordered(S, before)[j]>> \in before
               /\ \A x \in S : \E i \in 1..n : Ordered(S, before)[i] = x
<1> DEFINE n == Cardinality(S)
           lower(x) == {y \in S : <<y, x>> \in before}
           rank == [x \in S |-> Cardinality(lower(x)) + 1]
<1>1. n \in Nat
  BY FS_CardinalityType
<1>2. ASSUME NEW x \in S
      PROVE  IsFiniteSet(lower(x)) /\ Cardinality(lower(x)) \in Nat /\ Cardinality(lower(x)) < n
  <2>1. lower(x) \in SUBSET S /\ x \notin lower(x)
    BY DEF TotalOrder
  <2>2. IsFiniteSet(lower(x)) /\ Cardinality(lower(x)) <= n /\ Cardinality(lower(x)) # n
    <3> HIDE DEF lower
    <3> QED
      BY <2>1, FS_Subset
  <2>3. Cardinality(lower(x)) \in Nat
    BY <2>2, FS_CardinalityType
  <2> HIDE DEF lower
  <2> QED
    BY <1>1, <2>2, <2>3
<1>3. ASSUME NEW x \in S, NEW y \in S, <<x, y>> \in before PROVE rank[x] < rank[y]
  <2>1. lower(x) \in SUBSET lower(y) /\ x \in lower(y) /\ x \notin lower(x)
    BY <1>3 DEF TotalOrder
  <2>2. Cardinality(lower(x)) <= Cardinality(lower(y))
           /\ Cardinality(lower(x)) # Cardinality(lower(y))
    <3>1. IsFiniteSet(lower(y))
      BY <1>2
    <3> HIDE DEF lower
    <3> QED
      BY <2>1, <3>1, FS_Subset
  <2>3. Cardinality(lower(x)) \in Nat /\ Cardinality(lower(y)) \in Nat
    BY <1>2
  <2>4. rank[x] = Cardinality(lower(x)) + 1 /\ rank[y] = Cardinality(lower(y)) + 1
    OBVIOUS
  <2> HIDE DEF lower, rank
  <2> QED
    BY <2>2, <2>3, <2>4
<1>4. rank \in [S -> 1..n]
  <2>1. ASSUME NEW x \in S PROVE Cardinality(lower(x)) + 1 \in 1..n
    <3> HIDE DEF lower
    <3> QED
      BY <1>1, <1>2
  <2> QED
    BY <2>1
<1> HIDE DEF rank, n
<1>5. \A x, y \in S : x # y => rank[x] # rank[y]
  <2> SUFFICES ASSUME NEW x \in S, NEW y \in S, x # y PROVE rank[x] # rank[y]
    OBVIOUS
  <2>1. rank[x] \in 1..n /\ rank[y] \in 1..n
    BY <1>4
  <2>2. rank[x] < rank[y] \/ rank[y] < rank[x]
    BY <1>3 DEF TotalOrder
  <2> QED
    BY <1>1, <2>1, <2>2
<1>6. rank \in Injection(S, 1..n)
  BY <1>4, <1>5 DEF Injection, IsInjective
<1>7. IsFiniteSet(1..n) /\ Cardinality(1..n) = n
  BY <1>1, FS_Interval
<1>8. rank \in Surjection(S, 1..n)
  BY <1>6, <1>7, FS_Injection DEF n
<1>9. \A i \in 1..n : \E x \in S : rank[x] = i
  BY <1>8 DEF Surjection
<1> DEFINE list == [i \in 1..n |-> CHOOSE x \in S : rank[x] = i]
<1>10. \A i \in 1..n : list[i] \in S /\ rank[list[i]] = i
  BY <1>9
<1>11. list \in [1..n -> S]
  BY <1>9
<1> HIDE DEF list
<1>12. \A i, j \in 1..n : i < j => <<list[i], list[j]>> \in before
  <2> SUFFICES ASSUME NEW i \in 1..n, NEW j \in 1..n, i < j PROVE <<list[i], list[j]>> \in before
    OBVIOUS
  <2>1. list[i] \in S /\ list[j] \in S /\ rank[list[i]] = i /\ rank[list[j]] = j
    BY <1>10
  <2>2. list[i] # list[j] /\ ~(rank[list[j]] < rank[list[i]])
    BY <1>1, <2>1
  <2> QED
    BY <1>3, <2>1, <2>2 DEF TotalOrder
<1> DEFINE sorted == Ordered(S, before)
<1>13. /\ sorted \in [1..n -> S]
       /\ \A i, j \in 1..n : i < j => <<sorted[i], sorted[j]>> \in before
  BY <1>11, <1>12 DEF Ordered, n
<1> HIDE DEF sorted
<1>14. \A i, j \in 1..n : i # j => sorted[i] # sorted[j]
  <2> SUFFICES ASSUME NEW i \in 1..n, NEW j \in 1..n, i # j PROVE sorted[i] # sorted[j]
    OBVIOUS
  <2>1. sorted[i] \in S /\ sorted[j] \in S
    BY <1>13
  <2>2. i < j \/ j < i
    BY <1>1
  <2> QED
    BY <1>13, <2>1, <2>2 DEF TotalOrder
<1>15. sorted \in Injection(1..n, S)
  BY <1>13, <1>14 DEF Injection, IsInjective
<1>16. sorted \in Surjection(1..n, S)
  BY <1>7, <1>15, FS_Injection DEF n
<1>17. \A x \in S : \E i \in 1..n : sorted[i] = x
  BY <1>16 DEF Surjection
<1> QED
  BY <1>1, <1>13, <1>17 DEF n, sorted
==============================================================================
