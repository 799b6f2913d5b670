---------------------------- MODULE Loops_proofs ----------------------------
(***************************************************************************)
(* What the other proofs need to know of lists and of loops over them: the *)
(* members picked from a list keep their order, a set that holds 0 and is  *)
(* closed under successor up to n holds every number up to n, and a loop   *)
(* whose body stays in a set has a value after each of its rounds.  The    *)
(* predicate of an induction and the body of a loop are a set and a        *)
(* function here, so that they can be given as terms.                      *)
(***************************************************************************)
EXTENDS Positions, FiniteSetTheorems, TLAPS

-----------------------------------------------------------------------------
\* The members of a list, one by one.
LEMMA PlacesOf ==
    ASSUME NEW T, NEW q \in Seq(T)
    PROVE  /\ DOMAIN q = 1..Len(q) /\ Len(q) \in Nat
           /\ IsFiniteSet(DOMAIN q) /\ DOMAIN q \in SUBSET Nat
           /\ \A i \in DOMAIN q : q[i] \in T
<1>1. DOMAIN q = 1..Len(q) /\ Len(q) \in Nat /\ \A i \in DOMAIN q : q[i] \in T
  OBVIOUS
<1>2. IsFiniteSet(1..Len(q))
  BY <1>1, FS_Interval
<1> QED BY <1>1, <1>2

-----------------------------------------------------------------------------
(* Positions: NthOf counts a finite set of them up, leaving none out.      *)

UpTo(S, i) == {j \in S : j <= i}

LEMMA UpToIs ==
    ASSUME NEW S \in SUBSET Nat, IsFiniteSet(S), NEW i \in S
    PROVE  /\ IsFiniteSet(UpTo(S, i)) /\ i \in UpTo(S, i)
           /\ Cardinality(UpTo(S, i)) \in 1..Cardinality(S)
           /\ Cardinality(S) \in Nat
<1>1. UpTo(S, i) \in SUBSET S /\ i \in UpTo(S, i)
  BY DEF UpTo
<1>2. /\ IsFiniteSet(UpTo(S, i)) /\ Cardinality(UpTo(S, i)) <= Cardinality(S)
      /\ Cardinality(UpTo(S, i)) \in Nat /\ Cardinality(S) \in Nat
  BY <1>1, FS_Subset, FS_CardinalityType
<1>3. Cardinality(UpTo(S, i)) # 0
  BY <1>1, <1>2, FS_EmptySet
<1> QED BY <1>1, <1>2, <1>3

LEMMA UpToApart ==
    ASSUME NEW S \in SUBSET Nat, IsFiniteSet(S), NEW i \in S, NEW k \in S, i < k
    PROVE  Cardinality(UpTo(S, i)) # Cardinality(UpTo(S, k))
<1>0. i \in Nat /\ k \in Nat /\ \A j \in S : j \in Nat
  OBVIOUS
<1>1. UpTo(S, i) \in SUBSET UpTo(S, k) /\ k \notin UpTo(S, i) /\ k \in UpTo(S, k)
  <2>1. \A j \in S : j <= i => j <= k
    BY <1>0
  <2>2. ~(k <= i) /\ k <= k
    BY <1>0
  <2>3. UpTo(S, i) \subseteq UpTo(S, k)
    BY <2>1 DEF UpTo
  <2>4. k \notin UpTo(S, i) /\ k \in UpTo(S, k)
    BY <2>2 DEF UpTo
  <2> QED BY <2>3, <2>4
<1>2. IsFiniteSet(UpTo(S, k))
  BY UpToIs
<1> QED BY <1>1, <1>2, FS_Subset

LEMMA EveryRankTaken ==
    ASSUME NEW S \in SUBSET Nat, IsFiniteSet(S), NEW n \in 1..Cardinality(S)
    PROVE  \E i \in S : Cardinality(UpTo(S, i)) = n
<1> DEFINE rank == [i \in S |-> Cardinality(UpTo(S, i))]
           ranks == 1..Cardinality(S)
<1>1. rank \in [S -> ranks]
  BY UpToIs
<1>2. ASSUME NEW i \in S, NEW k \in S, rank[i] = rank[k] PROVE i = k
  <2>1. i \in Nat /\ k \in Nat
    OBVIOUS
  <2>2. CASE i < k BY <1>2, <2>2, UpToApart
  <2>3. CASE k < i BY <1>2, <2>3, UpToApart
  <2> QED BY <2>1, <2>2, <2>3
<1>3. Cardinality(S) \in Nat
  BY FS_CardinalityType
<1>4. IsFiniteSet(ranks) /\ Cardinality(ranks) = Cardinality(S)
  BY <1>3, FS_Interval
<1>5. rank \in Injection(S, ranks)
  BY <1>1, <1>2 DEF Injection, IsInjective
<1>6. rank \in Surjection(S, ranks)
  <2> HIDE DEF rank, ranks
  <2> QED BY <1>4, <1>5, FS_Injection
<1>7. PICK i \in S : rank[i] = n
  BY <1>6 DEF Surjection
<1> QED BY <1>7

LEMMA NthIs ==
    ASSUME NEW S \in SUBSET Nat, IsFiniteSet(S), NEW n \in 1..Cardinality(S)
    PROVE  NthOf(S, n) \in S /\ Cardinality(UpTo(S, NthOf(S, n))) = n
<1>1. \E i \in S : Cardinality({j \in S : j <= i}) = n
  BY EveryRankTaken DEF UpTo
<1> QED BY <1>1 DEF NthOf, UpTo

LEMMA NthReaches ==
    ASSUME NEW S \in SUBSET Nat, IsFiniteSet(S), NEW i \in S
    PROVE  \E n \in 1..Cardinality(S) : NthOf(S, n) = i
<1> DEFINE n == Cardinality(UpTo(S, i))
<1>1. n \in 1..Cardinality(S)
  BY UpToIs
<1>2. NthOf(S, n) \in S /\ Cardinality(UpTo(S, NthOf(S, n))) = n
  BY <1>1, NthIs
<1>3. NthOf(S, n) = i
  <2> DEFINE k == NthOf(S, n)
  <2>1. k \in Nat /\ i \in Nat
    BY <1>2
  <2>2. k \in S /\ Cardinality(UpTo(S, k)) = Cardinality(UpTo(S, i))
    BY <1>2
  <2> HIDE DEF k, n
  <2>3. ~(i < k) /\ ~(k < i)
    BY <2>2, UpToApart
  <2> QED BY <2>1, <2>3 DEF k
<1> QED BY <1>1, <1>3

\* A finite set of positions that is not empty has a last one and a first.
LEMMA Extremes ==
    ASSUME NEW S \in SUBSET Nat, IsFiniteSet(S), S # {}
    PROVE  /\ \E i \in S : \A j \in S : j <= i
           /\ \E i \in S : \A j \in S : i <= j
<1>1. Cardinality(S) \in Nat /\ Cardinality(S) # 0
  BY FS_CardinalityType, FS_EmptySet
<1>2. \E i \in S : \A j \in S : j <= i
  <2>1. PICK i \in S : Cardinality(UpTo(S, i)) = Cardinality(S)
    BY <1>1, EveryRankTaken
  <2>2. UpTo(S, i) \in SUBSET S
    BY DEF UpTo
  <2>3. UpTo(S, i) = S
    BY <2>1, <2>2, FS_Subset
  <2> QED BY <2>3 DEF UpTo
<1>3. \E i \in S : \A j \in S : i <= j
  <2>1. PICK i \in S : Cardinality(UpTo(S, i)) = 1
    BY <1>1, EveryRankTaken
  <2>2. IsFiniteSet(UpTo(S, i)) /\ i \in UpTo(S, i)
    BY UpToIs
  <2>3. PICK x : UpTo(S, i) = {x}
    BY <2>1, <2>2, FS_Singleton
  <2>4. \A j \in S : j <= i => j = i
    BY <2>2, <2>3 DEF UpTo
  <2> QED BY <2>4
<1> QED BY <1>2, <1>3

\* Picked lists the members at every position of S, in the order of these.
LEMMA PickedOrder ==
    ASSUME NEW S \in SUBSET Nat, IsFiniteSet(S)
    PROVE  /\ Cardinality(S) \in Nat
           /\ \A n \in 1 .. Cardinality(S) : NthOf(S, n) \in S
           /\ \A m, n \in 1 .. Cardinality(S) : m < n => NthOf(S, m) < NthOf(S, n)
           /\ \A i \in S : \E n \in 1 .. Cardinality(S) : NthOf(S, n) = i
<1>1. Cardinality(S) \in Nat
  BY FS_CardinalityType
<1>2. ASSUME NEW m \in 1 .. Cardinality(S), NEW n \in 1 .. Cardinality(S), m < n
      PROVE  NthOf(S, m) < NthOf(S, n)
  <2>1. PICK i \in S : i = NthOf(S, m) /\ Cardinality(UpTo(S, i)) = m
    BY NthIs
  <2>2. PICK k \in S : k = NthOf(S, n) /\ Cardinality(UpTo(S, k)) = n
    BY NthIs
  <2>3. i \in Nat /\ k \in Nat /\ \A j \in S : j \in Nat
    OBVIOUS
  <2>4. SUFFICES ASSUME k <= i PROVE FALSE
    BY <2>1, <2>2, <2>3
  <2>5. \A j \in S : j <= k => j <= i
    BY <2>3, <2>4
  <2>6. UpTo(S, k) \in SUBSET UpTo(S, i)
    BY <2>5 DEF UpTo
  <2>7. IsFiniteSet(UpTo(S, i))
    BY UpToIs
  <2>8. n <= m
    BY <2>1, <2>2, <2>6, <2>7, FS_Subset
  <2> QED BY <1>1, <1>2, <2>8
<1> QED BY <1>1, <1>2, NthIs, NthReaches

-----------------------------------------------------------------------------
(* Induction and loops.                                                    *)

\* The set P stands for the predicate: it holds of 0 .. n.
LEMMA UpToInduction ==
    ASSUME NEW n \in Nat, NEW P, 0 \in P, \A k \in 1 .. n : k - 1 \in P => k \in P
    PROVE  \A k \in 0 .. n : k \in P
<1> DEFINE bad == {k \in 0 .. n : k \notin P}
<1>1. SUFFICES bad = {}
  OBVIOUS
<1>2. SUFFICES ASSUME bad # {} PROVE FALSE
  OBVIOUS
<1>3. bad \in SUBSET Nat /\ IsFiniteSet(bad)
  <2>1. IsFiniteSet(0 .. n)
    BY FS_Interval
  <2> QED BY <2>1, FS_Subset
<1>4. PICK k \in bad : \A j \in bad : k <= j
  <2> HIDE DEF bad
  <2> QED BY <1>2, <1>3, Extremes
<1>5. k \in 1 .. n /\ k - 1 \in 0 .. n /\ k - 1 < k
  BY <1>4
<1>6. k - 1 \in P
  BY <1>4, <1>5
<1> QED BY <1>4, <1>5, <1>6

\* f lists the states of a loop of n rounds from a, whose k-th round is body[k].
RunOf(f, n, a, body) == f[0] = a /\ \A k \in 1 .. n : f[k] = body[k][f[k - 1]]

\* A loop whose body stays in A has a state after each round.
LEMMA LoopRuns ==
    ASSUME NEW n \in Nat, NEW A, NEW a \in A, NEW body \in [1 .. n -> [A -> A]]
    PROVE  \E f \in [0 .. n -> A] : RunOf(f, n, a, body)
<1> DEFINE P == {m \in 0 .. n : \E f \in [0 .. m -> A] : RunOf(f, m, a, body)}
<1>1. 0 \in P
  <2>1. [i \in 0 .. 0 |-> a] \in [0 .. 0 -> A] /\ RunOf([i \in 0 .. 0 |-> a], 0, a, body)
    BY DEF RunOf
  <2>2. \E f \in [0 .. 0 -> A] : RunOf(f, 0, a, body)
    <3> QED BY <2>1
  <2> QED BY <2>2
<1>2. ASSUME NEW m \in 1 .. n, m - 1 \in P PROVE m \in P
  <2>1. PICK f \in [0 .. m - 1 -> A] : RunOf(f, m - 1, a, body)
    BY <1>2
  <2> DEFINE g == [i \in 0 .. m |-> IF i = m THEN body[m][f[m - 1]] ELSE f[i]]
  <2>2. m - 1 \in 0 .. m - 1 /\ f[m - 1] \in A
    BY <2>1
  <2>3. body[m][f[m - 1]] \in A
    BY <2>2
  <2>4. g \in [0 .. m -> A]
    BY <2>1, <2>3
  <2>5. g[0] = a /\ g[m] = body[m][f[m - 1]] /\ g[m - 1] = f[m - 1]
    BY <2>1 DEF RunOf
  <2>6. ASSUME NEW k \in 1 .. m - 1 PROVE g[k] = body[k][g[k - 1]]
    <3>1. g[k] = f[k] /\ g[k - 1] = f[k - 1]
      OBVIOUS
    <3>2. f[k] = body[k][f[k - 1]]
      BY <2>1 DEF RunOf
    <3> QED BY <3>1, <3>2
  <2>7. ASSUME NEW k \in 1 .. m PROVE g[k] = body[k][g[k - 1]]
    <3>1. CASE k = m
      BY <2>5, <3>1
    <3>2. CASE k # m
      <4>1. k \in 1 .. m - 1
        BY <3>2
      <4> QED BY <2>6, <4>1
    <3> QED BY <3>1, <3>2
  <2>8. RunOf(g, m, a, body)
    BY <2>5, <2>7 DEF RunOf
  <2>9. \E h \in [0 .. m -> A] : RunOf(h, m, a, body)
    <3> HIDE DEF g
    <3> QED BY <2>4, <2>8
  <2>10. m \in 0 .. n
    OBVIOUS
  <2> HIDE DEF g
  <2> QED BY <2>9, <2>10
<1>3. n \in P
  <2>1. n \in 0 .. n
    OBVIOUS
  <2> HIDE DEF P
  <2> QED BY <1>1, <1>2, <2>1, UpToInduction
<1> QED BY <1>3
=============================================================================
