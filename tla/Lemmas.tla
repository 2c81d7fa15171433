------------------------------- MODULE Lemmas -------------------------------
(***************************************************************************)
(* Lemmas that several proofs need: the least number, and sums over        *)
(* finite sets.                                                            *)
(***************************************************************************)
EXTENDS Integers, Functions, FiniteSetTheorems, WellFoundedInduction, TLAPS

LEMMA Least ==
  ASSUME NEW S \in SUBSET Nat, S # {}
  PROVE  \E x \in S : \A y \in S : x <= y
<1>1. \E x \in S : \A y \in S : ~ (<<y, x>> \in OpToRel(<, Nat))
  BY NatLessThanWellFounded, WFMin
<1>2. \A x, y \in Nat : ~ (<<y, x>> \in OpToRel(<, Nat)) => x <= y
  BY DEF OpToRel
<1> QED
  BY <1>1, <1>2

-----------------------------------------------------------------------------
(* The sum of a function over a finite set, as the library defines it: one  *)
(* element after the other is picked.                                       *)

Pick(s) == CHOOSE x \in s : TRUE
Term(g, f, s) == IF s = {} THEN 0 ELSE f[Pick(s)] + g[s \ {Pick(s)}]
Sums(S, f) == CHOOSE g : g = [s \in SUBSET S |-> Term(g, f, s)]

LEMMA Unfolded ==
  ASSUME NEW f, NEW S
  PROVE  SumFunctionOnSet(f, S) = Sums(S, f)[S]
BY Zenon DEF SumFunctionOnSet, FoldFunctionOnSet, MapThenFoldSet, Sums, Term, Pick

LEMMA Picked ==
  ASSUME NEW s, IsFiniteSet(s), s # {}
  PROVE  /\ Pick(s) \in s /\ IsFiniteSet(s \ {Pick(s)})
         /\ Cardinality(s) \in Nat /\ Cardinality(s \ {Pick(s)}) = Cardinality(s) - 1
         /\ Cardinality(s) > 0
<1>1. Pick(s) \in s
  BY DEF Pick
<1> QED
  BY <1>1, FS_RemoveElement, FS_CardinalityType, FS_EmptySet

\* What holds of a set when it holds of the set without the picked element, holds of
\* every finite set: B is the set of those it holds of.
LEMMA SubsetInduction ==
  ASSUME NEW S, NEW B, IsFiniteSet(S),
         \A s \in SUBSET S : s = {} \/ s \ {Pick(s)} \in B => s \in B
  PROVE  SUBSET S \subseteq B
<1> SUFFICES ASSUME NEW t \in SUBSET S, t \notin B PROVE FALSE
  OBVIOUS
<1> DEFINE N == {Cardinality(s) : s \in {x \in SUBSET S : x \notin B}}
<1>1. \A s \in SUBSET S : IsFiniteSet(s)
  BY FS_Subset
<1>2. N \in SUBSET Nat /\ N # {}
  BY <1>1, FS_CardinalityType
<1> HIDE DEF N
<1>3. PICK n \in N : \A m \in N : n <= m
  BY <1>2, Least
<1>4. PICK s \in SUBSET S : s \notin B /\ Cardinality(s) = n
  BY <1>3 DEF N
<1>5. s # {} /\ s \ {Pick(s)} \notin B
  BY <1>4
<1>6. Cardinality(s \ {Pick(s)}) \in N
  BY <1>5 DEF N
<1>7. Cardinality(s) \in Nat /\ Cardinality(s \ {Pick(s)}) = Cardinality(s) - 1
  BY <1>1, <1>5, Picked
<1> QED
  BY <1>3, <1>4, <1>6, <1>7

\* There is such a function: one for all sets of at most n elements gives one for
\* all of at most n + 1.
UpTo(S, n) == {s \in SUBSET S : Cardinality(s) <= n}
SumsUpTo(g, S, f, n) == g = [s \in UpTo(S, n) |-> Term(g, f, s)]

LEMMA SumsExist ==
  ASSUME NEW S, NEW f, IsFiniteSet(S)
  PROVE  \A s \in SUBSET S : Sums(S, f)[s] = Term(Sums(S, f), f, s)
<1>1. \A s \in SUBSET S : IsFiniteSet(s) /\ Cardinality(s) \in Nat
  BY FS_Subset, FS_CardinalityType
<1>2. \E g : SumsUpTo(g, S, f, 0)
  <2>1. \A s \in UpTo(S, 0) : s = {}
    BY <1>1, FS_EmptySet DEF UpTo
  <2>2. SumsUpTo([s \in UpTo(S, 0) |-> 0], S, f, 0)
    BY <2>1 DEF SumsUpTo, Term
  <2> QED
    BY <2>2
<1>3. ASSUME NEW n \in Nat, NEW g, SumsUpTo(g, S, f, n)
      PROVE  \E h : SumsUpTo(h, S, f, n + 1)
  <2> DEFINE h == [s \in UpTo(S, n + 1) |-> Term(g, f, s)]
  <2>1. ASSUME NEW s \in UpTo(S, n + 1) PROVE Term(g, f, s) = Term(h, f, s)
    <3>1. CASE s = {}
      BY <3>1 DEF Term
    <3>2. CASE s # {}
      <4> DEFINE r == s \ {Pick(s)}
      <4>1. r \in UpTo(S, n) /\ r \in UpTo(S, n + 1)
        BY <1>1, <3>2, Picked DEF UpTo
      <4>2. g[r] = Term(g, f, r)
        BY <1>3, <4>1 DEF SumsUpTo
      <4>3. h[r] = Term(g, f, r)
        BY <4>1
      <4> QED
        BY <3>2, <4>2, <4>3 DEF Term
    <3> QED
      BY <3>1, <3>2
  <2>2. h = [s \in UpTo(S, n + 1) |-> Term(h, f, s)]
    BY <2>1
  <2> QED
    BY <2>2 DEF SumsUpTo
<1>4. \E g : SumsUpTo(g, S, f, Cardinality(S))
  <2> DEFINE N == {n \in Nat : \A g : ~SumsUpTo(g, S, f, n)}
  <2> SUFFICES ASSUME N # {} PROVE FALSE
    BY <1>1
  <2> HIDE DEF N
  <2>1. PICK n \in N : \A m \in N : n <= m
    BY Least DEF N
  <2>2. n # 0 /\ n \in Nat
    BY <1>2 DEF N
  <2>3. n - 1 \in Nat /\ n - 1 \notin N
    BY <2>1, <2>2
  <2>4. \E g : SumsUpTo(g, S, f, n - 1)
    BY <2>3 DEF N
  <2>5. \E g : SumsUpTo(g, S, f, (n - 1) + 1)
    BY <1>3, <2>3, <2>4
  <2> QED
    BY <2>2, <2>5 DEF N
<1>5. UpTo(S, Cardinality(S)) = SUBSET S
  BY FS_Subset DEF UpTo
<1>6. \E g : g = [s \in SUBSET S |-> Term(g, f, s)]
  BY <1>4, <1>5 DEF SumsUpTo
<1> DEFINE g == Sums(S, f)
<1>7. g = [s \in SUBSET S |-> Term(g, f, s)]
  BY <1>6 DEF Sums
<1> HIDE DEF g
<1>8. \A s \in SUBSET S : g[s] = Term(g, f, s)
  BY <1>7
<1> QED
  BY <1>8 DEF g

IsSum(g, f, S) ==
  g[{}] = 0 /\ \A s \in SUBSET S : s # {} => g[s] = f[Pick(s)] + g[s \ {Pick(s)}]

LEMMA SumByPick ==
  ASSUME NEW S, NEW f, IsFiniteSet(S)
  PROVE  IsSum(Sums(S, f), f, S)
<1> DEFINE g == Sums(S, f)
<1>1. \A s \in SUBSET S : g[s] = Term(g, f, s)
  BY Zenon, SumsExist
<1>2. Term(g, f, {}) = 0 /\ \A s : s # {} => Term(g, f, s) = f[Pick(s)] + g[s \ {Pick(s)}]
  BY DEF Term
<1> HIDE DEF g
<1>3. g[{}] = 0
  BY <1>1, <1>2
<1>4. \A s \in SUBSET S : s # {} => g[s] = f[Pick(s)] + g[s \ {Pick(s)}]
  BY <1>1, <1>2
<1>5. IsSum(g, f, S)
  BY <1>3, <1>4 DEF IsSum
<1> QED
  BY <1>5 DEF g

\* The sum of what is an integer everywhere is one, and that of zeros is 0.
LEMMA SumIsInteger ==
  ASSUME NEW D, NEW S \in SUBSET D, NEW f \in [D -> Int], IsFiniteSet(S)
  PROVE  SumFunctionOnSet(f, S) \in Int
<1> DEFINE g == Sums(S, f)
           B == {s \in SUBSET S : g[s] \in Int}
<1>1. IsSum(g, f, S) /\ SumFunctionOnSet(f, S) = g[S]
  BY SumByPick, Unfolded
<1> HIDE DEF g
<1>2. ASSUME NEW s \in SUBSET S, s = {} \/ s \ {Pick(s)} \in B PROVE g[s] \in Int
  <2>1. CASE s = {}
    BY <1>1, <2>1 DEF IsSum
  <2>2. CASE s # {}
    <3>1. Pick(s) \in D
      BY <2>2, Picked, FS_Subset
    <3>2. f[Pick(s)] \in Int /\ g[s \ {Pick(s)}] \in Int
      BY <1>2, <2>2, <3>1
    <3> QED
      BY <1>1, <2>2, <3>2 DEF IsSum
  <2> QED
    BY <2>1, <2>2
<1>3. \A s \in SUBSET S : s = {} \/ s \ {Pick(s)} \in B => s \in B
  BY <1>2
<1> HIDE DEF B
<1>4. SUBSET S \subseteq B
  BY <1>3, SubsetInduction
<1> QED
  BY <1>1, <1>4 DEF B

LEMMA SumOfZeros ==
  ASSUME NEW D, NEW S \in SUBSET D, IsFiniteSet(S)
  PROVE  SumFunctionOnSet([x \in D |-> 0], S) = 0
<1> DEFINE f == [x \in D |-> 0]
           g == Sums(S, f)
           B == {s \in SUBSET S : g[s] = 0}
<1>1. \A x \in D : f[x] = 0
  OBVIOUS
<1> HIDE DEF f
<1>2. IsSum(g, f, S) /\ SumFunctionOnSet(f, S) = g[S]
  BY SumByPick, Unfolded
<1> HIDE DEF g
<1>3. ASSUME NEW s \in SUBSET S, s = {} \/ s \ {Pick(s)} \in B PROVE g[s] = 0
  <2>1. CASE s = {}
    BY <1>2, <2>1 DEF IsSum
  <2>2. CASE s # {}
    <3>1. Pick(s) \in D
      BY <2>2, Picked, FS_Subset
    <3>2. f[Pick(s)] = 0 /\ g[s \ {Pick(s)}] = 0
      BY <1>1, <1>3, <2>2, <3>1
    <3> QED
      BY <1>2, <2>2, <3>2 DEF IsSum
  <2> QED
    BY <2>1, <2>2
<1>4. \A s \in SUBSET S : s = {} \/ s \ {Pick(s)} \in B => s \in B
  BY <1>3
<1> HIDE DEF B
<1>5. SUBSET S \subseteq B
  BY <1>4, SubsetInduction
<1> QED
  BY <1>2, <1>5 DEF B, f

\* A value that changes by d changes the sums it is in by d.
LEMMA SumUpdated ==
  ASSUME NEW D, NEW S \in SUBSET D, NEW f \in [D -> Int], NEW e \in [D -> Int],
         NEW a \in D, NEW d \in Int, IsFiniteSet(S),
         e[a] = f[a] + d, \A x \in D \ {a} : e[x] = f[x]
  PROVE  SumFunctionOnSet(e, S) = SumFunctionOnSet(f, S) + (IF a \in S THEN d ELSE 0)
<1> DEFINE g == Sums(S, f)
           h == Sums(S, e)
           B == {s \in SUBSET S : g[s] \in Int /\ h[s] = g[s] + (IF a \in s THEN d ELSE 0)}
<1>1. \A x \in D : f[x] \in Int /\ e[x] = IF x = a THEN f[x] + d ELSE f[x]
  OBVIOUS
<1>2. /\ IsSum(g, f, S) /\ SumFunctionOnSet(f, S) = g[S]
      /\ IsSum(h, e, S) /\ SumFunctionOnSet(e, S) = h[S]
  BY SumByPick, Unfolded
<1> HIDE DEF g, h
<1>3. ASSUME NEW s \in SUBSET S, s = {} \/ s \ {Pick(s)} \in B
      PROVE  g[s] \in Int /\ h[s] = g[s] + (IF a \in s THEN d ELSE 0)
  <2>1. CASE s = {}
    BY <1>2, <2>1 DEF IsSum
  <2>2. CASE s # {}
    <3> DEFINE x == Pick(s)
               r == s \ {x}
    <3>1. x \in s /\ x \in D
      BY <2>2, Picked, FS_Subset
    <3>2. g[s] = f[x] + g[r] /\ h[s] = e[x] + h[r]
      BY <1>2, <2>2 DEF IsSum
    <3>3. g[r] \in Int /\ h[r] = g[r] + (IF a \in r THEN d ELSE 0)
      BY <1>3, <2>2
    <3> HIDE DEF x
    <3>4. CASE x = a
      BY <1>1, <3>1, <3>2, <3>3, <3>4
    <3>5. CASE x # a
      BY <1>1, <3>1, <3>2, <3>3, <3>5
    <3> QED
      BY <3>4, <3>5
  <2> QED
    BY <2>1, <2>2
<1>4. \A s \in SUBSET S : s = {} \/ s \ {Pick(s)} \in B => s \in B
  BY <1>3
<1> HIDE DEF B
<1>5. SUBSET S \subseteq B
  BY <1>4, SubsetInduction
<1> QED
  BY <1>2, <1>5 DEF B
=============================================================================
