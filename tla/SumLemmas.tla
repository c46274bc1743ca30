----------------------------- MODULE SumLemmas ------------------------------
(***************************************************************************)
(* What a sum over a finite set is, for the sums of Bill and Menu: the     *)
(* recursive function behind SumFunction exists, and a sum of numbers of a *)
(* kind is a number of that kind.  There is no induction over data to      *)
(* cite, so each argument takes a smallest set for which it would fail.    *)
(***************************************************************************)
EXTENDS Integers, FiniteSets, Functions, FiniteSetTheorems, TLAPS

Chosen(s) == CHOOSE x \in s : TRUE

\* g sums f over the subsets of its domain, an element at a time.
AddsUp(g, f, D) ==
    g = [s \in D |-> IF s = {} THEN 0 ELSE f[Chosen(s)] + g[s \ {Chosen(s)}]]

Upto(S, n) == {s \in SUBSET S : Cardinality(s) <= n}

-----------------------------------------------------------------------------
(* Smallest counterexamples. *)

\* A nonempty set of naturals has a least element.
LEMMA LeastNumber ==
    ASSUME NEW N \in SUBSET Nat, N # {}
    PROVE  \E n \in N : \A m \in N : n <= m
<1> DEFINE R == OpToRel(<, Nat)
<1>1. IsWellFoundedOn(R, Nat)
  BY NatLessThanWellFounded
<1>2. \A x, y \in Nat : x < y => <<x, y>> \in R
  BY DEF OpToRel
<1> HIDE DEF R
<1>3. PICK n \in N : \A m \in N : <<m, n>> \notin R
  BY <1>1, WFMin
<1>4. ASSUME NEW m \in N PROVE n <= m
  <2>1. ~(m < n)
    BY <1>2, <1>3
  <2>. QED
    BY <2>1
<1>. QED
  BY <1>4

\* A nonempty set of subsets of a finite set has one that contains no other.
LEMMA LeastSubset ==
    ASSUME NEW S, IsFiniteSet(S), NEW W \in SUBSET (SUBSET S), W # {}
    PROVE  \E s \in W : \A t \in W : t \subseteq s => t = s
<1>1. IsWellFoundedOn(StrictSubsetOrdering(S), SUBSET S)
  BY FS_StrictSubsetOrderingWellFounded, FS_FiniteSubsetsOfFinite
<1>2. PICK s \in W : \A t \in W : <<t, s>> \notin StrictSubsetOrdering(S)
  BY <1>1, WFMin
<1>3. ASSUME NEW t \in W, t \subseteq s PROVE t = s
  BY <1>2, <1>3 DEF StrictSubsetOrdering
<1>. QED
  BY <1>3

\* So a property that passes from a smaller subset has no counterexample.
LEMMA NoneFails ==
    ASSUME NEW S, IsFiniteSet(S), NEW W \in SUBSET (SUBSET S)
    PROVE  (\A s \in W : \E t \in W : t \subseteq s /\ t # s) => W = {}
<1>1. CASE W # {}
  <2>1. PICK s \in W : \A t \in W : t \subseteq s => t = s
    BY <1>1, LeastSubset
  <2>. QED
    BY <2>1
<1>. QED
  BY <1>1

\* A nonempty finite set of integers has a least element.
LEMMA LeastOfFew ==
    ASSUME NEW S, IsFiniteSet(S), S # {}, S \subseteq Int
    PROVE  \E x \in S : \A y \in S : x <= y
<1> DEFINE Least(s) == \E x \in s : \A y \in s : x <= y
           Bad == {s \in SUBSET S : s # {} /\ ~Least(s)}
<1>1. ASSUME NEW s \in Bad PROVE \E t \in Bad : t \subseteq s /\ t # s
  <2>1. PICK x \in s : TRUE
    OBVIOUS
  <2>2. s \in SUBSET Int /\ ~Least(s) /\ s \ {x} \in SUBSET S /\ s \ {x} # s
    BY <2>1
  <2>3. s \ {x} # {}
    BY <2>1, <2>2
  <2>4. ~Least(s \ {x})
    <3> SUFFICES ASSUME NEW y \in s \ {x}, \A z \in s \ {x} : y <= z PROVE FALSE
      OBVIOUS
    <3>1. CASE x <= y
      <4>1. \A z \in s : x <= z
        BY <2>1, <2>2, <3>1
      <4>. QED
        BY <2>1, <2>2, <4>1
    <3>2. CASE ~(x <= y)
      <4>1. \A z \in s : y <= z
        BY <2>1, <2>2, <3>2
      <4>. QED
        BY <2>2, <4>1
    <3>. QED
      BY <3>1, <3>2
  <2>. QED
    BY <2>2, <2>3, <2>4
<1>2. Bad = {}
  <2>1. Bad \in SUBSET (SUBSET S)
    OBVIOUS
  <2> HIDE DEF Bad
  <2>. QED
    BY <1>1, <2>1, NoneFails
<1>3. S \notin Bad
  BY <1>2
<1>. QED
  BY <1>3

-----------------------------------------------------------------------------
(* The recursive function. *)

LEMMA ChosenIsOne == ASSUME NEW s, s # {} PROVE Chosen(s) \in s
BY DEF Chosen

\* Taking one element out of a finite set leaves one less.
LEMMA OneLess ==
    ASSUME NEW S, IsFiniteSet(S), NEW s \in SUBSET S, s # {}
    PROVE  /\ s \ {Chosen(s)} \in SUBSET S
           /\ Cardinality(s) \in Nat /\ Cardinality(s \ {Chosen(s)}) \in Nat
           /\ Cardinality(s \ {Chosen(s)}) = Cardinality(s) - 1
<1>1. IsFiniteSet(s)
  BY FS_Subset
<1>2. IsFiniteSet(s \ {Chosen(s)})
      /\ Cardinality(s \ {Chosen(s)}) = Cardinality(s) - 1
  BY <1>1, ChosenIsOne, FS_RemoveElement
<1>. QED
  BY <1>1, <1>2, FS_CardinalityType

\* A function that sums the sets of at most n elements extends to n + 1.
LEMMA OneMore ==
    ASSUME NEW S, IsFiniteSet(S), NEW f, NEW n \in Nat,
           NEW g, AddsUp(g, f, Upto(S, n))
    PROVE  \E h : AddsUp(h, f, Upto(S, n + 1))
<1> DEFINE h == [s \in Upto(S, n + 1) |->
                    IF s \in Upto(S, n) THEN g[s] ELSE f[Chosen(s)] + g[s \ {Chosen(s)}]]
<1>1. ASSUME NEW s \in Upto(S, n + 1), s # {}
      PROVE  /\ s \ {Chosen(s)} \in Upto(S, n)
             /\ s \ {Chosen(s)} \in Upto(S, n + 1)
  BY <1>1, OneLess DEF Upto
<1>2. {} \in Upto(S, n)
  BY FS_EmptySet DEF Upto
<1>3. ASSUME NEW s \in Upto(S, n + 1)
      PROVE  h[s] = IF s = {} THEN 0 ELSE f[Chosen(s)] + h[s \ {Chosen(s)}]
  <2>1. CASE s = {}
    BY <2>1, <1>2 DEF AddsUp
  <2>2. CASE s # {} /\ s \in Upto(S, n)
    BY <2>2, <1>1 DEF AddsUp
  <2>3. CASE s # {} /\ s \notin Upto(S, n)
    BY <2>3, <1>1
  <2>. QED
    BY <2>1, <2>2, <2>3
<1>4. AddsUp(h, f, Upto(S, n + 1))
  <2>1. h = [s \in Upto(S, n + 1) |-> h[s]]
    OBVIOUS
  <2> HIDE DEF h
  <2>. QED
    BY <1>3, <2>1 DEF AddsUp
<1>. QED
  BY <1>4

\* The recursive function over all subsets of a finite set exists.
LEMMA SumsExist ==
    ASSUME NEW S, IsFiniteSet(S), NEW f
    PROVE  \E g : AddsUp(g, f, SUBSET S)
<1> DEFINE Short == {n \in Nat : ~ \E g : AddsUp(g, f, Upto(S, n))}
<1>1. Short = {}
  <2> SUFFICES ASSUME Short # {} PROVE FALSE
    OBVIOUS
  <2>1. PICK n \in Short : \A m \in Short : n <= m
    BY LeastNumber
  <2>2. n # 0
    <3>1. Upto(S, 0) = {{}}
      <4>1. ASSUME NEW s \in Upto(S, 0) PROVE s = {}
        <5>1. IsFiniteSet(s) /\ Cardinality(s) \in Nat /\ Cardinality(s) <= 0
          BY <4>1, FS_Subset, FS_CardinalityType DEF Upto
        <5>. QED
          BY <5>1, FS_EmptySet
      <4>2. {} \in Upto(S, 0)
        BY FS_EmptySet DEF Upto
      <4>. QED
        BY <4>1, <4>2
    <3>2. AddsUp([s \in {{}} |-> 0], f, {{}})
      BY DEF AddsUp
    <3>. QED
      BY <3>1, <3>2
  <2>3. n - 1 \in Nat /\ n - 1 \notin Short
    BY <2>1, <2>2
  <2>. QED
    BY <2>1, <2>3, OneMore
<1>2. Upto(S, Cardinality(S)) = SUBSET S /\ Cardinality(S) \in Nat
  BY FS_Subset, FS_CardinalityType DEF Upto
<1>3. \E g : AddsUp(g, f, Upto(S, Cardinality(S)))
  BY <1>1, <1>2
<1>. QED
  BY <1>2, <1>3

\* SumFunction is that function of the whole domain.
LEMMA SumIsLast ==
    ASSUME NEW S, IsFiniteSet(S), NEW f, DOMAIN f = S
    PROVE  \E g : AddsUp(g, f, SUBSET S) /\ SumFunction(f) = g[S]
<1> DEFINE g == CHOOSE g : AddsUp(g, f, SUBSET S)
<1>1. AddsUp(g, f, SUBSET S)
  BY SumsExist
<1>2. SumFunction(f) = g[S]
  BY DEF SumFunction, SumFunctionOnSet, FoldFunctionOnSet, MapThenFoldSet, AddsUp, Chosen
<1>. QED
  BY <1>1, <1>2

-----------------------------------------------------------------------------
(* Sums of numbers. *)

\* A sum of numbers is one of them, if the sum of two is.
LEMMA SumIsOne ==
    ASSUME NEW N, 0 \in N, \A x, y \in N : x + y \in N,
           NEW S, IsFiniteSet(S), NEW f \in [S -> N]
    PROVE  SumFunction(f) \in N
<1>1. PICK g : AddsUp(g, f, SUBSET S) /\ SumFunction(f) = g[S]
  BY SumIsLast
<1> DEFINE W == {s \in SUBSET S : g[s] \notin N}
<1>2. ASSUME NEW s \in W PROVE \E t \in W : t \subseteq s /\ t # s
  <2>1. s # {} /\ s \in SUBSET S /\ g[s] = f[Chosen(s)] + g[s \ {Chosen(s)}]
    BY <1>1 DEF AddsUp
  <2>2. Chosen(s) \in S /\ f[Chosen(s)] \in N
    BY <2>1, ChosenIsOne
  <2>3. s \ {Chosen(s)} \in SUBSET S /\ s \ {Chosen(s)} # s
    BY <2>1, ChosenIsOne
  <2>4. g[s \ {Chosen(s)}] \notin N
    BY <2>1, <2>2
  <2>. QED
    BY <2>3, <2>4
<1>3. W = {}
  <2>1. W \in SUBSET (SUBSET S)
    OBVIOUS
  <2> HIDE DEF W
  <2>. QED
    BY <1>2, <2>1, LeastSubset
<1>. QED
  BY <1>1, <1>3

LEMMA SumIsNat ==
    ASSUME NEW S, IsFiniteSet(S), NEW f \in [S -> Nat]
    PROVE  SumFunction(f) \in Nat
<1>1. 0 \in Nat /\ \A x, y \in Nat : x + y \in Nat
  OBVIOUS
<1>. QED
  BY <1>1, SumIsOne

LEMMA SumIsInt ==
    ASSUME NEW S, IsFiniteSet(S), NEW f \in [S -> Int]
    PROVE  SumFunction(f) \in Int
<1>1. 0 \in Int /\ \A x, y \in Int : x + y \in Int
  OBVIOUS
<1>. QED
  BY <1>1, SumIsOne

\* A sum of nothing is nothing.
LEMMA SumOfNothing ==
    ASSUME NEW S, IsFiniteSet(S), NEW f \in [S -> Nat], \A x \in S : f[x] = 0
    PROVE  SumFunction(f) = 0
<1>1. PICK g : AddsUp(g, f, SUBSET S) /\ SumFunction(f) = g[S]
  BY SumIsLast
<1> DEFINE W == {s \in SUBSET S : g[s] # 0}
<1>2. ASSUME NEW s \in W PROVE \E t \in W : t \subseteq s /\ t # s
  <2>1. s # {} /\ s \in SUBSET S /\ g[s] = f[Chosen(s)] + g[s \ {Chosen(s)}]
    BY <1>1 DEF AddsUp
  <2>2. Chosen(s) \in S /\ f[Chosen(s)] = 0
    BY <2>1, ChosenIsOne
  <2>3. s \ {Chosen(s)} \in SUBSET S /\ s \ {Chosen(s)} # s
    BY <2>1, ChosenIsOne
  <2>4. CASE g[s \ {Chosen(s)}] = 0
    BY <2>1, <2>2, <2>4
  <2>. QED
    BY <2>3, <2>4
<1>3. W = {}
  <2>1. W \in SUBSET (SUBSET S)
    OBVIOUS
  <2> HIDE DEF W
  <2>. QED
    BY <1>2, <2>1, LeastSubset
<1>. QED
  BY <1>1, <1>3
=============================================================================
