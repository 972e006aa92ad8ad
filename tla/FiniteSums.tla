----------------------------- MODULE FiniteSums -----------------------------
(***************************************************************************)
(* What the proofs need to know of MapThenSumSet, the sum the modules use   *)
(* for quantities, amounts and stock.  It takes the elements out of a set   *)
(* one by one, in an order nobody knows; these lemmas say that the order    *)
(* does not matter and what happens when one element is added or changed.   *)
(*                                                                         *)
(* Sums are taken of functions, so that nothing here has an operator as a   *)
(* parameter.  Induction is over the subsets of a finite set: if some of    *)
(* them had not the property, there would be a smallest one of those.       *)
(***************************************************************************)
EXTENDS Integers, FiniteSets, FiniteSetsExt, FiniteSetTheorems, WellFoundedInduction, TLAPS

SumOver(f, S) == MapThenSumSet(LAMBDA x : f[x], S)

\* The element a fold takes out of A, and the equation it obeys.
Some(A) == CHOOSE x \in A : TRUE
Step(f, g, A) == IF A = {} THEN 0 ELSE f[Some(A)] + g[A \ {Some(A)}]
Folds(f, S, g) == g = [A \in SUBSET S |-> Step(f, g, A)]
TheFold(f, S) ==
  CHOOSE g : g = [A \in SUBSET S |->
                    IF A = {} THEN 0
                    ELSE f[CHOOSE x \in A : TRUE] + g[A \ {CHOOSE x \in A : TRUE}]]

----------------------------------------------------------------------------
(* Induction *)

LEMMA LeastNumber ==
  ASSUME NEW B \in SUBSET Nat, B # {}
  PROVE  \E n \in B : \A m \in B : n <= m
  <1>1. \E n \in B : \A m \in B : ~ (<<m, n>> \in OpToRel(<, Nat))
    BY WFMin, NatLessThanWellFounded, Zenon
  <1>2. ASSUME NEW n \in B, NEW m \in B, ~ (<<m, n>> \in OpToRel(<, Nat))
        PROVE  n <= m
    BY <1>2 DEF OpToRel
  <1> QED BY <1>1, <1>2

LEMMA NumberInduction ==
  ASSUME NEW T \in SUBSET Nat, 0 \in T, \A n \in T : n + 1 \in T
  PROVE  \A n \in Nat : n \in T
  <1> SUFFICES ASSUME Nat \ T # {} PROVE FALSE
    OBVIOUS
  <1>1. PICK n \in Nat \ T : \A m \in Nat \ T : n <= m
    BY LeastNumber
  <1>2. n - 1 \in Nat /\ n - 1 \notin T
    BY <1>1, n # 0, n - 1 + 1 = n
  <1> QED BY <1>1, <1>2

LEMMA LeastSubset ==
  ASSUME NEW S, IsFiniteSet(S), NEW B \in SUBSET SUBSET S, B # {}
  PROVE  \E A \in B : \A C \in B : C \subseteq A => C = A
  <1>1. IsWellFoundedOn(StrictSubsetOrdering(S), SUBSET S)
    BY FS_StrictSubsetOrderingWellFounded, FS_FiniteSubsetsOfFinite
  <1>2. PICK A \in B : \A C \in B : ~ (<<C, A>> \in StrictSubsetOrdering(S))
    BY <1>1, WFMin, Zenon
  <1> SUFFICES ASSUME NEW C \in B, C \subseteq A, C # A PROVE FALSE
    OBVIOUS
  <1>3. <<C, A>> \in StrictSubsetOrdering(S)
    BY DEF StrictSubsetOrdering
  <1> QED BY <1>2, <1>3

\* T has every subset of S of which it has all smaller ones.
Hereditary(T, S) == \A A \in SUBSET S : (\A C \in SUBSET A : C # A => C \in T) => A \in T

LEMMA SubsetInduction ==
  ASSUME NEW S, IsFiniteSet(S), NEW T, Hereditary(T, S)
  PROVE  \A A \in SUBSET S : A \in T
  <1> SUFFICES ASSUME (SUBSET S) \ T # {} PROVE FALSE
    OBVIOUS
  <1> USE DEF Hereditary
  <1> DEFINE B == (SUBSET S) \ T
  <1>1. B \in SUBSET SUBSET S /\ B # {}
    OBVIOUS
  <1> HIDE DEF B
  <1>2. PICK A \in B : \A C \in B : C \subseteq A => C = A
    BY <1>1, LeastSubset
  <1> QED BY <1>2 DEF B

----------------------------------------------------------------------------
(* The fold obeys its equation *)

\* An equation for small sets gives one for sets with one element more.
LEMMA FoldsSmallSets ==
  ASSUME NEW f, NEW S, IsFiniteSet(S)
  PROVE  \A n \in Nat : \E g : \A A \in SUBSET S : Cardinality(A) <= n => g[A] = Step(f, g, A)
  <1> DEFINE Small(n, g) == \A A \in SUBSET S : Cardinality(A) <= n => g[A] = Step(f, g, A)
             T == {n \in Nat : \E g : Small(n, g)}
  <1>0. ASSUME NEW A \in SUBSET S PROVE IsFiniteSet(A) /\ Cardinality(A) \in Nat
    BY FS_Subset, FS_CardinalityType
  <1>1. ASSUME NEW A \in SUBSET S
        PROVE  /\ A # {} => Some(A) \in A /\ Cardinality(A \ {Some(A)}) = Cardinality(A) - 1
               /\ Cardinality(A) = 0 => A = {}
    BY <1>0, FS_RemoveElement, FS_EmptySet DEF Some
  <1>2. 0 \in T
    <2>0. ASSUME NEW A \in SUBSET S, Cardinality(A) <= 0 PROVE A = {}
      <3>1. Cardinality(A) = 0
        BY <1>0, <2>0
      <3> QED BY <1>1, <3>1
    <2> DEFINE h == [A \in SUBSET S |-> 0]
    <2>1. ASSUME NEW A \in SUBSET S, Cardinality(A) <= 0 PROVE h[A] = Step(f, h, A)
      <3>1. A = {}
        BY <2>0, <2>1
      <3> QED BY <3>1 DEF Step
    <2>2. Small(0, h)
      BY <2>1
    <2> HIDE DEF Small, h
    <2> QED BY <2>2
  <1>3. ASSUME NEW n \in T PROVE n + 1 \in T
    <2>1. PICK g : Small(n, g)
      OBVIOUS
    <2> DEFINE h == [A \in SUBSET S |-> Step(f, g, A)]
    <2>2. ASSUME NEW A \in SUBSET S, Cardinality(A) <= n + 1
          PROVE  h[A] = Step(f, h, A)
      <3>1. CASE A = {}
        BY <3>1 DEF Step
      <3>2. CASE A # {}
        <4>1. A \ {Some(A)} \in SUBSET S /\ Cardinality(A \ {Some(A)}) <= n
          BY <1>0, <1>1, <2>2, <3>2
        <4>2. h[A \ {Some(A)}] = g[A \ {Some(A)}]
          BY <2>1, <4>1
        <4> QED BY <4>2, <3>2 DEF Step
      <3> QED BY <3>1, <3>2
    <2>3. Small(n + 1, h)
      BY <2>2
    <2> HIDE DEF Small, h
    <2>4. n + 1 \in Nat /\ \E k : Small(n + 1, k)
      BY <2>3
    <2> QED BY <2>4
  <1> HIDE DEF T
  <1>4. \A n \in Nat : n \in T
    BY <1>2, <1>3, NumberInduction, T \in SUBSET Nat DEF T
  <1> QED BY <1>4 DEF T

LEMMA FoldExists ==
  ASSUME NEW f, NEW S, IsFiniteSet(S)
  PROVE  \E g : Folds(f, S, g)
  <1>1. PICK g : \A A \in SUBSET S : Cardinality(A) <= Cardinality(S) => g[A] = Step(f, g, A)
    <2>1. Cardinality(S) \in Nat
      BY FS_CardinalityType
    <2> QED BY <2>1, FoldsSmallSets
  <1> DEFINE h == [A \in SUBSET S |-> g[A]]
  <1>2. ASSUME NEW A \in SUBSET S PROVE g[A] = Step(f, h, A)
    BY <1>1, FS_Subset DEF Step
  <1>3. Folds(f, S, h)
    BY <1>2 DEF Folds
  <1> QED BY <1>3

LEMMA FoldObeys ==
  ASSUME NEW f, NEW S, IsFiniteSet(S)
  PROVE  Folds(f, S, TheFold(f, S))
  <1> DEFINE P(g) == Folds(f, S, g)
  <1>1. \E g : P(g)
    BY FoldExists
  <1> HIDE DEF P
  <1>2. P(CHOOSE g : P(g))
    BY <1>1, Zenon
  <1> QED BY <1>2, Zenon DEF P, Folds, TheFold, Step, Some

\* All that is known of the fold from here on.
LEMMA FoldEquation ==
  ASSUME NEW f, NEW S, IsFiniteSet(S), NEW A \in SUBSET S
  PROVE  TheFold(f, S)[A] = IF A = {} THEN 0 ELSE f[Some(A)] + TheFold(f, S)[A \ {Some(A)}]
  <1> DEFINE g == TheFold(f, S)
  <1>0. Folds(f, S, g)
    BY FoldObeys
  <1> HIDE DEF g
  <1>1. g = [B \in SUBSET S |-> Step(f, g, B)]
    BY <1>0 DEF Folds
  <1>2. g[A] = Step(f, g, A)
    BY <1>1
  <1> QED BY <1>2 DEF Step, g

LEMMA SumIsFold ==
  ASSUME NEW f, NEW S
  PROVE  SumOver(f, S) = TheFold(f, S)[S]
  BY Zenon DEF SumOver, MapThenSumSet, MapThenFoldSet, TheFold

----------------------------------------------------------------------------
(* Sums *)

Ints(f, S) == \A x \in S : f[x] \in Int

LEMMA FoldType ==
  ASSUME NEW f, NEW S, IsFiniteSet(S), Ints(f, S)
  PROVE  \A A \in SUBSET S : TheFold(f, S)[A] \in Int
  <1> DEFINE g == TheFold(f, S)
             T == {A \in SUBSET S : g[A] \in Int}
  <1>0. \A A \in SUBSET S : g[A] = IF A = {} THEN 0 ELSE f[Some(A)] + g[A \ {Some(A)}]
    BY FoldEquation
  <1> HIDE DEF g
  <1>1. ASSUME NEW A \in SUBSET S, \A C \in SUBSET A : C # A => C \in T
        PROVE  A \in T
    <2>1. CASE A = {}
      <3>1. g[A] = 0
        BY <1>0, <2>1
      <3> QED BY <3>1
    <2>2. CASE A # {}
      <3>1. Some(A) \in A
        BY <2>2 DEF Some
      <3>2. g[A \ {Some(A)}] \in Int
        BY <1>1, <3>1, A \ {Some(A)} \in SUBSET A
      <3>3. g[A] = f[Some(A)] + g[A \ {Some(A)}]
        BY <1>0, <2>2
      <3> QED BY <3>1, <3>2, <3>3 DEF Ints
    <2> QED BY <2>1, <2>2
  <1>2. Hereditary(T, S)
    BY <1>1 DEF Hereditary
  <1> HIDE DEF T
  <1>3. \A A \in SUBSET S : A \in T
    BY <1>2, SubsetInduction
  <1> QED BY <1>3 DEF T, g

\* Whichever element is taken out first, the rest makes up the sum.
LEMMA FoldTakesAny ==
  ASSUME NEW f, NEW S, IsFiniteSet(S), Ints(f, S)
  PROVE  \A A \in SUBSET S : \A x \in A : TheFold(f, S)[A] = f[x] + TheFold(f, S)[A \ {x}]
  <1> DEFINE g == TheFold(f, S)
             T == {A \in SUBSET S : \A x \in A : g[A] = f[x] + g[A \ {x}]}
  <1>0. \A A \in SUBSET S : g[A] \in Int
    BY FoldType
  <1>e. \A A \in SUBSET S : g[A] = IF A = {} THEN 0 ELSE f[Some(A)] + g[A \ {Some(A)}]
    BY FoldEquation
  <1> HIDE DEF g
  <1>1. ASSUME NEW A \in SUBSET S, \A C \in SUBSET A : C # A => C \in T, NEW x \in A
        PROVE  g[A] = f[x] + g[A \ {x}]
    <2> DEFINE y == Some(A)
    <2>1. y \in A
      BY DEF Some
    <2>2. g[A] = f[y] + g[A \ {y}]
      BY <1>1, <1>e
    <2> HIDE DEF y
    <2>3. CASE x = y
      BY <2>2, <2>3
    <2>4. CASE x # y
      <3>1. g[A \ {y}] = f[x] + g[(A \ {y}) \ {x}]
        BY <1>1, <2>1, <2>4, A \ {y} \in SUBSET A, A \ {y} # A, x \in A \ {y}
      <3>2. g[A \ {x}] = f[y] + g[(A \ {x}) \ {y}]
        BY <1>1, <2>1, <2>4, A \ {x} \in SUBSET A, A \ {x} # A, y \in A \ {x}
      <3>3. (A \ {y}) \ {x} = (A \ {x}) \ {y}
        OBVIOUS
      <3>4. f[x] \in Int /\ f[y] \in Int /\ g[(A \ {x}) \ {y}] \in Int
        BY <1>0, <2>1 DEF Ints
      <3>5. g[A] = f[y] + (f[x] + g[(A \ {x}) \ {y}])
        BY <2>2, <3>1, <3>3
      <3> QED BY <3>2, <3>4, <3>5
    <2> QED BY <2>3, <2>4
  <1>2. ASSUME NEW A \in SUBSET S, \A C \in SUBSET A : C # A => C \in T
        PROVE  A \in T
    BY <1>1, <1>2
  <1>3. Hereditary(T, S)
    BY <1>2 DEF Hereditary
  <1> HIDE DEF T
  <1>4. \A A \in SUBSET S : A \in T
    BY <1>3, SubsetInduction
  <1> QED BY <1>4 DEF T, g

\* The fold over a set gives the sums of all its subsets; it depends only on the
\* values there.
LEMMA FoldsAgree ==
  ASSUME NEW f, NEW h, NEW S, IsFiniteSet(S), NEW R \in SUBSET S, \A x \in R : h[x] = f[x]
  PROVE  \A A \in SUBSET R : TheFold(h, R)[A] = TheFold(f, S)[A]
  <1> DEFINE g == TheFold(f, S)
             k == TheFold(h, R)
             T == {A \in SUBSET R : k[A] = g[A]}
  <1>0. IsFiniteSet(R)
    BY FS_Subset
  <1>e. \A A \in SUBSET S : g[A] = IF A = {} THEN 0 ELSE f[Some(A)] + g[A \ {Some(A)}]
    BY FoldEquation
  <1>d. \A A \in SUBSET R : k[A] = IF A = {} THEN 0 ELSE h[Some(A)] + k[A \ {Some(A)}]
    BY <1>0, FoldEquation
  <1> HIDE DEF g, k
  <1>1. ASSUME NEW A \in SUBSET R, \A C \in SUBSET A : C # A => C \in T
        PROVE  A \in T
    <2>1. CASE A = {}
      BY <1>d, <1>e, <2>1
    <2>2. CASE A # {}
      <3>1. Some(A) \in A
        BY <2>2 DEF Some
      <3>2. k[A \ {Some(A)}] = g[A \ {Some(A)}]
        BY <1>1, <3>1, A \ {Some(A)} \in SUBSET A, A \ {Some(A)} # A
      <3>3. g[A] = f[Some(A)] + g[A \ {Some(A)}]
        BY <1>e, <2>2, A \in SUBSET S
      <3>4. k[A] = h[Some(A)] + k[A \ {Some(A)}]
        BY <1>d, <2>2
      <3> QED BY <3>1, <3>2, <3>3, <3>4
    <2> QED BY <2>1, <2>2
  <1>2. Hereditary(T, R)
    BY <1>1 DEF Hereditary
  <1> HIDE DEF T
  <1>3. \A A \in SUBSET R : A \in T
    BY <1>0, <1>2, SubsetInduction
  <1> QED BY <1>3 DEF T, g, k

\* What the proofs of the modules cite.

LEMMA SumEmpty ==
  ASSUME NEW f
  PROVE  SumOver(f, {}) = 0
  <1>1. IsFiniteSet({}) /\ {} \in SUBSET {}
    BY FS_EmptySet
  <1>2. TheFold(f, {})[{}] = 0
    BY <1>1, FoldEquation
  <1> QED BY <1>2, SumIsFold

LEMMA SumType ==
  ASSUME NEW f, NEW S, IsFiniteSet(S), Ints(f, S)
  PROVE  SumOver(f, S) \in Int
  BY FoldType, SumIsFold

LEMMA SumTakesOut ==
  ASSUME NEW f, NEW S, IsFiniteSet(S), Ints(f, S), NEW x \in S
  PROVE  SumOver(f, S) = f[x] + SumOver(f, S \ {x})
  <1>1. TheFold(f, S)[S] = f[x] + TheFold(f, S)[S \ {x}]
    BY FoldTakesAny
  <1>2. TheFold(f, S \ {x})[S \ {x}] = TheFold(f, S)[S \ {x}]
    BY FoldsAgree
  <1> QED BY <1>1, <1>2, SumIsFold

LEMMA SumSame ==
  ASSUME NEW f, NEW h, NEW S, IsFiniteSet(S), \A x \in S : h[x] = f[x]
  PROVE  SumOver(h, S) = SumOver(f, S)
  <1>1. TheFold(h, S)[S] = TheFold(f, S)[S]
    BY FoldsAgree
  <1> QED BY <1>1, SumIsFold

LEMMA SumChange ==
  ASSUME NEW f, NEW h, NEW S, IsFiniteSet(S), Ints(f, S), NEW x \in S, h[x] \in Int,
         \A y \in S \ {x} : h[y] = f[y]
  PROVE  SumOver(h, S) = SumOver(f, S) - f[x] + h[x]
  <1>1. IsFiniteSet(S \ {x})
    BY FS_RemoveElement
  <1>2. Ints(h, S) /\ Ints(f, S \ {x})
    BY DEF Ints
  <1>3. SumOver(h, S \ {x}) = SumOver(f, S \ {x})
    BY <1>1, SumSame
  <1>4. SumOver(h, S) = h[x] + SumOver(h, S \ {x})
    BY <1>2, SumTakesOut
  <1>5. SumOver(f, S) = f[x] + SumOver(f, S \ {x})
    BY SumTakesOut
  <1>6. SumOver(f, S \ {x}) \in Int /\ f[x] \in Int
    BY <1>1, <1>2, SumType DEF Ints
  <1> QED BY <1>3, <1>4, <1>5, <1>6

LEMMA SumChangeTwo ==
  ASSUME NEW f, NEW h, NEW S, IsFiniteSet(S), Ints(f, S), NEW x \in S, NEW y \in S, x # y,
         h[x] \in Int, h[y] \in Int, \A z \in S \ {x, y} : h[z] = f[z]
  PROVE  SumOver(h, S) = SumOver(f, S) - f[x] + h[x] - f[y] + h[y]
  <1> DEFINE k == [z \in S |-> IF z = x THEN h[x] ELSE f[z]]
  <1>1. /\ Ints(k, S) /\ k[x] = h[x] /\ k[y] = f[y] /\ f[x] \in Int /\ f[y] \in Int
        /\ \A z \in S \ {x} : k[z] = f[z]
        /\ \A z \in S \ {y} : h[z] = k[z]
    BY DEF Ints
  <1> HIDE DEF k
  <1>2. SumOver(k, S) = SumOver(f, S) - f[x] + h[x]
    BY <1>1, SumChange
  <1>3. SumOver(h, S) = SumOver(k, S) - f[y] + h[y]
    BY <1>1, SumChange
  <1>4. SumOver(f, S) \in Int
    BY SumType
  <1> QED BY <1>1, <1>2, <1>3, <1>4

LEMMA SumZero ==
  ASSUME NEW f, NEW S, IsFiniteSet(S), \A x \in S : f[x] = 0
  PROVE  SumOver(f, S) = 0
  <1> DEFINE g == TheFold(f, S)
             T == {A \in SUBSET S : g[A] = 0}
  <1>1. \A A \in SUBSET S : g[A] = IF A = {} THEN 0 ELSE f[Some(A)] + g[A \ {Some(A)}]
    BY FoldEquation
  <1> HIDE DEF g
  <1>2. ASSUME NEW A \in SUBSET S, \A C \in SUBSET A : C # A => C \in T
        PROVE  A \in T
    <2>1. CASE A = {}
      <3>1. g[A] = 0
        BY <1>1, <2>1
      <3> QED BY <3>1
    <2>2. CASE A # {}
      <3>1. Some(A) \in A
        BY <2>2 DEF Some
      <3>2. g[A \ {Some(A)}] = 0
        BY <1>2, <3>1, A \ {Some(A)} \in SUBSET A
      <3>3. g[A] = 0 + 0
        BY <1>1, <2>2, <3>1, <3>2
      <3> QED BY <3>3
    <2> QED BY <2>1, <2>2
  <1>3. Hereditary(T, S)
    BY <1>2 DEF Hereditary
  <1> HIDE DEF T
  <1>4. S \in T
    BY <1>3, SubsetInduction
  <1> QED BY <1>4, SumIsFold DEF T, g

LEMMA SumLeq ==
  ASSUME NEW f, NEW h, NEW S, IsFiniteSet(S), Ints(f, S), Ints(h, S), \A x \in S : f[x] <= h[x]
  PROVE  SumOver(f, S) <= SumOver(h, S)
  <1> DEFINE g == TheFold(f, S)
             k == TheFold(h, S)
             T == {A \in SUBSET S : g[A] <= k[A]}
  <1>1. /\ \A A \in SUBSET S : g[A] = IF A = {} THEN 0 ELSE f[Some(A)] + g[A \ {Some(A)}]
        /\ \A A \in SUBSET S : k[A] = IF A = {} THEN 0 ELSE h[Some(A)] + k[A \ {Some(A)}]
    BY FoldEquation
  <1>2. \A A \in SUBSET S : g[A] \in Int /\ k[A] \in Int
    BY FoldType
  <1> HIDE DEF g, k
  <1>3. ASSUME NEW A \in SUBSET S, \A C \in SUBSET A : C # A => C \in T
        PROVE  A \in T
    <2>1. CASE A = {}
      BY <1>1, <2>1
    <2>2. CASE A # {}
      <3> DEFINE x == Some(A)
      <3>1. x \in A
        BY <2>2 DEF Some
      <3>2. /\ g[A] = f[x] + g[A \ {x}] /\ k[A] = h[x] + k[A \ {x}]
        BY <1>1, <2>2
      <3>3. g[A \ {x}] <= k[A \ {x}] /\ A \ {x} \in SUBSET S
        BY <1>3, <3>1, A \ {x} \in SUBSET A
      <3>4. f[x] \in Int /\ h[x] \in Int /\ f[x] <= h[x]
        BY <3>1 DEF Ints
      <3>5. g[A \ {x}] \in Int /\ k[A \ {x}] \in Int
        BY <1>2, <3>3
      <3> HIDE DEF x
      <3> QED BY <3>2, <3>3, <3>4, <3>5
    <2> QED BY <2>1, <2>2
  <1>4. Hereditary(T, S)
    BY <1>3 DEF Hereditary
  <1> HIDE DEF T
  <1>5. S \in T
    BY <1>4, SubsetInduction
  <1> QED BY <1>5, SumIsFold DEF T, g, k

LEMMA SumNat ==
  ASSUME NEW f, NEW S, IsFiniteSet(S), \A x \in S : f[x] \in Nat
  PROVE  SumOver(f, S) \in Nat
  <1> DEFINE zero == [x \in S |-> 0]
  <1>1. Ints(f, S) /\ Ints(zero, S) /\ \A x \in S : zero[x] = 0 /\ zero[x] <= f[x]
    BY DEF Ints
  <1> HIDE DEF zero
  <1>2. SumOver(zero, S) = 0 /\ SumOver(f, S) \in Int
    BY <1>1, SumZero, SumType
  <1>3. SumOver(zero, S) <= SumOver(f, S)
    BY <1>1, SumLeq
  <1> QED BY <1>2, <1>3

\* A sum over some elements is a sum over all of them in which the others are 0.
Filters(h, f, T, S) == \A x \in S : h[x] = IF x \in T THEN f[x] ELSE 0

LEMMA SumFilter ==
  ASSUME NEW f, NEW h, NEW S, IsFiniteSet(S), Ints(f, S), NEW T \in SUBSET S, Filters(h, f, T, S)
  PROVE  SumOver(f, T) = SumOver(h, S)
  <1>0. ASSUME NEW A \in SUBSET S, NEW x \in A
        PROVE  TheFold(f, S)[A] = f[x] + TheFold(f, S)[A \ {x}]
    BY FoldTakesAny
  <1> DEFINE g == TheFold(f, S)
             k == TheFold(h, S)
  <1>1. \A A \in SUBSET S : k[A] = IF A = {} THEN 0 ELSE h[Some(A)] + k[A \ {Some(A)}]
    BY FoldEquation
  <1>2. \A A \in SUBSET S : \A x \in A : g[A] = f[x] + g[A \ {x}]
    BY <1>0
  <1>3. \A A \in SUBSET S : g[A] \in Int
    BY FoldType
  <1>4. g[{}] = 0
    BY FoldEquation
  <1> HIDE DEF g, k
  <1> DEFINE P == {A \in SUBSET S : k[A] = g[A \cap T]}
  <1>5. ASSUME NEW A \in SUBSET S, \A C \in SUBSET A : C # A => C \in P
        PROVE  A \in P
    <2>1. CASE A = {}
      <3>1. A \cap T = {} /\ k[A] = 0
        BY <1>1, <2>1
      <3> QED BY <1>4, <3>1
    <2>2. CASE A # {}
      <3> DEFINE x == Some(A)
      <3>1. x \in A
        BY <2>2 DEF Some
      <3>2. k[A] = h[x] + k[A \ {x}]
        BY <1>1, <2>2
      <3> HIDE DEF x
      <3>3. k[A \ {x}] = g[(A \ {x}) \cap T]
        BY <1>5, <3>1, A \ {x} \in SUBSET A, A \ {x} # A
      <3>4. CASE x \in T
        <4>1. g[A \cap T] = f[x] + g[(A \cap T) \ {x}]
          BY <1>2, <3>1, <3>4, A \cap T \in SUBSET S, x \in A \cap T
        <4>2. (A \cap T) \ {x} = (A \ {x}) \cap T
          OBVIOUS
        <4>3. h[x] = f[x]
          BY <3>1, <3>4 DEF Filters
        <4>4. k[A] = g[A \cap T]
          BY <3>2, <3>3, <4>1, <4>2, <4>3
        <4> QED BY <4>4
      <3>5. CASE x \notin T
        <4>1. A \cap T = (A \ {x}) \cap T
          BY <3>5
        <4>2. h[x] = 0 /\ g[A \cap T] \in Int
          BY <1>3, <3>1, <3>5 DEF Filters
        <4>3. k[A] = g[A \cap T]
          BY <3>2, <3>3, <4>1, <4>2
        <4> QED BY <4>3
      <3> QED BY <3>4, <3>5
    <2> QED BY <2>1, <2>2
  <1>6. Hereditary(P, S)
    BY <1>5 DEF Hereditary
  <1> HIDE DEF P
  <1>7. S \in P
    BY <1>6, SubsetInduction
  <1>8. k[S] = g[T]
    <2>1. S \cap T = T
      OBVIOUS
    <2> QED BY <1>7, <2>1 DEF P
  <1>9. TheFold(f, T)[T] = TheFold(f, S)[T]
    BY FoldsAgree
  <1> QED BY <1>8, <1>9, SumIsFold DEF g, k
=============================================================================
