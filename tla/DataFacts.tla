----------------------------- MODULE DataFacts ------------------------------
(***************************************************************************)
(* Facts about the data of the models: induction over numbers and over     *)
(* finite sets, sums over finite sets, folds over sequences, the           *)
(* concatenation of the parts of a list, and sequences without             *)
(* repetitions.                                                            *)
(*                                                                         *)
(* A theorem of induction takes the property as an operator, which cannot  *)
(* be instantiated here. So both inductions are stated of a set: the set   *)
(* of the numbers, or of the subsets, for which the property holds.        *)
(***************************************************************************)
EXTENDS Integers, FiniteSetTheorems, SequenceTheorems, Functions, SequencesExt, TLAPS

-----------------------------------------------------------------------------
(* Induction                                                               *)

\* Induction over the natural numbers, for a set.
LEMMA NatSetInduction ==
  ASSUME NEW A \in SUBSET Nat, 0 \in A, \A n \in A : n + 1 \in A
  PROVE  A = Nat
<1> SUFFICES ASSUME NEW n \in Nat, n \notin A PROVE FALSE
  OBVIOUS
<1> DEFINE B == {k \in Nat : k < n /\ 0 .. k \subseteq A}
           next == [k \in B |-> k + 1]
<1>1. 0 \in B
  <2>1. 0 .. 0 = {0}
    OBVIOUS
  <2> QED BY <2>1
<1>2. \A k \in B : k + 1 \in B
  <2>1. SUFFICES ASSUME NEW k \in B PROVE k + 1 \in B
    OBVIOUS
  <2>2. k \in Nat /\ k < n /\ k \in A /\ k + 1 \in A
    OBVIOUS
  <2>3. 0 .. k + 1 \subseteq A
    BY <2>2
  <2>4. k + 1 < n
    BY <2>2
  <2> QED BY <2>2, <2>3, <2>4
<1>3. IsFiniteSet(B)
  BY FS_BoundedSetOfNaturals
<1>4. next \in Injection(B, B \ {0})
  <2>1. next \in [B -> B \ {0}]
    BY <1>2
  <2> QED BY <2>1 DEF Injection, IsInjective
<1>5. IsFiniteSet(B \ {0}) /\ Cardinality(B \ {0}) = Cardinality(B) - 1
  BY <1>1, <1>3, FS_RemoveElement
<1>6. Cardinality(B) <= Cardinality(B \ {0})
  BY <1>4, <1>5, FS_Injection
<1>7. Cardinality(B) \in Nat
  BY <1>3, FS_CardinalityType
<1> QED BY <1>5, <1>6, <1>7

\* Induction over the subsets of a finite set, for a family of them.
LEMMA SubsetInduction ==
  ASSUME NEW S, IsFiniteSet(S), NEW F \in SUBSET SUBSET S, {} \in F,
         \A T \in F : \A x \in S \ T : T \cup {x} \in F
  PROVE  F = SUBSET S
<1> DEFINE A == {n \in Nat : \A T \in SUBSET S : Cardinality(T) = n => T \in F}
<1>0. \A T \in SUBSET S : IsFiniteSet(T) /\ Cardinality(T) \in Nat
  BY FS_Subset, FS_CardinalityType
<1>1. 0 \in A
  BY <1>0, FS_EmptySet
<1>2. ASSUME NEW n \in A PROVE n + 1 \in A
  <2>1. SUFFICES ASSUME NEW T \in SUBSET S, Cardinality(T) = n + 1 PROVE T \in F
    BY <1>2
  <2>2. n \in Nat /\ T # {}
    BY <2>1, FS_EmptySet
  <2>3. PICK x \in T : TRUE
    BY <2>2
  <2>4. Cardinality(T \ {x}) = n
    <3>1. IsFiniteSet(T) /\ Cardinality(T) = n + 1
      BY <1>0, <2>1
    <3>2. Cardinality(T \ {x}) = Cardinality(T) - 1
      BY <2>3, <3>1, FS_RemoveElement
    <3> QED BY <2>2, <3>1, <3>2
  <2>5. T \ {x} \in F
    BY <1>2, <2>4
  <2>6. T = (T \ {x}) \cup {x} /\ x \in S \ (T \ {x})
    OBVIOUS
  <2> QED BY <2>5, <2>6
<1>3. A = Nat
  <2> HIDE DEF A
  <2>1. A \in SUBSET Nat
    BY DEF A
  <2> QED BY <1>1, <1>2, <2>1, NatSetInduction
<1>4. ASSUME NEW T \in SUBSET S PROVE T \in F
  BY <1>0, <1>3, <1>4
<1> QED BY <1>4

\* A set of numbers below a bound has a greatest and a least element.
LEMMA MaxOfNumbers ==
  ASSUME NEW n \in Nat, NEW S \in SUBSET (1 .. n), S # {}
  PROVE  Max(S) \in S /\ \A x \in S : x =< Max(S)
<1> DEFINE A == {k \in Nat : \A T \in SUBSET (1 .. k) :
                    T # {} => \E m \in T : \A x \in T : m >= x}
<1>1. 0 \in A
  <2>1. 1 .. 0 = {}
    OBVIOUS
  <2> QED BY <2>1
<1>2. ASSUME NEW k \in A PROVE k + 1 \in A
  <2> SUFFICES ASSUME NEW T \in SUBSET (1 .. k + 1), T # {}
               PROVE  \E m \in T : \A x \in T : m >= x
    OBVIOUS
  <2>1. CASE k + 1 \in T
    BY <2>1
  <2>2. CASE k + 1 \notin T
    <3>1. T \in SUBSET (1 .. k)
      BY <2>2
    <3> QED BY <3>1
  <2> QED BY <2>1, <2>2
<1>3. A = Nat
  <2> HIDE DEF A
  <2>1. A \in SUBSET Nat
    BY DEF A
  <2> QED BY <1>1, <1>2, <2>1, NatSetInduction
<1>4. \E m \in S : \A x \in S : m >= x
  BY <1>3
<1>5. Max(S) \in S /\ \A x \in S : Max(S) >= x
  BY <1>4 DEF Max
<1> QED BY <1>5

\* Likewise the least.
LEMMA MinOfNumbers ==
  ASSUME NEW n \in Nat, NEW S \in SUBSET (1 .. n), S # {}
  PROVE  Min(S) \in S /\ \A x \in S : Min(S) =< x
<1> DEFINE T == {n + 1 - x : x \in S}
           m == n + 1 - Max(T)
<1>1. T \in SUBSET (1 .. n) /\ T # {}
  <2>1. \A x \in S : n + 1 - x \in 1 .. n
    OBVIOUS
  <2>2. T \in SUBSET (1 .. n)
    BY <2>1
  <2>3. \E y : y \in T
    OBVIOUS
  <2> QED BY <2>2, <2>3
<1>2. Max(T) \in T /\ \A y \in T : y =< Max(T)
  BY <1>1, MaxOfNumbers
<1>3. m \in S /\ \A x \in S : m =< x
  <2>1. PICK z \in S : Max(T) = n + 1 - z
    BY <1>2
  <2>2. m = z
    BY <2>1
  <2>3. ASSUME NEW x \in S PROVE z =< x
    <3>1. n + 1 - x =< n + 1 - z
      BY <1>2, <2>1
    <3> QED BY <3>1
  <2> QED BY <2>2, <2>3
<1>4. \E x \in S : \A y \in S : x =< y
  BY <1>3
<1> QED BY <1>4 DEF Min

-----------------------------------------------------------------------------
(* Sums over finite sets: what SumFunctionOnSet of the module Functions    *)
(* computes. It is the value at S of a function on the subsets of S, the   *)
(* solution of a recursive equation, so that has to be shown to exist.     *)

First(s) == CHOOSE x \in s : TRUE
Rest(s) == s \ {First(s)}

\* g adds up f over each set of the family D.
AddsUp(g, f, D) == g = [s \in D |-> IF s = {} THEN 0 ELSE f[First(s)] + g[Rest(s)]]

\* First picks an element.
LEMMA FirstIsElement == \A s : s # {} => First(s) \in s
BY DEF First

\* The definition of the sum, without its operators.
LEMMA SumUnfolds ==
  ASSUME NEW f, NEW S
  PROVE  SumFunctionOnSet(f, S) = (CHOOSE g : AddsUp(g, f, SUBSET S))[S]
BY DEF SumFunctionOnSet, FoldFunctionOnSet, MapThenFoldSet, AddsUp, First, Rest

\* The sets of at most n elements.
UpTo(S, n) == {s \in SUBSET S : Cardinality(s) <= n}

\* What is left after the first element is a smaller set.
LEMMA RestIsSmaller ==
  ASSUME NEW S, IsFiniteSet(S), NEW n \in Nat, NEW s \in UpTo(S, n + 1), s # {}
  PROVE  Rest(s) \in UpTo(S, n) /\ First(s) \in s /\ First(s) \notin Rest(s)
<1>1. First(s) \in s /\ s \in SUBSET S /\ Cardinality(s) <= n + 1
  BY FirstIsElement DEF UpTo
<1>2. IsFiniteSet(s) /\ Cardinality(s) \in Nat
  BY <1>1, FS_Subset, FS_CardinalityType
<1>3. Cardinality(Rest(s)) = Cardinality(s) - 1
  BY <1>1, <1>2, FS_RemoveElement DEF Rest
<1> QED BY <1>1, <1>2, <1>3 DEF Rest, UpTo

\* The equation has a solution.
LEMMA SumExists ==
  ASSUME NEW f, NEW S, IsFiniteSet(S)
  PROVE  \E g : AddsUp(g, f, SUBSET S)
<1> DEFINE A == {n \in Nat : \E g : AddsUp(g, f, UpTo(S, n))}
<1>1. 0 \in A
  <2> DEFINE z == [s \in UpTo(S, 0) |-> 0]
  <2>1. \A s \in UpTo(S, 0) : s = {}
    <3> SUFFICES ASSUME NEW s \in UpTo(S, 0) PROVE s = {}
      OBVIOUS
    <3>1. s \in SUBSET S /\ Cardinality(s) <= 0
      BY DEF UpTo
    <3>2. IsFiniteSet(s) /\ Cardinality(s) \in Nat
      BY <3>1, FS_Subset, FS_CardinalityType
    <3> QED BY <3>1, <3>2, FS_EmptySet
  <2>2. AddsUp(z, f, UpTo(S, 0))
    BY <2>1 DEF AddsUp
  <2> QED BY <2>2
<1>2. ASSUME NEW n \in A PROVE n + 1 \in A
  <2>1. n \in Nat
    OBVIOUS
  <2>2. PICK g : AddsUp(g, f, UpTo(S, n))
    OBVIOUS
  <2> DEFINE h == [s \in UpTo(S, n + 1) |->
                     IF s = {} THEN 0 ELSE f[First(s)] + g[Rest(s)]]
  <2>3. \A s \in UpTo(S, n) : s \in UpTo(S, n + 1)
    <3> SUFFICES ASSUME NEW s \in UpTo(S, n) PROVE s \in UpTo(S, n + 1)
      OBVIOUS
    <3>1. s \in SUBSET S /\ Cardinality(s) <= n
      BY DEF UpTo
    <3>2. Cardinality(s) \in Nat
      BY <3>1, FS_Subset, FS_CardinalityType
    <3> QED BY <2>1, <3>1, <3>2 DEF UpTo
  <2>4. \A s \in UpTo(S, n) : h[s] = g[s]
    BY <2>2, <2>3 DEF AddsUp
  <2>5. \A s \in UpTo(S, n + 1) : s # {} => h[Rest(s)] = g[Rest(s)]
    BY <2>1, <2>4, RestIsSmaller
  <2>6. AddsUp(h, f, UpTo(S, n + 1))
    BY <2>5 DEF AddsUp
  <2> QED BY <2>1, <2>6
<1>3. Cardinality(S) \in A
  <2> HIDE DEF A
  <2>1. A \in SUBSET Nat
    BY DEF A
  <2>2. A = Nat
    BY <1>1, <1>2, <2>1, NatSetInduction
  <2> QED BY <2>2, FS_CardinalityType
<1>4. UpTo(S, Cardinality(S)) = SUBSET S
  BY FS_Subset DEF UpTo
<1> QED BY <1>3, <1>4

\* Two solutions agree where their functions do.
LEMMA SumUnique ==
  ASSUME NEW S, IsFiniteSet(S), NEW f, NEW e, NEW D, NEW E,
         SUBSET S \subseteq D, SUBSET S \subseteq E,
         NEW g, AddsUp(g, f, D), NEW h, AddsUp(h, e, E),
         \A x \in S : f[x] = e[x]
  PROVE  g[S] = h[S]
<1> DEFINE A == {n \in Nat : \A s \in UpTo(S, n) : g[s] = h[s]}
<1>0. \A s \in SUBSET S : /\ g[s] = IF s = {} THEN 0 ELSE f[First(s)] + g[Rest(s)]
                          /\ h[s] = IF s = {} THEN 0 ELSE e[First(s)] + h[Rest(s)]
  BY DEF AddsUp
<1>1. 0 \in A
  <2> SUFFICES ASSUME NEW s \in UpTo(S, 0) PROVE g[s] = h[s]
    OBVIOUS
  <2>1. s \in SUBSET S /\ Cardinality(s) <= 0
    BY DEF UpTo
  <2>2. IsFiniteSet(s) /\ Cardinality(s) \in Nat
    BY <2>1, FS_Subset, FS_CardinalityType
  <2>3. s = {}
    BY <2>1, <2>2, FS_EmptySet
  <2> QED BY <1>0, <2>1, <2>3
<1>2. ASSUME NEW n \in A PROVE n + 1 \in A
  <2>1. n \in Nat /\ \A s \in UpTo(S, n) : g[s] = h[s]
    OBVIOUS
  <2> SUFFICES ASSUME NEW s \in UpTo(S, n + 1) PROVE g[s] = h[s]
    BY <2>1
  <2>2. s \in SUBSET S
    BY DEF UpTo
  <2>3. CASE s = {}
    BY <1>0, <2>2, <2>3
  <2>4. CASE s # {}
    <3>1. Rest(s) \in UpTo(S, n) /\ First(s) \in s
      BY <2>1, <2>4, RestIsSmaller
    <3>2. g[Rest(s)] = h[Rest(s)] /\ f[First(s)] = e[First(s)]
      BY <2>1, <2>2, <3>1
    <3> QED BY <1>0, <2>2, <2>4, <3>2
  <2> QED BY <2>3, <2>4
<1>3. Cardinality(S) \in A
  <2> HIDE DEF A
  <2>1. A \in SUBSET Nat
    BY DEF A
  <2>2. A = Nat
    BY <1>1, <1>2, <2>1, NatSetInduction
  <2> QED BY <2>2, FS_CardinalityType
<1>4. S \in UpTo(S, Cardinality(S))
  BY FS_CardinalityType DEF UpTo
<1> QED BY <1>3, <1>4

\* A solution is a natural number when its function has natural numbers, and
\* any element may be taken first.
LEMMA SumAnyFirst ==
  ASSUME NEW S, IsFiniteSet(S), NEW f, \A x \in S : f[x] \in Nat,
         NEW g, AddsUp(g, f, SUBSET S)
  PROVE  \A s \in SUBSET S : g[s] \in Nat /\ \A x \in s : g[s] = f[x] + g[s \ {x}]
<1> DEFINE P(s) == g[s] \in Nat /\ \A x \in s : g[s] = f[x] + g[s \ {x}]
           A == {n \in Nat : \A s \in UpTo(S, n) : P(s)}
<1>0. \A s \in SUBSET S : g[s] = IF s = {} THEN 0 ELSE f[First(s)] + g[Rest(s)]
  BY DEF AddsUp
<1>1. 0 \in A
  <2> SUFFICES ASSUME NEW s \in UpTo(S, 0) PROVE P(s)
    OBVIOUS
  <2>1. s \in SUBSET S /\ Cardinality(s) <= 0
    BY DEF UpTo
  <2>2. IsFiniteSet(s) /\ Cardinality(s) \in Nat
    BY <2>1, FS_Subset, FS_CardinalityType
  <2>3. s = {}
    BY <2>1, <2>2, FS_EmptySet
  <2> QED BY <1>0, <2>1, <2>3
<1>2. ASSUME NEW n \in A PROVE n + 1 \in A
  <2>1. n \in Nat /\ \A s \in UpTo(S, n) : P(s)
    OBVIOUS
  <2> SUFFICES ASSUME NEW s \in UpTo(S, n + 1) PROVE P(s)
    BY <2>1
  <2>2. s \in SUBSET S /\ Cardinality(s) <= n + 1
    BY DEF UpTo
  <2>3. CASE s = {}
    BY <1>0, <2>2, <2>3
  <2>4. CASE s # {}
    <3> DEFINE y == First(s)
    <3>1. Rest(s) \in UpTo(S, n) /\ y \in s /\ Rest(s) = s \ {y} /\ y \in S
      BY <2>1, <2>2, <2>4, RestIsSmaller DEF Rest
    <3> HIDE DEF y
    <3>2. g[s] = f[y] + g[s \ {y}]
      BY <1>0, <2>2, <2>4, <3>1 DEF y
    <3>3. P(s \ {y}) /\ f[y] \in Nat
      BY <2>1, <3>1
    <3>4. g[s] \in Nat
      BY <3>2, <3>3
    <3>5. ASSUME NEW x \in s, x # y PROVE g[s] = f[x] + g[s \ {x}]
      <4>1. g[s \ {y}] = f[x] + g[(s \ {y}) \ {x}]
        BY <3>3, <3>5
      <4>2. s \ {x} \in UpTo(S, n)
        <5>1. IsFiniteSet(s) /\ Cardinality(s) \in Nat
          BY <2>2, FS_Subset, FS_CardinalityType
        <5>2. Cardinality(s \ {x}) = Cardinality(s) - 1
          BY <5>1, FS_RemoveElement
        <5> QED BY <2>1, <2>2, <5>1, <5>2 DEF UpTo
      <4>3. g[s \ {x}] = f[y] + g[(s \ {x}) \ {y}]
        BY <2>1, <3>1, <3>5, <4>2
      <4>4. (s \ {x}) \ {y} = (s \ {y}) \ {x} /\ (s \ {x}) \ {y} \in UpTo(S, n)
        <5>1. IsFiniteSet(s \ {x}) /\ Cardinality(s \ {x}) \in Nat /\ s \ {x} \in SUBSET S
              /\ Cardinality(s \ {x}) <= n
          BY <2>2, <4>2, FS_Subset, FS_CardinalityType DEF UpTo
        <5>2. Cardinality((s \ {x}) \ {y}) = Cardinality(s \ {x}) - 1
          BY <3>1, <3>5, <5>1, FS_RemoveElement
        <5> QED BY <2>1, <5>1, <5>2 DEF UpTo
      <4>5. g[(s \ {x}) \ {y}] \in Nat /\ f[x] \in Nat
        BY <2>1, <2>2, <4>4
      <4>6. g[s] = f[y] + (f[x] + g[(s \ {x}) \ {y}])
        BY <3>2, <4>1, <4>4
      <4>7. f[y] \in Nat
        BY <3>3
      <4>8. g[s] = f[x] + (f[y] + g[(s \ {x}) \ {y}])
        BY ONLY <4>5, <4>6, <4>7
      <4> QED BY <4>3, <4>8
    <3> QED BY <3>2, <3>4, <3>5
  <2> QED BY <2>3, <2>4
<1>3. Cardinality(S) \in A
  <2> HIDE DEF A
  <2>1. A \in SUBSET Nat
    BY DEF A
  <2>2. A = Nat
    BY <1>1, <1>2, <2>1, NatSetInduction
  <2> QED BY <2>2, FS_CardinalityType
<1>4. UpTo(S, Cardinality(S)) = SUBSET S
  BY FS_Subset DEF UpTo
<1> QED BY <1>3, <1>4

\* The sum of f over S, as a solution.
LEMMA SumIsSolution ==
  ASSUME NEW f, NEW S, IsFiniteSet(S)
  PROVE  \E g : AddsUp(g, f, SUBSET S) /\ SumFunctionOnSet(f, S) = g[S]
<1>1. AddsUp(CHOOSE g : AddsUp(g, f, SUBSET S), f, SUBSET S)
  BY SumExists
<1> QED BY <1>1, SumUnfolds

\* Sums over the subsets of S are values of one solution.
LEMMA SumOfPart ==
  ASSUME NEW f, NEW S, IsFiniteSet(S), NEW g, AddsUp(g, f, SUBSET S), NEW T \in SUBSET S
  PROVE  SumFunctionOnSet(f, T) = g[T]
<1>1. IsFiniteSet(T)
  BY FS_Subset
<1>2. PICK h : AddsUp(h, f, SUBSET T) /\ SumFunctionOnSet(f, T) = h[T]
  BY <1>1, SumIsSolution
<1>3. SUBSET T \subseteq SUBSET S
  OBVIOUS
<1> QED BY <1>1, <1>2, <1>3, SumUnique

\* The sum over no elements.
LEMMA SumEmpty == \A f : SumFunctionOnSet(f, {}) = 0
<1> SUFFICES ASSUME NEW f PROVE SumFunctionOnSet(f, {}) = 0
  OBVIOUS
<1>1. PICK g : AddsUp(g, f, SUBSET {}) /\ SumFunctionOnSet(f, {}) = g[{}]
  BY SumIsSolution, FS_EmptySet
<1> QED BY <1>1 DEF AddsUp

\* Sums of natural numbers are such, and change by the element that is removed.
LEMMA SumRemove ==
  ASSUME NEW f, NEW S, IsFiniteSet(S), \A x \in S : f[x] \in Nat
  PROVE  /\ SumFunctionOnSet(f, S) \in Nat
         /\ \A x \in S : SumFunctionOnSet(f, S) = SumFunctionOnSet(f, S \ {x}) + f[x]
<1>1. PICK g : AddsUp(g, f, SUBSET S) /\ SumFunctionOnSet(f, S) = g[S]
  BY SumIsSolution
<1>2. \A T \in SUBSET S : SumFunctionOnSet(f, T) = g[T]
  BY <1>1, SumOfPart
<1>3. \A T \in SUBSET S : g[T] \in Nat
  BY <1>1, SumAnyFirst
<1>4. \A x \in S : g[S] = f[x] + g[S \ {x}]
  BY <1>1, SumAnyFirst
<1>5. ASSUME NEW x \in S
      PROVE  SumFunctionOnSet(f, S) = SumFunctionOnSet(f, S \ {x}) + f[x]
  <2>1. SumFunctionOnSet(f, S \ {x}) = g[S \ {x}] /\ g[S \ {x}] \in Nat
    BY <1>2, <1>3
  <2> QED BY <1>1, <1>4, <2>1
<1> QED BY <1>1, <1>3, <1>5

\* One more element adds its number.
LEMMA SumAdd ==
  ASSUME NEW f, NEW S, IsFiniteSet(S), NEW y, y \notin S, \A x \in S \cup {y} : f[x] \in Nat
  PROVE  SumFunctionOnSet(f, S \cup {y}) = SumFunctionOnSet(f, S) + f[y]
<1>1. IsFiniteSet(S \cup {y}) /\ y \in S \cup {y} /\ (S \cup {y}) \ {y} = S
  BY FS_AddElement
<1> QED BY <1>1, SumRemove

\* Functions that agree on a set have one sum over it.
LEMMA SumSame ==
  ASSUME NEW f, NEW e, NEW S, IsFiniteSet(S), \A x \in S : f[x] = e[x]
  PROVE  SumFunctionOnSet(f, S) = SumFunctionOnSet(e, S)
<1>1. PICK g : AddsUp(g, f, SUBSET S) /\ SumFunctionOnSet(f, S) = g[S]
  BY SumIsSolution
<1>2. PICK h : AddsUp(h, e, SUBSET S) /\ SumFunctionOnSet(e, S) = h[S]
  BY SumIsSolution
<1> QED BY <1>1, <1>2, SumUnique

\* A change at one element changes the sum by the difference.
LEMMA SumUpdate ==
  ASSUME NEW f, NEW e, NEW S, IsFiniteSet(S), NEW y \in S,
         \A x \in S : f[x] \in Nat /\ e[x] \in Nat, \A x \in S \ {y} : e[x] = f[x]
  PROVE  SumFunctionOnSet(e, S) + f[y] = SumFunctionOnSet(f, S) + e[y]
<1> DEFINE R == S \ {y}
<1>1. IsFiniteSet(R)
  BY FS_Subset
<1>2. SumFunctionOnSet(e, R) = SumFunctionOnSet(f, R)
  BY <1>1, SumSame
<1>3. SumFunctionOnSet(f, R) \in Nat
  BY <1>1, SumRemove
<1>4. SumFunctionOnSet(e, S) = SumFunctionOnSet(e, R) + e[y]
  BY SumRemove
<1>5. SumFunctionOnSet(f, S) = SumFunctionOnSet(f, R) + f[y]
  BY SumRemove
<1>6. f[y] \in Nat /\ e[y] \in Nat
  OBVIOUS
<1> HIDE DEF R
<1> QED BY <1>2, <1>3, <1>4, <1>5, <1>6

\* A sum of zeros.
LEMMA SumZero ==
  ASSUME NEW f, NEW S, IsFiniteSet(S), \A x \in S : f[x] = 0
  PROVE  SumFunctionOnSet(f, S) = 0
<1> DEFINE F == {T \in SUBSET S : SumFunctionOnSet(f, T) = 0}
<1>1. {} \in F
  BY SumEmpty
<1>2. ASSUME NEW T \in F, NEW x \in S \ T PROVE T \cup {x} \in F
  <2>1. T \in SUBSET S /\ SumFunctionOnSet(f, T) = 0 /\ IsFiniteSet(T)
    BY FS_Subset
  <2>2. \A y \in T \cup {x} : f[y] \in Nat
    OBVIOUS
  <2>3. SumFunctionOnSet(f, T \cup {x}) = 0 + 0
    BY <2>1, <2>2, SumAdd
  <2> QED BY <2>1, <2>3
<1>3. F = SUBSET S
  <2> HIDE DEF F
  <2>1. F \in SUBSET SUBSET S
    BY DEF F
  <2> QED BY <1>1, <1>2, <2>1, SubsetInduction
<1> QED BY <1>3

\* A sum may be taken part by part, the parts being the elements that h sends
\* to one place.
LEMMA SumByParts ==
  ASSUME NEW f, NEW S, IsFiniteSet(S), \A x \in S : f[x] \in Nat,
         NEW A, IsFiniteSet(A), NEW h, \A x \in S : h[x] \in A
  PROVE  SumFunctionOnSet(f, S)
           = SumFunctionOnSet([a \in A |-> SumFunctionOnSet(f, {x \in S : h[x] = a})], A)
<1> DEFINE Part(T, a) == {x \in T : h[x] = a}
           parts(T) == [a \in A |-> SumFunctionOnSet(f, Part(T, a))]
           F == {T \in SUBSET S : SumFunctionOnSet(f, T) = SumFunctionOnSet(parts(T), A)}
<1>1. {} \in F
  <2>1. \A a \in A : Part({}, a) = {}
    OBVIOUS
  <2>2. \A a \in A : parts({})[a] = 0
    BY <2>1, SumEmpty
  <2>3. SumFunctionOnSet(parts({}), A) = 0
    <3> HIDE DEF parts
    <3> QED BY <2>2, SumZero
  <2> QED BY <2>3, SumEmpty
<1>2. ASSUME NEW T \in F, NEW x \in S \ T PROVE T \cup {x} \in F
  <2> DEFINE U == T \cup {x}
             b == h[x]
  <2>1. /\ T \in SUBSET S /\ IsFiniteSet(T) /\ U \in SUBSET S /\ IsFiniteSet(U)
        /\ b \in A /\ f[x] \in Nat
        /\ SumFunctionOnSet(f, T) = SumFunctionOnSet(parts(T), A)
    BY FS_Subset
  <2>2. SumFunctionOnSet(f, U) = SumFunctionOnSet(f, T) + f[x]
    BY <2>1, SumAdd
  <2>3. \A V \in SUBSET S, a \in A : parts(V)[a] \in Nat
    <3> SUFFICES ASSUME NEW V \in SUBSET S, NEW a \in A PROVE parts(V)[a] \in Nat
      OBVIOUS
    <3>1. IsFiniteSet(Part(V, a)) /\ \A y \in Part(V, a) : f[y] \in Nat
      BY FS_Subset
    <3>2. SumFunctionOnSet(f, Part(V, a)) \in Nat
      BY <3>1, SumRemove
    <3> QED BY <3>2
  <2>4. \A a \in A \ {b} : parts(U)[a] = parts(T)[a]
    <3> SUFFICES ASSUME NEW a \in A, a # b PROVE parts(U)[a] = parts(T)[a]
      OBVIOUS
    <3>1. Part(U, a) = Part(T, a)
      OBVIOUS
    <3> QED BY <3>1
  <2>5. parts(U)[b] = parts(T)[b] + f[x]
    <3>1. Part(U, b) = Part(T, b) \cup {x} /\ x \notin Part(T, b)
      OBVIOUS
    <3>2. IsFiniteSet(Part(T, b)) /\ \A y \in Part(T, b) \cup {x} : f[y] \in Nat
      BY <2>1, FS_Subset
    <3>3. SumFunctionOnSet(f, Part(T, b) \cup {x}) = SumFunctionOnSet(f, Part(T, b)) + f[x]
      BY <3>1, <3>2, SumAdd
    <3> QED BY <2>1, <3>1, <3>3
  <2> HIDE DEF parts, U, b
  <2>6. SumFunctionOnSet(parts(U), A) + parts(T)[b] = SumFunctionOnSet(parts(T), A) + parts(U)[b]
    BY <2>1, <2>3, <2>4, SumUpdate
  <2>7. SumFunctionOnSet(parts(U), A) \in Nat /\ SumFunctionOnSet(parts(T), A) \in Nat
    BY <2>1, <2>3, SumRemove
  <2>8. parts(T)[b] \in Nat
    BY <2>1, <2>3
  <2>9. SumFunctionOnSet(f, U) = SumFunctionOnSet(parts(U), A)
    BY <2>1, <2>2, <2>5, <2>6, <2>7, <2>8
  <2> QED BY <2>1, <2>9 DEF U
<1>3. F = SUBSET S
  <2> HIDE DEF F
  <2>1. F \in SUBSET SUBSET S
    BY DEF F
  <2> QED BY <1>1, <1>2, <2>1, SubsetInduction
<1>4. S \in F
  BY <1>3
<1> QED BY <1>4

\* The same of the number of elements.
LEMMA CountByParts ==
  ASSUME NEW S, IsFiniteSet(S), NEW A, IsFiniteSet(A), NEW h, \A x \in S : h[x] \in A
  PROVE  Cardinality(S)
           = SumFunctionOnSet([a \in A |-> Cardinality({x \in S : h[x] = a})], A)
<1> DEFINE one == [x \in S |-> 1]
           F == {T \in SUBSET S : SumFunctionOnSet(one, T) = Cardinality(T)}
<1>1. {} \in F
  BY SumEmpty, FS_EmptySet
<1>2. ASSUME NEW T \in F, NEW x \in S \ T PROVE T \cup {x} \in F
  <2>1. T \in SUBSET S /\ IsFiniteSet(T) /\ SumFunctionOnSet(one, T) = Cardinality(T)
    BY FS_Subset
  <2>2. \A y \in T \cup {x} : one[y] = 1
    BY <2>1
  <2>3. SumFunctionOnSet(one, T \cup {x}) = Cardinality(T) + 1
    <3> HIDE DEF one
    <3> QED BY <2>1, <2>2, SumAdd
  <2>4. Cardinality(T \cup {x}) = Cardinality(T) + 1
    BY <2>1, FS_AddElement
  <2> QED BY <2>1, <2>3, <2>4
<1>3. F = SUBSET S
  <2> HIDE DEF F
  <2>1. F \in SUBSET SUBSET S
    BY DEF F
  <2> QED BY <1>1, <1>2, <2>1, SubsetInduction
<1>4. \A T \in SUBSET S : SumFunctionOnSet(one, T) = Cardinality(T)
  BY <1>3
<1>5. \A x \in S : one[x] \in Nat
  OBVIOUS
<1> HIDE DEF one, F
<1>6. Cardinality(S) = SumFunctionOnSet(one, S)
  BY <1>4
<1>7. SumFunctionOnSet(one, S)
        = SumFunctionOnSet([a \in A |-> SumFunctionOnSet(one, {x \in S : h[x] = a})], A)
  BY <1>5, SumByParts
<1>8. [a \in A |-> SumFunctionOnSet(one, {x \in S : h[x] = a})]
        = [a \in A |-> Cardinality({x \in S : h[x] = a})]
  BY <1>4
<1> QED BY <1>6, <1>7, <1>8

-----------------------------------------------------------------------------
(* Sequences                                                               *)

\* Appending adds one element to the range, and keeps a sequence free of
\* repetitions when that element is new.
LEMMA AppendInjectiveSeq ==
  ASSUME NEW S, NEW s \in Seq(S), NEW e \in S
  PROVE  /\ Range(Append(s, e)) = Range(s) \cup {e}
         /\ IsInjective(s) /\ e \notin Range(s) => IsInjective(Append(s, e))
<1> DEFINE t == Append(s, e)
<1>1. /\ t \in Seq(S)
      /\ Len(t) = Len(s) + 1
      /\ \A i \in 1 .. Len(s) : t[i] = s[i]
      /\ t[Len(s) + 1] = e
      /\ Len(s) \in Nat
  BY AppendProperties, LenProperties
<1>2. DOMAIN s = 1 .. Len(s) /\ DOMAIN t = 1 .. Len(s) + 1
  BY <1>1, LenProperties
<1> HIDE DEF t
<1>3. Range(t) = Range(s) \cup {e}
  BY <1>1, <1>2 DEF Range
<1>4. IsInjective(s) /\ e \notin Range(s) => IsInjective(t)
  BY <1>1, <1>2 DEF IsInjective, Range
<1> QED BY <1>3, <1>4 DEF t

\* A concatenation is free of repetitions exactly when both parts are and they
\* have no element in common.
LEMMA ConcatInjectiveSeq ==
  ASSUME NEW S, NEW s \in Seq(S), NEW t \in Seq(S)
  PROVE  IsInjective(s \o t) <=>
           IsInjective(s) /\ IsInjective(t) /\ Range(s) \cap Range(t) = {}
<1> DEFINE u == s \o t
           m == Len(s)
           n == Len(t)
<1>1. /\ DOMAIN s = 1 .. m /\ DOMAIN t = 1 .. n /\ DOMAIN u = 1 .. m + n
      /\ m \in Nat /\ n \in Nat
  BY ConcatProperties, LenProperties
<1>2. /\ \A i \in 1 .. m : u[i] = s[i]
      /\ \A j \in 1 .. n : u[m + j] = t[j]
  BY <1>1, ConcatProperties
<1> HIDE DEF u, m, n
<1>3. ASSUME IsInjective(u)
      PROVE  IsInjective(s) /\ IsInjective(t) /\ Range(s) \cap Range(t) = {}
  <2>1. IsInjective(s)
    BY <1>1, <1>2, <1>3 DEF IsInjective
  <2>2. IsInjective(t)
    <3> SUFFICES ASSUME NEW i \in 1 .. n, NEW j \in 1 .. n, t[i] = t[j]
                 PROVE  i = j
      BY <1>1 DEF IsInjective
    <3>1. m + i \in 1 .. m + n /\ m + j \in 1 .. m + n /\ u[m + i] = u[m + j]
      BY <1>1, <1>2
    <3>2. m + i = m + j
      BY <3>1, <1>1, <1>3 DEF IsInjective
    <3> QED BY <3>2, <1>1
  <2>3. Range(s) \cap Range(t) = {}
    <3> SUFFICES ASSUME NEW i \in 1 .. m, NEW j \in 1 .. n, s[i] = t[j]
                 PROVE  FALSE
      BY <1>1 DEF Range
    <3>1. i \in 1 .. m + n /\ m + j \in 1 .. m + n /\ u[i] = u[m + j]
      BY <1>1, <1>2
    <3>2. i = m + j
      BY <3>1, <1>1, <1>3 DEF IsInjective
    <3> QED BY <3>2, <1>1
  <2> QED BY <2>1, <2>2, <2>3
<1>4. ASSUME IsInjective(s), IsInjective(t), Range(s) \cap Range(t) = {}
      PROVE  IsInjective(u)
  <2> SUFFICES ASSUME NEW i \in 1 .. m + n, NEW j \in 1 .. m + n, u[i] = u[j]
               PROVE  i = j
    BY <1>1 DEF IsInjective
  <2>1. CASE i \in 1 .. m /\ j \in 1 .. m
    BY <2>1, <1>1, <1>2, <1>4 DEF IsInjective
  <2>2. CASE i \notin 1 .. m /\ j \notin 1 .. m
    <3>1. /\ i - m \in 1 .. n /\ j - m \in 1 .. n
          /\ i = m + (i - m) /\ j = m + (j - m)
      BY <2>2, <1>1
    <3>2. t[i - m] = t[j - m]
      BY <3>1, <1>2
    <3>3. i - m = j - m
      BY <3>1, <3>2, <1>1, <1>4 DEF IsInjective
    <3> QED BY <3>3, <1>1
  <2>3. CASE i \in 1 .. m /\ j \notin 1 .. m
    <3>1. j - m \in 1 .. n /\ j = m + (j - m)
      BY <2>3, <1>1
    <3>2. s[i] = t[j - m]
      BY <2>3, <3>1, <1>2
    <3> QED BY <2>3, <3>1, <3>2, <1>1, <1>4 DEF Range
  <2>4. CASE i \notin 1 .. m /\ j \in 1 .. m
    <3>1. i - m \in 1 .. n /\ i = m + (i - m)
      BY <2>4, <1>1
    <3>2. s[j] = t[i - m]
      BY <2>4, <3>1, <1>2
    <3> QED BY <2>4, <3>1, <3>2, <1>1, <1>4 DEF Range
  <2> QED BY <2>1, <2>2, <2>3, <2>4
<1> QED BY <1>3, <1>4 DEF u

\* The head of a sequence without repetitions does not occur in its tail.
LEMMA HeadTailInjectiveSeq ==
  ASSUME NEW S, NEW s \in Seq(S), s # <<>>
  PROVE  /\ Range(s) = {Head(s)} \cup Range(Tail(s))
         /\ IsInjective(s) => IsInjective(Tail(s)) /\ Head(s) \notin Range(Tail(s))
<1> DEFINE t == Tail(s)
<1>1. /\ t \in Seq(S)
      /\ Len(s) \in Nat \ {0}
      /\ Len(t) = Len(s) - 1
      /\ \A i \in 1 .. Len(t) : t[i] = s[i + 1]
      /\ Head(s) = s[1]
  BY HeadTailProperties, LenProperties, EmptySeq
<1>2. DOMAIN s = 1 .. Len(s) /\ DOMAIN t = 1 .. Len(s) - 1
  BY <1>1, LenProperties
<1> HIDE DEF t
<1>3. Range(s) = {s[1]} \cup Range(t)
  <2>1. \A i \in 1 .. Len(s) : i = 1 \/ (i - 1 \in DOMAIN t /\ t[i - 1] = s[i])
    BY <1>1, <1>2
  <2>2. \A i \in DOMAIN t : i + 1 \in DOMAIN s /\ s[i + 1] = t[i]
    BY <1>1, <1>2
  <2>3. 1 \in DOMAIN s
    BY <1>1, <1>2
  <2> QED BY <2>1, <2>2, <2>3, <1>2 DEF Range
<1>4. ASSUME IsInjective(s)
      PROVE  IsInjective(t) /\ s[1] \notin Range(t)
  <2>1. \A i \in DOMAIN t : i \in Nat \ {0} /\ i + 1 \in DOMAIN s /\ s[i + 1] = t[i]
    BY <1>1, <1>2
  <2>2. IsInjective(t)
    <3> SUFFICES ASSUME NEW i \in DOMAIN t, NEW j \in DOMAIN t, t[i] = t[j]
                 PROVE  i = j
      BY DEF IsInjective
    <3>1. i + 1 = j + 1
      BY <2>1, <1>4 DEF IsInjective
    <3> QED BY <3>1, <2>1
  <2>3. s[1] \notin Range(t)
    <3> SUFFICES ASSUME NEW i \in DOMAIN t, t[i] = s[1] PROVE FALSE
      BY DEF Range
    <3>1. i + 1 = 1
      BY <2>1, <1>1, <1>2, <1>4 DEF IsInjective
    <3> QED BY <3>1, <2>1
  <2> QED BY <2>2, <2>3
<1> QED BY <1>1, <1>3, <1>4 DEF t

\* A concatenation is cut into its two parts again.
LEMMA CutConcat ==
  ASSUME NEW S, NEW s \in Seq(S), NEW t \in Seq(S)
  PROVE  /\ SubSeq(s \o t, 1, Len(s)) = s
         /\ SubSeq(s \o t, Len(s) + 1, Len(s \o t)) = t
<1> DEFINE u == s \o t
           v == SubSeq(u, Len(s) + 1, Len(u))
<1>1. /\ u \in Seq(S) /\ Len(u) = Len(s) + Len(t)
      /\ Len(s) \in Nat /\ Len(t) \in Nat
      /\ \A i \in 1 .. Len(u) : u[i] = IF i <= Len(s) THEN s[i] ELSE t[i - Len(s)]
  BY ConcatProperties, LenProperties
<1>2. SubSeq(u, 1, Len(s)) = s
  BY <1>1, SubSeqOfConcat1, SubSeqFull
<1> HIDE DEF u
<1>3. \A i \in Len(s) + 1 .. Len(u) : u[i] \in S
  BY <1>1, ElementOfSeq
<1>4. Len(s) + 1 \in Int /\ Len(u) \in Int
  BY <1>1
<1>5. /\ v \in Seq(S)
      /\ Len(v) = IF Len(s) + 1 <= Len(u) THEN Len(u) - (Len(s) + 1) + 1 ELSE 0
      /\ \A i \in 1 .. Len(u) - (Len(s) + 1) + 1 : v[i] = u[Len(s) + 1 + i - 1]
  BY <1>3, <1>4, SubSeqProperties
<1> HIDE DEF v
<1>6. Len(v) = Len(t)
  BY <1>1, <1>5
<1>7. \A i \in 1 .. Len(t) : v[i] = t[i]
  <2>1. SUFFICES ASSUME NEW i \in 1 .. Len(t) PROVE v[i] = t[i]
    OBVIOUS
  <2> DEFINE j == Len(s) + i
  <2>2. i \in 1 .. Len(u) - (Len(s) + 1) + 1 /\ Len(s) + 1 + i - 1 = j
    BY <1>1, <2>1
  <2>3. v[i] = u[j]
    BY <1>5, <2>2
  <2>4. v[i] = u[j] /\ j \in 1 .. Len(u) /\ ~ j <= Len(s) /\ j - Len(s) = i
    BY <1>1, <2>1, <2>3
  <2> HIDE DEF j
  <2>5. u[j] = t[j - Len(s)]
    BY <1>1, <2>4
  <2> QED BY <2>4, <2>5
<1>8. v = t
  BY <1>5, <1>6, <1>7, SeqEqual
<1> QED BY <1>2, <1>8 DEF u, v

\* What is appended behind is appended to the whole.
LEMMA AppendBehind ==
  ASSUME NEW S, NEW s \in Seq(S), NEW t \in Seq(S), NEW e \in S
  PROVE  s \o Append(t, e) = Append(s \o t, e)
<1>1. <<e>> \in Seq(S) /\ s \o t \in Seq(S)
  BY ConcatProperties
<1>2. Append(t, e) = t \o <<e>> /\ Append(s \o t, e) = (s \o t) \o <<e>>
  BY <1>1, AppendIsConcat
<1> QED BY <1>1, <1>2, ConcatAssociative

\* The first element of the second part may as well be the last of the first.
LEMMA HeadMovesOver ==
  ASSUME NEW S, NEW s \in Seq(S), NEW t \in Seq(S), t # <<>>
  PROVE  Append(s, Head(t)) \o Tail(t) = s \o t
<1>1. Head(t) \in S /\ Tail(t) \in Seq(S) /\ <<Head(t)>> \in Seq(S)
  BY HeadTailProperties
<1>2. Append(s, Head(t)) = s \o <<Head(t)>>
  BY <1>1, AppendIsConcat
<1>3. <<Head(t)>> \o Tail(t) = t
  BY <1>1, HeadTailProperties, ConcatProperties, SeqEqual, LenProperties
<1> QED BY <1>1, <1>2, <1>3, ConcatAssociative

\* What RemoveAt takes out, and what moves up.
LEMMA RemoveAtValues ==
  ASSUME NEW S, NEW s \in Seq(S), NEW k \in 1 .. Len(s)
  PROVE  /\ RemoveAt(s, k) \in Seq(S)
         /\ Len(RemoveAt(s, k)) = Len(s) - 1
         /\ \A j \in 1 .. Len(s) - 1 : RemoveAt(s, k)[j] = IF j < k THEN s[j] ELSE s[j + 1]
<1> DEFINE u == SubSeq(s, 1, k - 1)
           v == SubSeq(s, k + 1, Len(s))
           n == Len(s)
<1>0. n \in Nat /\ k \in Nat /\ 1 <= k /\ k <= n /\ \A i \in 1 .. n : s[i] \in S
  BY LenProperties, ElementOfSeq
<1>1. /\ u \in Seq(S) /\ Len(u) = k - 1
      /\ \A i \in 1 .. k - 1 : u[i] = s[i]
  <2>1. \A i \in 1 .. k - 1 : s[i] \in S
    BY <1>0
  <2>2. /\ u \in Seq(S)
        /\ Len(u) = IF 1 <= k - 1 THEN k - 1 - 1 + 1 ELSE 0
        /\ \A i \in 1 .. k - 1 - 1 + 1 : u[i] = s[1 + i - 1]
    BY <1>0, <2>1, SubSeqProperties
  <2> HIDE DEF u
  <2>3. Len(u) = k - 1
    BY <1>0, <2>2
  <2>4. ASSUME NEW i \in 1 .. k - 1 PROVE u[i] = s[i]
    <3>1. i \in 1 .. k - 1 - 1 + 1 /\ 1 + i - 1 = i
      BY <1>0
    <3> QED BY <2>2, <3>1
  <2> QED BY <2>2, <2>3, <2>4
<1>2. /\ v \in Seq(S) /\ Len(v) = n - k
      /\ \A i \in 1 .. n - k : v[i] = s[k + i]
  <2>1. \A i \in k + 1 .. n : s[i] \in S
    BY <1>0
  <2>2. k + 1 \in Int /\ n \in Int
    BY <1>0
  <2>3. /\ v \in Seq(S)
        /\ Len(v) = IF k + 1 <= n THEN n - (k + 1) + 1 ELSE 0
        /\ \A i \in 1 .. n - (k + 1) + 1 : v[i] = s[k + 1 + i - 1]
    BY <2>1, <2>2, SubSeqProperties
  <2> HIDE DEF v, n
  <2>4. Len(v) = n - k
    BY <1>0, <2>3
  <2>5. ASSUME NEW i \in 1 .. n - k PROVE v[i] = s[k + i]
    <3>1. i \in 1 .. n - (k + 1) + 1 /\ k + 1 + i - 1 = k + i
      BY <1>0
    <3> QED BY <2>3, <3>1
  <2> QED BY <2>3, <2>4, <2>5
<1>3. RemoveAt(s, k) = u \o v
  BY DEF RemoveAt
<1> HIDE DEF u, v, n
<1>4. /\ u \o v \in Seq(S)
      /\ Len(u \o v) = Len(u) + Len(v)
      /\ \A i \in 1 .. Len(u) + Len(v) : (u \o v)[i] = IF i <= Len(u) THEN u[i] ELSE v[i - Len(u)]
  BY <1>1, <1>2, ConcatProperties
<1>5. ASSUME NEW j \in 1 .. n - 1 PROVE (u \o v)[j] = IF j < k THEN s[j] ELSE s[j + 1]
  <2>1. j \in 1 .. Len(u) + Len(v)
    BY <1>0, <1>1, <1>2
  <2>2. CASE j < k
    <3>1. j \in 1 .. k - 1 /\ j <= Len(u)
      BY <1>0, <1>1, <2>2
    <3> QED BY <1>1, <1>4, <2>1, <2>2, <3>1
  <2>3. CASE ~ (j < k)
    <3>1. ~ (j <= Len(u)) /\ j - Len(u) \in 1 .. n - k /\ k + (j - Len(u)) = j + 1
      BY <1>0, <1>1, <2>3
    <3>2. v[j - Len(u)] = s[k + (j - Len(u))]
      BY <1>2, <3>1
    <3> QED BY <1>4, <2>1, <2>3, <3>1, <3>2
  <2> QED BY <2>2, <2>3
<1>6. Len(u \o v) = n - 1
  BY <1>0, <1>1, <1>2, <1>4
<1> QED BY <1>3, <1>4, <1>5, <1>6 DEF n

\* RemoveFirst takes at most one place out of a sequence without repetitions, and
\* everything behind it moves up by that place.
LEMMA RemoveFirstValues ==
  ASSUME NEW S, NEW s \in Seq(S), IsInjective(s), NEW e
  PROVE  /\ RemoveFirst(s, e) \in Seq(S)
         /\ IsInjective(RemoveFirst(s, e))
         /\ Range(RemoveFirst(s, e)) = Range(s) \ {e}
         /\ \A i \in DOMAIN s : s[i] # e =>
              \E j \in DOMAIN RemoveFirst(s, e) : j >= i - 1 /\ RemoveFirst(s, e)[j] = s[i]
<1> DEFINE r == RemoveFirst(s, e)
<1>0. Len(s) \in Nat /\ DOMAIN s = 1 .. Len(s)
  BY LenProperties
<1>1. CASE e \notin Range(s)
  <2>1. r = s
    BY <1>0, <1>1 DEF RemoveFirst, Range
  <2>2. \A i \in DOMAIN s : i >= i - 1
    BY <1>0
  <2> HIDE DEF r
  <2> QED BY <1>1, <2>1, <2>2 DEF r
<1>2. CASE e \in Range(s)
  <2>1. PICK k \in 1 .. Len(s) : s[k] = e
    BY <1>0, <1>2 DEF Range
  <2>2. \A i \in 1 .. Len(s) : s[i] = e <=> i = k
    BY <1>0, <2>1 DEF IsInjective
  <2>3. {i \in 1 .. Len(s) : s[i] = e} = {k}
    BY <2>2
  <2>4. SelectInSeq(s, LAMBDA w : w = e) = k
    <3>1. Min({k}) = k
      BY DEF Min
    <3> QED BY <2>3, <3>1 DEF SelectInSeq
  <2>5. r = RemoveAt(s, k)
    BY <2>1, <2>4 DEF RemoveFirst
  <2>6. /\ r \in Seq(S) /\ Len(r) = Len(s) - 1
        /\ \A j \in 1 .. Len(s) - 1 : r[j] = IF j < k THEN s[j] ELSE s[j + 1]
    BY <2>5, RemoveAtValues
  <2> HIDE DEF r
  <2>7. DOMAIN r = 1 .. Len(s) - 1
    BY <2>6, LenProperties
  <2>8. ASSUME NEW i \in DOMAIN s, s[i] # e
        PROVE  \E j \in DOMAIN r : j >= i - 1 /\ r[j] = s[i]
    <3>1. i # k /\ i \in 1 .. Len(s)
      BY <1>0, <2>1, <2>8
    <3>2. CASE i < k
      <4>1. i \in 1 .. Len(s) - 1 /\ i >= i - 1
        BY <1>0, <3>1, <3>2
      <4> QED BY <2>6, <2>7, <3>2, <4>1
    <3>3. CASE i > k
      <4>1. i - 1 \in 1 .. Len(s) - 1 /\ ~ (i - 1 < k) /\ i - 1 + 1 = i /\ i - 1 >= i - 1
        BY <1>0, <3>1, <3>3
      <4> QED BY <2>6, <2>7, <4>1
    <3> QED BY <1>0, <3>1, <3>2, <3>3
  <2>9. ASSUME NEW j \in DOMAIN r
        PROVE  \E i \in DOMAIN s : /\ r[j] = s[i] /\ i # k
                                   /\ i = IF j < k THEN j ELSE j + 1
    <3>1. j \in 1 .. Len(s) - 1 /\ j \in 1 .. Len(s) /\ j + 1 \in 1 .. Len(s)
      BY <1>0, <2>7
    <3>2. CASE j < k
      BY <1>0, <2>6, <3>1, <3>2
    <3>3. CASE ~ (j < k)
      <4>1. j + 1 # k
        BY <1>0, <3>1, <3>3
      <4> QED BY <1>0, <2>6, <3>1, <3>3, <4>1
    <3> QED BY <3>2, <3>3
  <2>10. Range(r) = Range(s) \ {e}
    <3>1. \A x \in Range(r) : x \in Range(s) /\ x # e
      BY <1>0, <2>2, <2>9 DEF Range
    <3>2. \A x \in Range(s) \ {e} : x \in Range(r)
      BY <2>8 DEF Range
    <3> QED BY <3>1, <3>2
  <2>11. IsInjective(r)
    <3> SUFFICES ASSUME NEW j \in DOMAIN r, NEW m \in DOMAIN r, r[j] = r[m] PROVE j = m
      BY DEF IsInjective
    <3>1. (IF j < k THEN j ELSE j + 1) = (IF m < k THEN m ELSE m + 1)
      BY <2>9 DEF IsInjective
    <3>2. j \in Nat /\ m \in Nat /\ k \in Nat
      BY <2>7
    <3> QED BY <3>1, <3>2
  <2> QED BY <2>6, <2>8, <2>10, <2>11 DEF r
<1> QED BY <1>1, <1>2

\* A row at the front, and each other row where it was or further behind.
LEMMA MovesToFront ==
  ASSUME NEW S, NEW s \in Seq(S), IsInjective(s), NEW e \in S
  PROVE  /\ Cons(e, RemoveFirst(s, e)) \in Seq(S)
         /\ IsInjective(Cons(e, RemoveFirst(s, e)))
         /\ Range(Cons(e, RemoveFirst(s, e))) = Range(s) \cup {e}
         /\ \A i \in DOMAIN s : s[i] # e =>
              \E j \in DOMAIN Cons(e, RemoveFirst(s, e)) :
                 j >= i /\ Cons(e, RemoveFirst(s, e))[j] = s[i]
<1> DEFINE r == RemoveFirst(s, e)
           t == Cons(e, r)
<1>1. /\ r \in Seq(S) /\ IsInjective(r) /\ Range(r) = Range(s) \ {e}
      /\ \A i \in DOMAIN s : s[i] # e => \E j \in DOMAIN r : j >= i - 1 /\ r[j] = s[i]
  BY RemoveFirstValues
<1> HIDE DEF r
<1>2. t = <<e>> \o r /\ <<e>> \in Seq(S)
  BY DEF Cons
<1>3. /\ t \in Seq(S) /\ Len(t) = Len(r) + 1 /\ Len(r) \in Nat
      /\ t[1] = e
      /\ \A j \in 1 .. Len(r) : t[j + 1] = r[j]
  <2>1. Len(<<e>>) = 1 /\ <<e>>[1] = e /\ Len(r) \in Nat
    BY <1>1, LenProperties
  <2>2. /\ <<e>> \o r \in Seq(S)
        /\ Len(<<e>> \o r) = Len(<<e>>) + Len(r)
        /\ \A i \in 1 .. Len(<<e>>) + Len(r) :
             (<<e>> \o r)[i] = IF i <= Len(<<e>>) THEN <<e>>[i] ELSE r[i - Len(<<e>>)]
    BY <1>1, <1>2, ConcatProperties
  <2> HIDE DEF t
  <2>3. Len(t) = Len(r) + 1
    BY <1>2, <2>1, <2>2
  <2>4. \A i \in 1 .. 1 + Len(r) : t[i] = IF i <= 1 THEN e ELSE r[i - 1]
    BY <1>2, <2>1, <2>2
  <2>5. t[1] = e
    BY <2>1, <2>4
  <2>6. ASSUME NEW j \in 1 .. Len(r) PROVE t[j + 1] = r[j]
    <3>1. j + 1 \in 1 .. 1 + Len(r) /\ ~ (j + 1 <= 1) /\ j + 1 - 1 = j
      BY <2>1
    <3> QED BY <2>4, <3>1
  <2> QED BY <1>2, <2>1, <2>2, <2>3, <2>5, <2>6
<1> HIDE DEF t
<1>4. DOMAIN r = 1 .. Len(r) /\ DOMAIN t = 1 .. Len(r) + 1 /\ DOMAIN s = 1 .. Len(s) /\ Len(s) \in Nat
  BY <1>1, <1>3, LenProperties
<1>5. \A j \in DOMAIN t : j = 1 \/ (j - 1 \in DOMAIN r /\ t[j] = r[j - 1])
  <2> SUFFICES ASSUME NEW j \in DOMAIN t, j # 1 PROVE j - 1 \in DOMAIN r /\ t[j] = r[j - 1]
    OBVIOUS
  <2>1. j - 1 \in 1 .. Len(r) /\ j - 1 + 1 = j
    BY <1>3, <1>4
  <2> QED BY <1>3, <1>4, <2>1
<1>6. Range(t) = Range(s) \cup {e}
  <2>1. \A x \in Range(t) : x = e \/ x \in Range(r)
    BY <1>3, <1>5 DEF Range
  <2>2. e \in Range(t)
    BY <1>3, <1>4 DEF Range
  <2>3. ASSUME NEW j \in DOMAIN r PROVE r[j] \in Range(t)
    <3>1. j + 1 \in DOMAIN t /\ t[j + 1] = r[j]
      BY <1>3, <1>4
    <3> QED BY <3>1 DEF Range
  <2>4. \A x \in Range(r) : x \in Range(t)
    BY <2>3 DEF Range
  <2> QED BY <1>1, <2>1, <2>2, <2>4
<1>7. IsInjective(t)
  <2> SUFFICES ASSUME NEW j \in DOMAIN t, NEW m \in DOMAIN t, t[j] = t[m] PROVE j = m
    BY DEF IsInjective
  <2>1. \A x \in Range(r) : x # e
    BY <1>1
  <2>2. \A i \in DOMAIN r : r[i] # e
    BY <2>1 DEF Range
  <2>3. j \in Nat /\ m \in Nat
    BY <1>4
  <2>4. CASE j = 1
    BY <1>3, <1>5, <2>2, <2>4
  <2>5. CASE m = 1
    BY <1>3, <1>5, <2>2, <2>5
  <2>6. CASE j # 1 /\ m # 1
    <3>1. j - 1 = m - 1
      BY <1>1, <1>5, <2>6 DEF IsInjective
    <3> QED BY <2>3, <3>1
  <2> QED BY <2>4, <2>5, <2>6
<1>8. ASSUME NEW i \in DOMAIN s, s[i] # e
      PROVE  \E j \in DOMAIN t : j >= i /\ t[j] = s[i]
  <2>1. PICK j \in DOMAIN r : j >= i - 1 /\ r[j] = s[i]
    BY <1>1, <1>8
  <2>2. j + 1 \in DOMAIN t /\ j + 1 >= i /\ t[j + 1] = s[i]
    BY <1>3, <1>4, <2>1
  <2> QED BY <2>2
<1> QED BY <1>3, <1>6, <1>7, <1>8 DEF t, r

\* What is left by RemoveFirst keeps its order.
LEMMA RemoveFirstOrder ==
  ASSUME NEW S, NEW s \in Seq(S), IsInjective(s), NEW e
  PROVE  \A i, m \in DOMAIN s : i =< m /\ s[i] # e /\ s[m] # e =>
           \E j, n \in DOMAIN RemoveFirst(s, e) :
              j =< n /\ RemoveFirst(s, e)[j] = s[i] /\ RemoveFirst(s, e)[n] = s[m]
<1> DEFINE r == RemoveFirst(s, e)
<1>0. Len(s) \in Nat /\ DOMAIN s = 1 .. Len(s)
  BY LenProperties
<1>1. CASE e \notin Range(s)
  <2>1. r = s
    BY <1>0, <1>1 DEF RemoveFirst, Range
  <2> QED BY <2>1
<1>2. CASE e \in Range(s)
  <2>1. PICK k \in 1 .. Len(s) : s[k] = e
    BY <1>0, <1>2 DEF Range
  <2>2. {i \in 1 .. Len(s) : s[i] = e} = {k}
    BY <1>0, <2>1 DEF IsInjective
  <2>3. SelectInSeq(s, LAMBDA w : w = e) = k
    <3>1. Min({k}) = k
      BY DEF Min
    <3> QED BY <2>2, <3>1 DEF SelectInSeq
  <2>4. r = RemoveAt(s, k)
    BY <2>1, <2>3 DEF RemoveFirst
  <2>5. /\ r \in Seq(S) /\ Len(r) = Len(s) - 1
        /\ \A j \in 1 .. Len(s) - 1 : r[j] = IF j < k THEN s[j] ELSE s[j + 1]
    BY <2>4, RemoveAtValues
  <2> HIDE DEF r
  <2>6. DOMAIN r = 1 .. Len(s) - 1
    BY <2>5, LenProperties
  <2> DEFINE at(i) == IF i < k THEN i ELSE i - 1
  <2>7. ASSUME NEW i \in 1 .. Len(s), i # k
        PROVE  at(i) \in DOMAIN r /\ r[at(i)] = s[i]
    <3>1. CASE i < k
      BY <1>0, <2>5, <2>6, <3>1
    <3>2. CASE i > k
      <4>1. i - 1 \in 1 .. Len(s) - 1 /\ ~ (i - 1 < k) /\ i - 1 + 1 = i /\ ~ (i < k)
        BY <1>0, <2>7, <3>2
      <4> QED BY <2>5, <2>6, <4>1
    <3> QED BY <1>0, <2>7, <3>1, <3>2
  <2>8. \A i, m \in 1 .. Len(s) : i =< m /\ i # k /\ m # k => at(i) =< at(m)
    BY <1>0
  <2> HIDE DEF at
  <2> QED BY <1>0, <2>1, <2>7, <2>8 DEF r
<1> QED BY <1>1, <1>2

\* A row that moves to the front is in front of all, and the others keep their order.
LEMMA FrontKeepsOrder ==
  ASSUME NEW S, NEW s \in Seq(S), IsInjective(s), NEW e \in S
  PROVE  /\ 1 \in DOMAIN Cons(e, RemoveFirst(s, e)) /\ Cons(e, RemoveFirst(s, e))[1] = e
         /\ \A i, m \in DOMAIN s : i =< m /\ s[i] # e /\ s[m] # e =>
              \E j, n \in DOMAIN Cons(e, RemoveFirst(s, e)) :
                 /\ j =< n
                 /\ Cons(e, RemoveFirst(s, e))[j] = s[i]
                 /\ Cons(e, RemoveFirst(s, e))[n] = s[m]
<1> DEFINE r == RemoveFirst(s, e)
           t == Cons(e, r)
<1>1. r \in Seq(S)
  BY RemoveFirstValues
<1>2. \A i, m \in DOMAIN s : i =< m /\ s[i] # e /\ s[m] # e =>
        \E j, n \in DOMAIN r : j =< n /\ r[j] = s[i] /\ r[n] = s[m]
  BY RemoveFirstOrder
<1> HIDE DEF r
<1>3. Len(r) \in Nat /\ DOMAIN r = 1 .. Len(r) /\ <<e>> \in Seq(S) /\ Len(<<e>>) = 1 /\ <<e>>[1] = e
  BY <1>1, LenProperties
<1>4. /\ t \in Seq(S) /\ Len(t) = 1 + Len(r)
      /\ \A i \in 1 .. 1 + Len(r) : t[i] = IF i <= 1 THEN <<e>>[i] ELSE r[i - 1]
  <2>1. t = <<e>> \o r
    BY DEF Cons
  <2>2. /\ <<e>> \o r \in Seq(S)
        /\ Len(<<e>> \o r) = Len(<<e>>) + Len(r)
        /\ \A i \in 1 .. Len(<<e>>) + Len(r) :
             (<<e>> \o r)[i] = IF i <= Len(<<e>>) THEN <<e>>[i] ELSE r[i - Len(<<e>>)]
    BY <1>1, <1>3, ConcatProperties
  <2> QED BY <1>3, <2>1, <2>2
<1> HIDE DEF t
<1>5. DOMAIN t = 1 .. 1 + Len(r)
  BY <1>4, LenProperties
<1>6. 1 \in DOMAIN t /\ t[1] = e
  BY <1>3, <1>4, <1>5
<1>7. ASSUME NEW j \in DOMAIN r PROVE j + 1 \in DOMAIN t /\ t[j + 1] = r[j]
  <2>1. j + 1 \in 1 .. 1 + Len(r) /\ ~ (j + 1 <= 1) /\ j + 1 - 1 = j
    BY <1>3
  <2> QED BY <1>4, <1>5, <2>1
<1>8. ASSUME NEW i \in DOMAIN s, NEW m \in DOMAIN s, i =< m, s[i] # e, s[m] # e
      PROVE  \E j, n \in DOMAIN t : j =< n /\ t[j] = s[i] /\ t[n] = s[m]
  <2>1. PICK j \in DOMAIN r : \E n \in DOMAIN r : j =< n /\ r[j] = s[i] /\ r[n] = s[m]
    BY <1>2, <1>8
  <2>2. PICK n \in DOMAIN r : j =< n /\ r[j] = s[i] /\ r[n] = s[m]
    BY <2>1
  <2>3. j + 1 =< n + 1
    BY <1>3, <2>2
  <2> QED BY <1>7, <2>2, <2>3
<1> QED BY <1>6, <1>8 DEF r, t

-----------------------------------------------------------------------------
(* A set of numbers in descending order                                    *)

\* It can be numbered from the greatest down.
LEMMA DescendingExists ==
  ASSUME NEW n \in Nat, NEW S \in SUBSET (1 .. n)
  PROVE  \E f \in [1 .. Cardinality(S) -> S] : \A i, j \in DOMAIN f : i < j => f[i] > f[j]
<1> DEFINE A == {k \in Nat : \A T \in SUBSET (1 .. k) :
                    \E f \in [1 .. Cardinality(T) -> T] :
                       \A i, j \in DOMAIN f : i < j => f[i] > f[j]}
<1>1. 0 \in A
  <2> SUFFICES ASSUME NEW T \in SUBSET (1 .. 0)
               PROVE  \E f \in [1 .. Cardinality(T) -> T] :
                         \A i, j \in DOMAIN f : i < j => f[i] > f[j]
    OBVIOUS
  <2>1. Cardinality(T) = 0 /\ 1 .. 0 = {}
    <3>1. 1 .. 0 = {}
      OBVIOUS
    <3>2. T = {}
      BY <3>1
    <3> QED BY <3>1, <3>2, FS_EmptySet
  <2>2. PICK f : f = [i \in 1 .. 0 |-> i]
    OBVIOUS
  <2>3. f \in [1 .. Cardinality(T) -> T] /\ DOMAIN f = {}
    BY <2>1, <2>2
  <2> QED BY <2>3
<1>2. ASSUME NEW k \in A PROVE k + 1 \in A
  <2> SUFFICES ASSUME NEW T \in SUBSET (1 .. k + 1)
               PROVE  \E f \in [1 .. Cardinality(T) -> T] :
                         \A i, j \in DOMAIN f : i < j => f[i] > f[j]
    OBVIOUS
  <2>1. CASE k + 1 \notin T
    <3>1. T \in SUBSET (1 .. k)
      BY <2>1
    <3> QED BY <3>1
  <2>2. CASE k + 1 \in T
    <3> DEFINE U == T \ {k + 1}
    <3>1. U \in SUBSET (1 .. k)
      OBVIOUS
    <3>2. IsFiniteSet(T) /\ IsFiniteSet(U) /\ Cardinality(U) = Cardinality(T) - 1
      <4>1. IsFiniteSet(1 .. k + 1)
        BY FS_Interval
      <4>2. IsFiniteSet(T)
        BY <4>1, FS_Subset
      <4> QED BY <2>2, <4>2, FS_RemoveElement
    <3>3. Cardinality(T) \in Nat /\ Cardinality(U) \in Nat
      BY <3>2, FS_CardinalityType
    <3>4. PICK g \in [1 .. Cardinality(U) -> U] : \A i, j \in DOMAIN g : i < j => g[i] > g[j]
      BY <3>1
    <3>5. PICK c \in Nat : c = Cardinality(U) /\ Cardinality(T) = c + 1
      BY <3>2, <3>3
    <3>6. PICK f : f = [i \in 1 .. c + 1 |-> IF i = 1 THEN k + 1 ELSE g[i - 1]]
      OBVIOUS
    <3>7. \A i \in 1 .. c + 1 : i # 1 => i - 1 \in 1 .. c
      BY <3>5
    <3>8. \A i \in 1 .. c : g[i] \in U /\ g[i] \in T /\ g[i] \in Nat /\ g[i] < k + 1
      <4>1. g \in [1 .. c -> U]
        BY <3>5
      <4>2. \A y \in U : y \in T /\ y \in Nat /\ y < k + 1
        BY <3>1
      <4> HIDE DEF U
      <4> QED BY <4>1, <4>2
    <3> HIDE DEF U
    <3>9. f \in [1 .. Cardinality(T) -> T]
      BY <2>2, <3>5, <3>6, <3>7, <3>8
    <3>10. ASSUME NEW i \in 1 .. c + 1, NEW j \in 1 .. c + 1, i < j PROVE f[i] > f[j]
      <4>1. j # 1 /\ j - 1 \in 1 .. c /\ f[j] = g[j - 1]
        BY <3>5, <3>6, <3>7, <3>10
      <4>2. CASE i = 1
        BY <3>6, <3>8, <4>1, <4>2
      <4>3. CASE i # 1
        <5>1. i - 1 \in 1 .. c /\ f[i] = g[i - 1] /\ i - 1 < j - 1
          BY <3>6, <3>7, <3>10, <4>3
        <5> QED BY <3>4, <3>5, <4>1, <5>1
      <4> QED BY <4>2, <4>3
    <3>11. DOMAIN f = 1 .. c + 1
      BY <3>6
    <3> QED BY <3>9, <3>10, <3>11
  <2> QED BY <2>1, <2>2
<1>3. A = Nat
  <2> HIDE DEF A
  <2>1. A \in SUBSET Nat
    BY DEF A
  <2> QED BY <1>1, <1>2, <2>1, NatSetInduction
<1> QED BY <1>3

Descends(f) == \A i, j \in DOMAIN f : i < j => f[i] > f[j]

\* Such a numbering leaves none out.
LEMMA DescendingIsOnto ==
  ASSUME NEW n \in Nat, NEW S \in SUBSET (1 .. n),
         NEW f \in [1 .. Cardinality(S) -> S],
         Descends(f),
         NEW x \in S
  PROVE  \E i \in DOMAIN f : f[i] = x
<1> USE DEF Descends
<1> SUFFICES ASSUME \A i \in DOMAIN f : f[i] # x PROVE FALSE
  OBVIOUS
<1>1. IsFiniteSet(S) /\ IsFiniteSet(S \ {x}) /\ Cardinality(S \ {x}) = Cardinality(S) - 1
  <2>1. IsFiniteSet(1 .. n)
    BY FS_Interval
  <2>2. IsFiniteSet(S)
    BY <2>1, FS_Subset
  <2> QED BY <2>2, FS_RemoveElement
<1>2. PICK c \in Nat : c = Cardinality(S)
  BY <1>1, FS_CardinalityType
<1>3. \A i, j \in 1 .. c : f[i] = f[j] => i = j
  <2> SUFFICES ASSUME NEW i \in 1 .. c, NEW j \in 1 .. c, f[i] = f[j] PROVE i = j
    OBVIOUS
  <2>1. f[i] \in Int /\ f[j] \in Int
    <3>1. f \in [1 .. c -> S] /\ \A y \in S : y \in Int
      BY <1>2
    <3> QED BY <3>1
  <2>2. i < j => f[i] > f[j]
    BY <1>2
  <2>3. j < i => f[j] > f[i]
    BY <1>2
  <2> QED BY <2>1, <2>2, <2>3
<1>4. f \in Injection(1 .. c, S \ {x})
  BY <1>2, <1>3 DEF Injection, IsInjective
<1>5. IsFiniteSet(1 .. c) /\ Cardinality(1 .. c) = c
  <2>1. IsFiniteSet(1 .. c) /\ Cardinality(1 .. c) = IF 1 > c THEN 0 ELSE c - 1 + 1
    BY FS_Interval
  <2> QED BY <2>1
<1>6. Cardinality(1 .. c) =< Cardinality(S \ {x})
  BY <1>1, <1>4, FS_Injection
<1> QED BY <1>1, <1>2, <1>5, <1>6

-----------------------------------------------------------------------------
(* Folds                                                                   *)

\* g says what F makes of base and the elements of seq in each set of the
\* first n positions, in their order.
Folds(g, F, base, seq, n) ==
    g = [s \in SUBSET (1 .. n) |->
           IF s = {} THEN base ELSE F[<<g[s \ {Max(s)}], seq[Max(s)]>>]]

\* The last of some positions, and those before it.
LEMMA LastPosition ==
  ASSUME NEW n \in Nat, NEW s \in SUBSET (1 .. n + 1), s # {}
  PROVE  /\ Max(s) \in 1 .. n + 1 /\ Max(s) \in s /\ \A x \in s : x =< Max(s)
         /\ s \ {Max(s)} \in SUBSET (1 .. n)
<1>1. n + 1 \in Nat
  OBVIOUS
<1>2. Max(s) \in s /\ \A x \in s : x =< Max(s)
  BY <1>1, MaxOfNumbers
<1>3. PICK m : m = Max(s)
  OBVIOUS
<1>4. m \in s /\ \A x \in s : x =< m
  BY <1>2, <1>3
<1>5. m \in 1 .. n + 1 /\ s \ {m} \in SUBSET (1 .. n)
  BY <1>4
<1> QED BY <1>2, <1>3, <1>5

\* F takes what was made of the elements before, and one more of them.
Steps(F, A, E) == F \in [A \X E -> A]

\* A fold by a function that stays in a set has a value there.
LEMMA FoldExists ==
  ASSUME NEW A, NEW E, NEW F, Steps(F, A, E), NEW base \in A, NEW seq \in Seq(E)
  PROVE  \E g \in [SUBSET (1 .. Len(seq)) -> A] : Folds(g, F, base, seq, Len(seq))
<1> DEFINE B == {n \in Nat : n =< Len(seq) =>
                   \E g \in [SUBSET (1 .. n) -> A] : Folds(g, F, base, seq, n)}
<1>0. Len(seq) \in Nat /\ \A i \in 1 .. Len(seq) : seq[i] \in E
  OBVIOUS
<1>1. 0 \in B
  <2> DEFINE z == [s \in SUBSET (1 .. 0) |-> base]
  <2>1. \A s \in SUBSET (1 .. 0) : s = {}
    OBVIOUS
  <2>2. z \in [SUBSET (1 .. 0) -> A] /\ Folds(z, F, base, seq, 0)
    BY <2>1 DEF Folds
  <2> QED BY <2>2
<1>2. ASSUME NEW n \in B PROVE n + 1 \in B
  <2>1. n \in Nat /\ n + 1 \in Nat
    OBVIOUS
  <2> SUFFICES ASSUME n + 1 =< Len(seq)
               PROVE  \E g \in [SUBSET (1 .. n + 1) -> A] : Folds(g, F, base, seq, n + 1)
    BY <2>1
  <2>2. PICK g \in [SUBSET (1 .. n) -> A] : Folds(g, F, base, seq, n)
    <3>1. n =< Len(seq)
      BY <1>0, <2>1
    <3> QED BY <3>1
  <2> DEFINE h == [s \in SUBSET (1 .. n + 1) |->
                     IF s = {} THEN base ELSE F[<<g[s \ {Max(s)}], seq[Max(s)]>>]]
  <2>3. \A s \in SUBSET (1 .. n + 1) : s # {} =>
          Max(s) \in 1 .. n + 1 /\ s \ {Max(s)} \in SUBSET (1 .. n)
    BY <2>1, LastPosition
  <2>4. \A s \in SUBSET (1 .. n) : s \in SUBSET (1 .. n + 1)
    BY <2>1
  <2>5. \A s \in SUBSET (1 .. n) : h[s] = g[s]
    BY <2>2, <2>4 DEF Folds
  <2>6. h \in [SUBSET (1 .. n + 1) -> A]
    <3> SUFFICES ASSUME NEW s \in SUBSET (1 .. n + 1), s # {}
                 PROVE  F[<<g[s \ {Max(s)}], seq[Max(s)]>>] \in A
      OBVIOUS
    <3>1. g[s \ {Max(s)}] \in A /\ Max(s) \in 1 .. Len(seq)
      BY <1>0, <2>1, <2>2, <2>3
    <3>2. seq[Max(s)] \in E
      BY <1>0, <3>1
    <3> QED BY <3>1, <3>2 DEF Steps
  <2>7. \A s \in SUBSET (1 .. n + 1) : s # {} => h[s \ {Max(s)}] = g[s \ {Max(s)}]
    <3> HIDE DEF h
    <3> QED BY <2>3, <2>5
  <2>8. Folds(h, F, base, seq, n + 1)
    BY <2>7 DEF Folds
  <2> QED BY <2>6, <2>8
<1>3. B = Nat
  <2> HIDE DEF B
  <2>1. B \in SUBSET Nat
    BY DEF B
  <2> QED BY <1>1, <1>2, <2>1, NatSetInduction
<1>4. PICK n \in Nat : n = Len(seq)
  BY <1>0
<1>5. n =< Len(seq)
  BY <1>4
<1>6. n \in B
  <2> HIDE DEF B
  <2> QED BY <1>3
<1> QED BY <1>4, <1>5, <1>6

\* g is such a value, by F and from values in A and E alone.
Finds(g, A, E, F, base, seq) ==
    /\ g = [s \in SUBSET (1 .. Len(seq)) |-> g[s]]
    /\ g[{}] = base
    /\ \A s \in SUBSET (1 .. Len(seq)) : s # {} =>
          /\ g[s \ {Max(s)}] \in A /\ seq[Max(s)] \in E
          /\ g[s] = F[<<g[s \ {Max(s)}], seq[Max(s)]>>]

\* There is one that is made so.
LEMMA FoldSolution ==
  ASSUME NEW A, NEW E, NEW F, Steps(F, A, E), NEW base \in A, NEW seq \in Seq(E)
  PROVE  \E g : Finds(g, A, E, F, base, seq)
<1>0. Len(seq) \in Nat /\ \A i \in 1 .. Len(seq) : seq[i] \in E
  OBVIOUS
<1>1. PICK g \in [SUBSET (1 .. Len(seq)) -> A] : Folds(g, F, base, seq, Len(seq))
  BY FoldExists
<1>2. ASSUME NEW s \in SUBSET (1 .. Len(seq)), s # {}
      PROVE  Max(s) \in 1 .. Len(seq) /\ s \ {Max(s)} \in SUBSET (1 .. Len(seq))
  BY <1>0, <1>2, MaxOfNumbers
<1>3. g[{}] = base /\ \A s \in SUBSET (1 .. Len(seq)) : s # {} =>
                        g[s] = F[<<g[s \ {Max(s)}], seq[Max(s)]>>]
  BY <1>1 DEF Folds
<1>4. \A s \in SUBSET (1 .. Len(seq)) : s # {} => g[s \ {Max(s)}] \in A /\ seq[Max(s)] \in E
  BY <1>0, <1>1, <1>2
<1> QED BY <1>1, <1>3, <1>4 DEF Finds

\* A run of a fold with value v: what it has after each element.
Run(h, v, A, F, base, seq) ==
    /\ v = h[Len(seq)]
    /\ h \in [0 .. Len(seq) -> A]
    /\ h[0] = base
    /\ \A i \in 1 .. Len(seq) : h[i] = F[<<h[i - 1], seq[i]>>]

\* g follows F from values in A and E.
Follows(g, A, E, F, base, seq) ==
    /\ g[{}] = base
    /\ \A s \in SUBSET (1 .. Len(seq)) :
          s # {} /\ g[s \ {Max(s)}] \in A /\ seq[Max(s)] \in E
            => g[s] = F[<<g[s \ {Max(s)}], seq[Max(s)]>>]

\* Whatever follows F stays in A, and has a run.
LEMMA FoldRuns ==
  ASSUME NEW A, NEW E, NEW F, Steps(F, A, E), NEW base \in A, NEW seq \in Seq(E),
         NEW g, Follows(g, A, E, F, base, seq)
  PROVE  \A D : D = 1 .. Len(seq) => \E h : Run(h, g[D], A, F, base, seq)
<1> DEFINE B == {n \in Nat : n =< Len(seq) => g[1 .. n] \in A}
<1> DEFINE h == [i \in 0 .. Len(seq) |-> g[1 .. i]]
<1>0. /\ Len(seq) \in Nat /\ \A i \in 1 .. Len(seq) : seq[i] \in E
      /\ g[{}] = base
      /\ \A s \in SUBSET (1 .. Len(seq)) :
            s # {} /\ g[s \ {Max(s)}] \in A /\ seq[Max(s)] \in E
              => g[s] = F[<<g[s \ {Max(s)}], seq[Max(s)]>>]
  BY DEF Follows
<1>1. ASSUME NEW n \in Nat, n + 1 =< Len(seq), g[1 .. n] \in A
      PROVE  g[1 .. n + 1] = F[<<g[1 .. n], seq[n + 1]>>]
  <2>0. PICK s : s = 1 .. n + 1
    OBVIOUS
  <2>1. s \in SUBSET (1 .. n + 1) /\ s # {} /\ n + 1 \in s /\ s \in SUBSET (1 .. Len(seq))
    <3>1. \A x \in 1 .. n + 1 : x \in 1 .. Len(seq)
      BY <1>0, <1>1
    <3>2. n + 1 \in 1 .. n + 1
      BY <1>1
    <3> QED BY <2>0, <3>1, <3>2
  <2>2. Max(s) \in 1 .. n + 1 /\ \A x \in s : x =< Max(s)
    BY <1>1, <2>1, LastPosition
  <2>3. Max(s) = n + 1
    <3>1. PICK m : m = Max(s)
      OBVIOUS
    <3>2. m \in 1 .. n + 1 /\ n + 1 =< m
      BY <2>1, <2>2, <3>1
    <3> QED BY <1>1, <3>1, <3>2
  <2>4. s \ {n + 1} = 1 .. n
    BY <1>1, <2>0
  <2>5. g[s \ {Max(s)}] \in A
    BY <1>1, <2>3, <2>4
  <2>6. g[s] = F[<<g[s \ {Max(s)}], seq[Max(s)]>>]
    BY <1>0, <1>1, <2>1, <2>2, <2>3, <2>5
  <2> QED BY <2>0, <2>3, <2>4, <2>6
<1>2. 0 \in B
  <2>1. 1 .. 0 = {}
    OBVIOUS
  <2> QED BY <1>0, <2>1
<1>3. ASSUME NEW n \in B PROVE n + 1 \in B
  <2>1. n \in Nat
    OBVIOUS
  <2> SUFFICES ASSUME n + 1 =< Len(seq) PROVE g[1 .. n + 1] \in A
    BY <2>1
  <2>2. g[1 .. n] \in A
    BY <1>0, <2>1
  <2>3. seq[n + 1] \in E
    BY <1>0, <2>1
  <2> QED BY <1>1, <2>1, <2>2, <2>3 DEF Steps
<1>4. B = Nat
  <2> HIDE DEF B
  <2>1. B \in SUBSET Nat
    BY DEF B
  <2> QED BY <1>2, <1>3, <2>1, NatSetInduction
<1>5. \A i \in 0 .. Len(seq) : g[1 .. i] \in A
  BY <1>0, <1>4
<1>6. \A i \in 1 .. Len(seq) : g[1 .. i] = F[<<g[1 .. (i - 1)], seq[i]>>]
  <2> SUFFICES ASSUME NEW i \in 1 .. Len(seq)
               PROVE  g[1 .. i] = F[<<g[1 .. (i - 1)], seq[i]>>]
    OBVIOUS
  <2>1. i - 1 \in Nat /\ (i - 1) + 1 = i /\ i - 1 \in 0 .. Len(seq) /\ i =< Len(seq)
    BY <1>0
  <2> HIDE DEF B
  <2>2. g[1 .. (i - 1)] \in A
    BY <1>5, <2>1
  <2> QED BY <1>1, <2>1, <2>2
<1>7. 1 .. 0 = {}
  OBVIOUS
<1>8. Run(h, g[1 .. Len(seq)], A, F, base, seq)
  BY <1>0, <1>5, <1>6, <1>7 DEF Run
<1> QED BY <1>8

\* Induction over sequences, for a set.
LEMMA SeqSetInduction ==
  ASSUME NEW S, NEW P \in SUBSET Seq(S), <<>> \in P,
         \A s \in P, x \in S : Append(s, x) \in P
  PROVE  P = Seq(S)
<1> DEFINE B == {n \in Nat : \A s \in Seq(S) : Len(s) = n => s \in P}
<1>1. 0 \in B
  <2>1. \A s \in Seq(S) : Len(s) = 0 => s = <<>>
    OBVIOUS
  <2> QED BY <2>1
<1>2. ASSUME NEW n \in B PROVE n + 1 \in B
  <2>1. n \in Nat
    OBVIOUS
  <2> SUFFICES ASSUME NEW s \in Seq(S), Len(s) = n + 1 PROVE s \in P
    BY <2>1
  <2> DEFINE t == SubSeq(s, 1, n)
  <2>2. t \in Seq(S) /\ Len(t) = n /\ s[n + 1] \in S
    BY <2>1
  <2>3. s = Append(t, s[n + 1])
    <3>1. Append(t, s[n + 1]) \in Seq(S) /\ Len(Append(t, s[n + 1])) = n + 1
      BY <2>1, <2>2
    <3>2. \A i \in 1 .. n + 1 : Append(t, s[n + 1])[i] = s[i]
      BY <2>1, <2>2
    <3>3. PICK u : u = Append(t, s[n + 1])
      OBVIOUS
    <3>4. u \in Seq(S) /\ Len(u) = Len(s) /\ \A i \in 1 .. Len(s) : u[i] = s[i]
      BY <3>1, <3>2, <3>3
    <3>5. u = s
      BY <3>4
    <3> QED BY <3>3, <3>5
  <2>4. t \in P
    BY <2>2
  <2> QED BY <2>2, <2>3, <2>4
<1>3. B = Nat
  <2> HIDE DEF B
  <2>1. B \in SUBSET Nat
    BY DEF B
  <2> QED BY <1>1, <1>2, <2>1, NatSetInduction
<1>4. ASSUME NEW s \in Seq(S) PROVE s \in P
  <2>1. PICK n \in Nat : n = Len(s)
    OBVIOUS
  <2>2. n \in B
    <3> HIDE DEF B
    <3> QED BY <1>3
  <2> QED BY <2>1, <2>2
<1> QED BY <1>4

\* A fold has one run.
LEMMA RunUnique ==
  ASSUME NEW A, NEW F, NEW base, NEW E, NEW seq \in Seq(E),
         NEW h, NEW v, Run(h, v, A, F, base, seq),
         NEW k, NEW w, NEW C, Run(k, w, C, F, base, seq)
  PROVE  v = w
<1> DEFINE B == {n \in Nat : n =< Len(seq) => h[n] = k[n]}
<1>0. Len(seq) \in Nat
  OBVIOUS
<1>1. 0 \in B
  BY DEF Run
<1>2. ASSUME NEW n \in B PROVE n + 1 \in B
  <2>1. n \in Nat /\ (n + 1) - 1 = n
    OBVIOUS
  <2> SUFFICES ASSUME n + 1 =< Len(seq) PROVE h[n + 1] = k[n + 1]
    BY <2>1
  <2>2. n + 1 \in 1 .. Len(seq) /\ h[n] = k[n]
    BY <1>0, <2>1
  <2>3. h[n + 1] = F[<<h[(n + 1) - 1], seq[n + 1]>>] /\ k[n + 1] = F[<<k[(n + 1) - 1], seq[n + 1]>>]
    BY <2>2 DEF Run
  <2> QED BY <2>1, <2>2, <2>3
<1>3. B = Nat
  <2> HIDE DEF B
  <2>1. B \in SUBSET Nat
    BY DEF B
  <2> QED BY <1>1, <1>2, <2>1, NatSetInduction
<1>4. PICK n \in Nat : n = Len(seq)
  BY <1>0
<1>5. n \in B
  <2> HIDE DEF B
  <2> QED BY <1>3
<1> QED BY <1>4, <1>5 DEF Run

\* What a fold by F makes of seq.
Value(F, base, seq) == (CHOOSE g : Folds(g, F, base, seq, Len(seq)))[1 .. Len(seq)]

\* The value of a fold has a run.
LEMMA ValueRuns ==
  ASSUME NEW A, NEW E, NEW F, Steps(F, A, E), NEW base \in A, NEW seq \in Seq(E)
  PROVE  \E h : Run(h, Value(F, base, seq), A, F, base, seq)
<1>0. Len(seq) \in Nat
  OBVIOUS
<1>1. PICK f : f = CHOOSE g : Folds(g, F, base, seq, Len(seq))
  OBVIOUS
<1>2. Folds(f, F, base, seq, Len(seq))
  <2>1. PICK g \in [SUBSET (1 .. Len(seq)) -> A] : Folds(g, F, base, seq, Len(seq))
    BY FoldExists
  <2> QED BY <1>1, <2>1
<1>3. Follows(f, A, E, F, base, seq)
  BY <1>0, <1>2 DEF Folds, Follows
<1>4. PICK h : Run(h, f[1 .. Len(seq)], A, F, base, seq)
  BY <1>3, FoldRuns
<1> QED BY <1>1, <1>4 DEF Value

\* A fold by a function that stays in a set ends in it.
LEMMA ValueType ==
  ASSUME NEW A, NEW E, NEW F, Steps(F, A, E), NEW base \in A, NEW seq \in Seq(E)
  PROVE  Value(F, base, seq) \in A
<1>1. Len(seq) \in 0 .. Len(seq)
  OBVIOUS
<1>2. PICK h : Run(h, Value(F, base, seq), A, F, base, seq)
  BY ValueRuns
<1> QED BY <1>1, <1>2 DEF Run

\* Whatever follows F ends with that value.
LEMMA ValueIs ==
  ASSUME NEW A, NEW E, NEW F, Steps(F, A, E), NEW base \in A, NEW seq \in Seq(E),
         NEW g, Follows(g, A, E, F, base, seq)
  PROVE  g[DOMAIN seq] = Value(F, base, seq)
<1>1. DOMAIN seq = 1 .. Len(seq)
  OBVIOUS
<1>2. PICK h : Run(h, g[DOMAIN seq], A, F, base, seq)
  BY <1>1, FoldRuns
<1>3. PICK k : Run(k, Value(F, base, seq), A, F, base, seq)
  BY ValueRuns
<1> QED BY <1>2, <1>3, RunUnique

\* A fold over nothing.
LEMMA ValueEmpty ==
  ASSUME NEW A, NEW E, NEW F, Steps(F, A, E), NEW base \in A
  PROVE  Value(F, base, <<>>) = base
<1>1. <<>> \in Seq(E) /\ Len(<<>>) = 0
  OBVIOUS
<1>2. PICK h : Run(h, Value(F, base, <<>>), A, F, base, <<>>)
  BY <1>1, ValueRuns
<1> QED BY <1>1, <1>2 DEF Run

\* A fold over two sequences in a row.
LEMMA ValueConcat ==
  ASSUME NEW A, NEW E, NEW F, Steps(F, A, E), NEW base \in A,
         NEW s \in Seq(E), NEW t \in Seq(E)
  PROVE  Value(F, base, s \o t) = Value(F, Value(F, base, s), t)
<1>1. PICK u : u = Value(F, base, s)
  OBVIOUS
<1>2. u \in A
  BY <1>1, ValueType
<1>3. PICK h : Run(h, u, A, F, base, s)
  BY <1>1, ValueRuns
<1>4. PICK k : Run(k, Value(F, u, t), A, F, u, t)
  BY <1>2, ValueRuns
<1>5. PICK m \in Nat, n \in Nat : m = Len(s) /\ n = Len(t)
  OBVIOUS
<1> DEFINE j == [i \in 0 .. m + n |-> IF i =< m THEN h[i] ELSE k[i - m]]
<1>6. PICK st : st = s \o t
  OBVIOUS
<1>7. /\ st \in Seq(E) /\ Len(st) = m + n
      /\ \A i \in 1 .. m : st[i] = s[i]
      /\ \A i \in m + 1 .. m + n : st[i] = t[i - m]
  BY <1>5, <1>6
<1>8. /\ h \in [0 .. m -> A] /\ h[0] = base /\ h[m] = u
      /\ \A i \in 1 .. m : h[i] = F[<<h[i - 1], s[i]>>]
  BY <1>3, <1>5 DEF Run
<1>9. /\ k \in [0 .. n -> A] /\ k[0] = u /\ k[n] = Value(F, u, t)
      /\ \A i \in 1 .. n : k[i] = F[<<k[i - 1], t[i]>>]
  BY <1>4, <1>5 DEF Run
<1>10. j \in [0 .. m + n -> A]
  <2> SUFFICES ASSUME NEW i \in 0 .. m + n
               PROVE  (IF i =< m THEN h[i] ELSE k[i - m]) \in A
    OBVIOUS
  <2>1. CASE i =< m
    BY <1>8, <2>1
  <2>2. CASE ~ (i =< m)
    <3>1. i - m \in 0 .. n
      BY <2>2
    <3> QED BY <1>9, <2>2, <3>1
  <2> QED BY <2>1, <2>2
<1>11. j[0] = base
  BY <1>8
<1>12. j[m + n] = Value(F, u, t)
  <2>1. CASE n = 0
    BY <1>8, <1>9, <2>1
  <2>2. CASE n # 0
    BY <1>9, <2>2
  <2> QED BY <2>1, <2>2
<1>13. ASSUME NEW i \in 1 .. m + n PROVE j[i] = F[<<j[i - 1], st[i]>>]
  <2>0. \A x \in 0 .. m + n : j[x] = IF x =< m THEN h[x] ELSE k[x - m]
    OBVIOUS
  <2>00. i \in 0 .. m + n /\ i - 1 \in 0 .. m + n
    OBVIOUS
  <2> HIDE DEF j
  <2>1. CASE i =< m
    <3>1. i \in 1 .. m /\ i - 1 =< m
      BY <2>1
    <3> QED BY <1>7, <1>8, <2>0, <2>00, <2>1, <3>1
  <2>2. CASE i = m + 1
    <3>1. i - 1 = m /\ i - m = 1 /\ 1 \in 1 .. n /\ i \in m + 1 .. m + n /\ ~ (i =< m) /\ m =< m
      BY <2>2
    <3>2. j[i] = k[1] /\ j[i - 1] = h[m]
      BY <2>0, <2>00, <3>1
    <3>3. st[i] = t[1]
      BY <1>7, <3>1
    <3>4. k[1] = F[<<k[1 - 1], t[1]>>] /\ k[1 - 1] = u
      BY <1>9, <3>1
    <3> QED BY <1>8, <3>2, <3>3, <3>4
  <2>3. CASE i > m + 1
    <3>1. i - m \in 1 .. n /\ (i - m) - 1 = (i - 1) - m /\ i \in m + 1 .. m + n
      BY <2>3
    <3>2. j[i] = k[i - m] /\ j[i - 1] = k[(i - m) - 1] /\ st[i] = t[i - m]
      BY <1>7, <2>0, <2>00, <2>3, <3>1
    <3> QED BY <1>9, <3>1, <3>2
  <2> QED BY <2>1, <2>2, <2>3
<1>14. Run(j, Value(F, u, t), A, F, base, st)
  <2> HIDE DEF j
  <2> QED BY <1>7, <1>10, <1>11, <1>12, <1>13 DEF Run
<1>15. PICK l : Run(l, Value(F, base, st), A, F, base, st)
  BY <1>7, ValueRuns
<1> QED
  <2> HIDE DEF j
  <2>1. Value(F, base, st) = Value(F, u, t)
    BY <1>7, <1>14, <1>15, RunUnique
  <2> QED BY <1>1, <1>6, <2>1

\* A fold over one element.
LEMMA ValueOfOne ==
  ASSUME NEW A, NEW E, NEW F, Steps(F, A, E), NEW base \in A, NEW x \in E
  PROVE  Value(F, base, << x >>) = F[<<base, x>>]
<1>0. PICK q : q = << x >>
  OBVIOUS
<1>1. q \in Seq(E) /\ Len(q) = 1 /\ q[1] = x
  BY <1>0
<1>2. PICK h : Run(h, Value(F, base, q), A, F, base, q)
  BY <1>1, ValueRuns
<1>3. h[1] = F[<<h[1 - 1], x>>] /\ h[0] = base /\ Value(F, base, q) = h[1]
  BY <1>1, <1>2 DEF Run
<1> QED BY <1>0, <1>3

\* A fold over one more element.
LEMMA ValueAppend ==
  ASSUME NEW A, NEW E, NEW F, Steps(F, A, E), NEW base \in A,
         NEW s \in Seq(E), NEW x \in E
  PROVE  Value(F, base, Append(s, x)) = F[<<Value(F, base, s), x>>]
<1>1. PICK q : q = << x >>
  OBVIOUS
<1>2. Append(s, x) = s \o q /\ q \in Seq(E)
  BY <1>1
<1>3. PICK u : u = Value(F, base, s)
  OBVIOUS
<1>4. u \in A
  BY <1>3, ValueType
<1>5. Value(F, base, s \o q) = Value(F, Value(F, base, s), q)
  BY <1>2, ValueConcat, SMT
<1>6. Value(F, u, q) = F[<<u, x>>]
  BY <1>1, <1>4, ValueOfOne
<1> QED BY <1>2, <1>3, <1>5, <1>6

\* p carries the steps of D over to those of H.
Carries(p, D, A, H, B, E) ==
    /\ p \in [A -> B]
    /\ \A x \in A, e \in E : p[D[<<x, e>>]] = H[<<p[x], e>>]

\* It carries the fold over one to the fold over the other.
LEMMA ValueCarries ==
  ASSUME NEW A, NEW B, NEW E, NEW D, Steps(D, A, E), NEW H, Steps(H, B, E),
         NEW p, Carries(p, D, A, H, B, E), NEW base \in A, NEW seq \in Seq(E)
  PROVE  p[Value(D, base, seq)] = Value(H, p[base], seq)
<1> DEFINE P == {s \in Seq(E) : p[Value(D, base, s)] = Value(H, p[base], s)}
<1>0. p[base] \in B
  BY DEF Carries
<1>1. PICK c \in B : c = p[base]
  BY <1>0
<1>2. <<>> \in P
  <2>1. <<>> \in Seq(E)
    OBVIOUS
  <2>2. Value(D, base, <<>>) = base /\ Value(H, c, <<>>) = c
    BY ValueEmpty
  <2> QED BY <1>1, <2>1, <2>2
<1>3. ASSUME NEW s \in P, NEW x \in E PROVE Append(s, x) \in P
  <2>1. s \in Seq(E) /\ p[Value(D, base, s)] = Value(H, c, s)
    BY <1>1
  <2>2. PICK u : u = Value(D, base, s)
    OBVIOUS
  <2>3. u \in A
    BY <2>1, <2>2, ValueType
  <2>4. Value(D, base, Append(s, x)) = D[<<Value(D, base, s), x>>]
    BY <2>1, ValueAppend
  <2>5. Value(H, c, Append(s, x)) = H[<<Value(H, c, s), x>>]
    BY <2>1, ValueAppend
  <2>6. p[D[<<u, x>>]] = H[<<p[u], x>>]
    BY <2>3 DEF Carries
  <2>7. Append(s, x) \in Seq(E)
    BY <2>1
  <2> QED BY <1>1, <2>1, <2>2, <2>4, <2>5, <2>6, <2>7
<1>4. P = Seq(E)
  <2>1. P \in SUBSET Seq(E)
    OBVIOUS
  <2> HIDE DEF P
  <2> QED BY <1>2, <1>3, <2>1, SeqSetInduction
<1>5. seq \in P
  <2> HIDE DEF P
  <2> QED BY <1>4
<1> QED BY <1>5

-----------------------------------------------------------------------------
(* Lists made of parts                                                     *)

\* The concatenation that FlattenSeq repeats.
Cat(E) == [p \in Seq(E) \X Seq(E) |-> p[1] \o p[2]]

\* A concatenation is a list of the same elements.
LEMMA CatStays == \A E : Steps(Cat(E), Seq(E), Seq(E)) /\ <<>> \in Seq(E)
BY DEF Steps, Cat

\* What FlattenSeq defines by recursion is the fold.
LEMMA FlattenIsFold ==
  ASSUME NEW E, NEW S, S = Seq(E), NEW seqs \in Seq(S)
  PROVE  FlattenSeq(seqs) = Value(Cat(E), <<>>, seqs)
<1>0. PICK n \in Nat : n = Len(seqs)
  OBVIOUS
<1>00. \A i \in 1 .. n : seqs[i] \in S
  BY <1>0
<1>01. \A s, t \in S : Cat(E)[<<s, t>>] = s \o t
  <2>1. \A s, t \in Seq(E) : Cat(E)[<<s, t>>] = s \o t
    BY Zenon DEF Cat
  <2> QED BY <2>1
<1>02. Steps(Cat(E), S, S) /\ <<>> \in S
  BY CatStays
<1>1. CASE n = 0
  <2>1. seqs = <<>>
    BY <1>0, <1>1, EmptySeq
  <2>2. Value(Cat(E), <<>>, <<>>) = <<>>
    BY <1>02, ValueEmpty
  <2> QED BY <1>0, <1>1, <2>1, <2>2 DEF FlattenSeq
<1>2. CASE n # 0
  <2>1. PICK h : Run(h, Value(Cat(E), <<>>, seqs), S, Cat(E), <<>>, seqs)
    BY <1>02, ValueRuns
  <2>2. /\ h \in [0 .. n -> S] /\ h[0] = <<>> /\ h[n] = Value(Cat(E), <<>>, seqs)
        /\ \A i \in 1 .. n : h[i] = Cat(E)[<<h[i - 1], seqs[i]>>]
    BY <1>0, <2>1 DEF Run
  <2>3. \A i \in 1 .. n : h[i] = h[i - 1] \o seqs[i]
    <3> SUFFICES ASSUME NEW i \in 1 .. n PROVE h[i] = h[i - 1] \o seqs[i]
      OBVIOUS
    <3>1. i - 1 \in 0 .. n
      OBVIOUS
    <3>2. h[i - 1] \in S /\ seqs[i] \in S
      BY <1>00, <2>2, <3>1
    <3> QED BY <1>01, <2>2, <3>2
  <2>4. h[1] = seqs[1]
    <3>1. PICK s : s = seqs[1]
      OBVIOUS
    <3>2. 1 \in 1 .. n /\ 1 - 1 = 0
      BY <1>2
    <3>3. h[1] = <<>> \o s /\ s \in Seq(E)
      BY <2>2, <2>3, <1>00, <3>1, <3>2
    <3>4. <<>> \o s = s
      BY <3>3
    <3> QED BY <3>1, <3>3, <3>4
  <2> DEFINE g == [i \in 1 .. n |-> h[i]]
             Flattens(f) == f = [i \in 1 .. n |-> IF i = 1 THEN seqs[i] ELSE f[i - 1] \o seqs[i]]
  <2>5. Flattens(g)
    <3>1. ASSUME NEW i \in 1 .. n PROVE h[i] = IF i = 1 THEN seqs[i] ELSE g[i - 1] \o seqs[i]
      <4>1. CASE i = 1
        BY <2>4, <4>1
      <4>2. CASE i # 1
        <5>1. i - 1 \in 1 .. n
          BY <4>2
        <5>2. g[i - 1] = h[i - 1]
          BY <5>1
        <5> HIDE DEF g
        <5> QED BY <2>3, <4>2, <5>2
      <4> QED BY <4>1, <4>2
    <3>2. g = [i \in 1 .. n |-> h[i]]
      OBVIOUS
    <3> HIDE DEF g
    <3> QED BY <3>1, <3>2, Zenon
  <2> DEFINE f == CHOOSE k : Flattens(k)
  <2>6. Flattens(f)
    <3> HIDE DEF g
    <3> QED BY <2>5
  <2>7. FlattenSeq(seqs) = f[n]
    BY <1>0, <1>2 DEF FlattenSeq
  <2> DEFINE B == {i \in Nat : i \in 1 .. n => f[i] = h[i]}
  <2>8. 0 \in B
    OBVIOUS
  <2>9. ASSUME NEW i \in B PROVE i + 1 \in B
    <3> SUFFICES ASSUME i + 1 \in 1 .. n PROVE f[i + 1] = h[i + 1]
      OBVIOUS
    <3>1. f[i + 1] = IF i + 1 = 1 THEN seqs[i + 1] ELSE f[(i + 1) - 1] \o seqs[i + 1]
      <4> HIDE DEF f
      <4> QED BY <2>6
    <3> HIDE DEF f
    <3>2. CASE i = 0
      BY <2>4, <3>1, <3>2
    <3>3. CASE i # 0
      <4>1. i \in 1 .. n /\ (i + 1) - 1 = i /\ i + 1 # 1
        BY <3>3
      <4>2. h[i + 1] = h[(i + 1) - 1] \o seqs[i + 1]
        BY <2>3
      <4> QED BY <3>1, <4>1, <4>2
    <3> QED BY <3>2, <3>3
  <2>10. B = Nat
    <3>1. B \in SUBSET Nat
      OBVIOUS
    <3> HIDE DEF B
    <3> QED BY <2>8, <2>9, <3>1, NatSetInduction
  <2>11. n \in B
    <3> HIDE DEF B
    <3> QED BY <2>10
  <2>12. f[n] = h[n]
    <3> HIDE DEF f
    <3> QED BY <1>2, <2>11
  <2> HIDE DEF f
  <2> QED BY <2>2, <2>7, <2>12
<1> QED BY <1>1, <1>2

\* The first n parts of f in a row.
Flat(f, n) == FlattenSeq([i \in 1 .. n |-> f[i]])

\* It is a sequence of what the parts are sequences of.
LEMMA FlatType ==
  ASSUME NEW E, NEW n \in Nat, NEW f, \A i \in 1 .. n : f[i] \in Seq(E)
  PROVE  Flat(f, n) \in Seq(E)
<1>0. PICK S : S = Seq(E)
  OBVIOUS
<1>1. PICK s : s = [i \in 1 .. n |-> f[i]]
  OBVIOUS
<1>2. s \in Seq(S)
  BY <1>0, <1>1
<1>3. Steps(Cat(E), S, S) /\ <<>> \in S
  BY <1>0, CatStays
<1>4. FlattenSeq(s) = Value(Cat(E), <<>>, s)
  BY <1>0, <1>2, FlattenIsFold
<1>5. Value(Cat(E), <<>>, s) \in S
  BY <1>2, <1>3, ValueType
<1> QED BY <1>0, <1>1, <1>4, <1>5 DEF Flat

\* No part is nothing.
LEMMA FlatEmpty == \A f : Flat(f, 0) = <<>>
BY DEF Flat, FlattenSeq

\* One part more.
LEMMA FlatStep ==
  ASSUME NEW E, NEW n \in Nat, NEW f, \A i \in 1 .. n + 1 : f[i] \in Seq(E)
  PROVE  Flat(f, n + 1) = Flat(f, n) \o f[n + 1]
<1>0. PICK S : S = Seq(E)
  OBVIOUS
<1>1. PICK s : s = [i \in 1 .. n |-> f[i]]
  OBVIOUS
<1>2. PICK e : e = f[n + 1]
  OBVIOUS
<1>3. s \in Seq(S) /\ e \in S
  BY <1>0, <1>1, <1>2
<1>4. [i \in 1 .. n + 1 |-> f[i]] = Append(s, e)
  BY <1>1, <1>2
<1>5. Append(s, e) \in Seq(S)
  BY <1>3
<1>6. Steps(Cat(E), S, S) /\ <<>> \in S
  BY <1>0, CatStays
<1>7. Value(Cat(E), <<>>, Append(s, e)) = Cat(E)[<<Value(Cat(E), <<>>, s), e>>]
  BY <1>3, <1>6, ValueAppend
<1>8. Value(Cat(E), <<>>, s) \in S
  BY <1>3, <1>6, ValueType
<1>9. \A x, y \in Seq(E) : Cat(E)[<<x, y>>] = x \o y
  BY Zenon DEF Cat
<1>10. FlattenSeq(s) = Value(Cat(E), <<>>, s)
       /\ FlattenSeq(Append(s, e)) = Value(Cat(E), <<>>, Append(s, e))
  BY <1>0, <1>3, <1>5, FlattenIsFold
<1>11. FlattenSeq(Append(s, e)) = FlattenSeq(s) \o e
  BY <1>0, <1>3, <1>7, <1>8, <1>9, <1>10
<1> QED BY <1>1, <1>2, <1>4, <1>11 DEF Flat

\* Where part k of f is in the whole: behind the k - 1 parts before it.
LEMMA FlatParts ==
  ASSUME NEW E, NEW n \in Nat, NEW f, \A i \in 1 .. n : f[i] \in Seq(E)
  PROVE  \A k \in 0 .. n - 1 :
            /\ Len(Flat(f, k)) \in Nat /\ Len(Flat(f, k + 1)) \in Nat /\ Len(Flat(f, n)) \in Nat
            /\ Len(Flat(f, k + 1)) = Len(Flat(f, k)) + Len(f[k + 1])
            /\ Len(Flat(f, k + 1)) =< Len(Flat(f, n))
            /\ \A j \in 1 .. Len(f[k + 1]) : Flat(f, n)[Len(Flat(f, k)) + j] = f[k + 1][j]
<1> DEFINE At(k, m) ==
             /\ Len(Flat(f, k)) \in Nat /\ Len(Flat(f, k + 1)) \in Nat /\ Len(Flat(f, m)) \in Nat
             /\ Len(Flat(f, k + 1)) = Len(Flat(f, k)) + Len(f[k + 1])
             /\ Len(Flat(f, k + 1)) =< Len(Flat(f, m))
             /\ \A j \in 1 .. Len(f[k + 1]) : Flat(f, m)[Len(Flat(f, k)) + j] = f[k + 1][j]
           B == {m \in Nat : m =< n => \A k \in 0 .. m - 1 : At(k, m)}
<1>1. 0 \in B
  OBVIOUS
<1>2. ASSUME NEW m \in B PROVE m + 1 \in B
  <2> SUFFICES ASSUME m + 1 =< n, NEW k \in 0 .. m PROVE At(k, m + 1)
    OBVIOUS
  <2>00. m \in Nat /\ m =< n
    OBVIOUS
  <2>0. \A i \in 0 .. m - 1 : At(i, m)
    <3> HIDE DEF At
    <3> QED BY <2>00
  <2>1. Flat(f, m + 1) = Flat(f, m) \o f[m + 1]
    BY FlatStep
  <2>2. Flat(f, m) \in Seq(E) /\ Flat(f, m + 1) \in Seq(E) /\ f[m + 1] \in Seq(E)
    <3>1. \A i \in 1 .. m : f[i] \in Seq(E)
      OBVIOUS
    <3>2. \A i \in 1 .. m + 1 : f[i] \in Seq(E)
      OBVIOUS
    <3>3. Flat(f, m) \in Seq(E)
      BY <3>1, FlatType
    <3>4. Flat(f, m + 1) \in Seq(E)
      BY <3>2, FlatType
    <3> QED BY <3>2, <3>3, <3>4
  <2>3. CASE k = m
    <3>1. PICK s \in Seq(E), t \in Seq(E) : s = Flat(f, m) /\ t = f[m + 1]
      BY <2>2
    <3>2. /\ Len(s \o t) = Len(s) + Len(t) /\ Len(s) \in Nat /\ Len(t) \in Nat
          /\ \A j \in 1 .. Len(t) : (s \o t)[Len(s) + j] = t[j]
      OBVIOUS
    <3> QED BY <2>1, <2>3, <3>1, <3>2
  <2>4. CASE k # m
    <3>1. k \in 0 .. m - 1
      BY <2>4
    <3>2. At(k, m)
      BY <2>0, <3>1
    <3>3. PICK s \in Seq(E), t \in Seq(E) : s = Flat(f, m) /\ t = f[m + 1]
      BY <2>2
    <3>4. /\ Len(s \o t) = Len(s) + Len(t) /\ Len(s) \in Nat /\ Len(t) \in Nat
          /\ \A j \in 1 .. Len(s) : (s \o t)[j] = s[j]
      OBVIOUS
    <3>5. Len(f[k + 1]) \in Nat
      <4>1. k + 1 \in 1 .. n
        BY <3>1
      <4>2. f[k + 1] \in Seq(E)
        BY <4>1
      <4> QED BY <4>2
    <3>6. \A j \in 1 .. Len(f[k + 1]) : Len(Flat(f, k)) + j \in 1 .. Len(s)
      BY <3>2, <3>3, <3>4, <3>5
    <3> QED BY <2>1, <3>2, <3>3, <3>4, <3>6
  <2> QED BY <2>3, <2>4
<1>3. B = Nat
  <2>1. B \in SUBSET Nat
    OBVIOUS
  <2> HIDE DEF B
  <2> QED BY <1>1, <1>2, <2>1, NatSetInduction
<1>4. n \in B
  <2> HIDE DEF B
  <2> QED BY <1>3
<1> QED BY <1>4

\* The parts of g up to k are those of f up to p[k]: part k of g is the next one
\* of f, or the next one followed by an empty one, or it is empty.
Joins(f, g, p, k) ==
    \/ p[k] = p[k - 1] /\ g[k] = <<>>
    \/ p[k] = p[k - 1] + 1 /\ g[k] = f[p[k - 1] + 1]
    \/ p[k] = p[k - 1] + 2 /\ g[k] = f[p[k - 1] + 1] /\ f[p[k - 1] + 2] = <<>>

Regroups(E, f, m, g, n, p) ==
    /\ \A i \in 1 .. m : f[i] \in Seq(E)
    /\ \A k \in 1 .. n : g[k] \in Seq(E)
    /\ p \in [0 .. n -> 0 .. m] /\ p[0] = 0 /\ p[n] = m
    /\ \A k \in 1 .. n : Joins(f, g, p, k)

\* Empty parts do not matter.
LEMMA FlatRegroup ==
  ASSUME NEW E, NEW m \in Nat, NEW n \in Nat, NEW f, NEW g, NEW p, Regroups(E, f, m, g, n, p)
  PROVE  Flat(f, m) = Flat(g, n)
<1> USE DEF Regroups
<1> DEFINE B == {k \in Nat : k =< n => Flat(f, p[k]) = Flat(g, k)}
<1>1. 0 \in B
  BY FlatEmpty
<1>2. ASSUME NEW k \in B PROVE k + 1 \in B
  <2> SUFFICES ASSUME k + 1 =< n PROVE Flat(f, p[k + 1]) = Flat(g, k + 1)
    OBVIOUS
  <2>1. k \in Nat /\ k \in 0 .. n /\ k + 1 \in 1 .. n /\ (k + 1) - 1 = k /\ k + 1 \in 0 .. n
    OBVIOUS
  <2>2. Flat(f, p[k]) = Flat(g, k)
    BY <2>1
  <2>3. PICK a \in Nat, b \in Nat : a = p[k] /\ b = p[k + 1] /\ a =< m /\ b =< m
    BY <2>1
  <2>4. Flat(g, k + 1) = Flat(g, k) \o g[k + 1]
    <3>1. \A i \in 1 .. k + 1 : g[i] \in Seq(E)
      BY <2>1
    <3> QED BY <2>1, <3>1, FlatStep
  <2>5. Flat(g, k) \in Seq(E)
    <3>1. \A i \in 1 .. k : g[i] \in Seq(E)
      BY <2>1
    <3> QED BY <2>1, <3>1, FlatType
  <2>6. \A s \in Seq(E) : s \o <<>> = s
    OBVIOUS
  <2>7. \/ b = a /\ g[k + 1] = <<>>
        \/ b = a + 1 /\ g[k + 1] = f[a + 1]
        \/ b = a + 2 /\ g[k + 1] = f[a + 1] /\ f[a + 2] = <<>>
    BY <2>1, <2>3 DEF Joins
  <2>8. ASSUME a + 1 =< m PROVE Flat(f, a + 1) = Flat(f, a) \o f[a + 1]
    <3>1. \A i \in 1 .. a + 1 : f[i] \in Seq(E)
      BY <2>3, <2>8
    <3> QED BY <2>3, <3>1, FlatStep
  <2>9. CASE b = a /\ g[k + 1] = <<>>
    BY <2>2, <2>3, <2>4, <2>5, <2>6, <2>9
  <2>10. CASE b = a + 1 /\ g[k + 1] = f[a + 1]
    BY <2>2, <2>3, <2>4, <2>8, <2>10
  <2>11. CASE b = a + 2 /\ g[k + 1] = f[a + 1] /\ f[a + 2] = <<>>
    <3>1. a + 1 \in Nat /\ (a + 1) + 1 = a + 2 /\ a + 1 =< m
      BY <2>3, <2>11
    <3>2. Flat(f, a + 2) = Flat(f, a + 1) \o f[a + 2]
      <4>1. \A i \in 1 .. (a + 1) + 1 : f[i] \in Seq(E)
        BY <2>3, <2>11
      <4>2. Flat(f, (a + 1) + 1) = Flat(f, a + 1) \o f[(a + 1) + 1]
        BY <3>1, <4>1, FlatStep
      <4> QED BY <3>1, <4>2
    <3>3. Flat(f, a + 1) = Flat(g, k + 1)
      BY <2>2, <2>3, <2>4, <2>8, <2>11, <3>1
    <3>4. Flat(g, k + 1) \in Seq(E)
      <4>1. \A i \in 1 .. k + 1 : g[i] \in Seq(E)
        BY <2>1
      <4> QED BY <2>1, <4>1, FlatType
    <3> QED BY <2>3, <2>6, <2>11, <3>2, <3>3, <3>4
  <2> QED BY <2>7, <2>9, <2>10, <2>11
<1>3. B = Nat
  <2>1. B \in SUBSET Nat
    OBVIOUS
  <2> HIDE DEF B
  <2> QED BY <1>1, <1>2, <2>1, NatSetInduction
<1>4. n \in B
  <2> HIDE DEF B
  <2> QED BY <1>3
<1> QED BY <1>4

\* h is a homomorphism from sequences over E to sequences over G.
MapsSeq(h, E, G) ==
    /\ h \in [Seq(E) -> Seq(G)]
    /\ h[<<>>] = <<>>
    /\ \A s, t \in Seq(E) : h[s \o t] = h[s] \o h[t]

\* It can be applied to the parts.
LEMMA FlatMaps ==
  ASSUME NEW E, NEW G, NEW h, MapsSeq(h, E, G), NEW n \in Nat,
         NEW f, \A i \in 1 .. n : f[i] \in Seq(E),
         NEW g, \A i \in 1 .. n : g[i] = h[f[i]]
  PROVE  h[Flat(f, n)] = Flat(g, n)
<1> DEFINE B == {k \in Nat : k =< n => h[Flat(f, k)] = Flat(g, k)}
<1>1. 0 \in B
  BY FlatEmpty DEF MapsSeq
<1>2. ASSUME NEW k \in B PROVE k + 1 \in B
  <2> SUFFICES ASSUME k + 1 =< n PROVE h[Flat(f, k + 1)] = Flat(g, k + 1)
    OBVIOUS
  <2>1. k \in Nat /\ k =< n /\ k + 1 \in 1 .. n /\ h[Flat(f, k)] = Flat(g, k)
    OBVIOUS
  <2>2. /\ \A i \in 1 .. k + 1 : f[i] \in Seq(E)
        /\ \A i \in 1 .. k : f[i] \in Seq(E)
    BY <2>1
  <2>3. /\ Flat(f, k + 1) = Flat(f, k) \o f[k + 1]
        /\ Flat(f, k) \in Seq(E) /\ f[k + 1] \in Seq(E)
    <3>1. Flat(f, k + 1) = Flat(f, k) \o f[k + 1]
      BY <2>1, <2>2, FlatStep
    <3>2. Flat(f, k) \in Seq(E)
      BY <2>1, <2>2, FlatType
    <3> QED BY <2>1, <2>2, <3>1, <3>2
  <2>4. \A i \in 1 .. k + 1 : g[i] \in Seq(G)
    <3> SUFFICES ASSUME NEW i \in 1 .. k + 1 PROVE g[i] \in Seq(G)
      OBVIOUS
    <3>1. i \in 1 .. n
      BY <2>1
    <3> QED BY <3>1 DEF MapsSeq
  <2>5. Flat(g, k + 1) = Flat(g, k) \o g[k + 1]
    BY <2>1, <2>4, FlatStep
  <2>6. h[Flat(f, k) \o f[k + 1]] = h[Flat(f, k)] \o h[f[k + 1]]
    BY <2>3 DEF MapsSeq
  <2>7. g[k + 1] = h[f[k + 1]]
    BY <2>1
  <2> QED BY <2>1, <2>3, <2>5, <2>6, <2>7
<1>3. B = Nat
  <2>1. B \in SUBSET Nat
    OBVIOUS
  <2> HIDE DEF B
  <2> QED BY <1>1, <1>2, <2>1, NatSetInduction
<1>4. n \in B
  <2> HIDE DEF B
  <2> QED BY <1>3
<1> QED BY <1>4

\* Equal parts make equal wholes.
LEMMA FlatSame ==
  ASSUME NEW n \in Nat, NEW f, NEW g, \A i \in 1 .. n : f[i] = g[i]
  PROVE  Flat(f, n) = Flat(g, n)
BY DEF Flat

\* Every element of the whole is in a part, and the other way round.
LEMMA FlatElements ==
  ASSUME NEW E, NEW n \in Nat, NEW f, \A i \in 1 .. n : f[i] \in Seq(E)
  PROVE  ToSet(Flat(f, n)) = UNION {ToSet(f[i]) : i \in 1 .. n}
<1> DEFINE All == UNION {ToSet(f[i]) : i \in 1 .. n}
<1>1. ToSet(Flat(f, n)) \subseteq All
  <2>1. ASSUME NEW i \in 1 .. n PROVE f[i] \in Seq(All)
    <3>1. \A j \in DOMAIN f[i] : f[i][j] \in All
      BY DEF ToSet
    <3> HIDE DEF All
    <3> QED BY <3>1
  <2>2. Flat(f, n) \in Seq(All)
    <3> HIDE DEF All
    <3> QED BY <2>1, FlatType
  <2> HIDE DEF All
  <2> QED BY <2>2 DEF ToSet
<1>2. ASSUME NEW i \in 1 .. n, NEW e \in ToSet(f[i]) PROVE e \in ToSet(Flat(f, n))
  <2>1. f[i] \in Seq(E)
    OBVIOUS
  <2>2. PICK j \in 1 .. Len(f[i]) : e = f[i][j]
    BY <2>1 DEF ToSet
  <2>3. PICK k \in 0 .. n - 1 : i = k + 1
    <3>1. i - 1 \in 0 .. n - 1 /\ i = (i - 1) + 1
      OBVIOUS
    <3> QED BY <3>1
  <2>4. /\ Len(Flat(f, k)) \in Nat /\ Len(Flat(f, n)) \in Nat /\ Len(f[i]) \in Nat
        /\ Len(Flat(f, k)) + Len(f[i]) =< Len(Flat(f, n))
        /\ Flat(f, n)[Len(Flat(f, k)) + j] = f[i][j]
    <3>1. Len(f[i]) \in Nat
      BY <2>1
    <3>2. /\ Len(Flat(f, k)) \in Nat /\ Len(Flat(f, k + 1)) \in Nat /\ Len(Flat(f, n)) \in Nat
          /\ Len(Flat(f, k + 1)) = Len(Flat(f, k)) + Len(f[k + 1])
          /\ Len(Flat(f, k + 1)) =< Len(Flat(f, n))
          /\ \A l \in 1 .. Len(f[k + 1]) : Flat(f, n)[Len(Flat(f, k)) + l] = f[k + 1][l]
      <4> HIDE DEF All
      <4> QED BY FlatParts
    <3> QED BY <2>3, <3>1, <3>2
  <2>5. Flat(f, n) \in Seq(E)
    BY FlatType
  <2>6. Len(Flat(f, k)) + j \in DOMAIN Flat(f, n)
    BY <2>4, <2>5
  <2> QED BY <2>2, <2>4, <2>6 DEF ToSet
<1> HIDE DEF All
<1>3. All \subseteq ToSet(Flat(f, n))
  BY <1>2 DEF All
<1> QED BY <1>1, <1>3 DEF All
\* One element in front of a sequence.
LEMMA ConsFacts ==
  ASSUME NEW E, NEW e \in E, NEW t \in Seq(E)
  PROVE  /\ << e >> \o t \in Seq(E) /\ Len(<< e >> \o t) = Len(t) + 1 /\ (<< e >> \o t)[1] = e
         /\ \A j \in 1 .. Len(t) : (<< e >> \o t)[j + 1] = t[j]
         /\ ToSet(<< e >> \o t) = {e} \cup ToSet(t)
<1>1. PICK q : q = << e >>
  OBVIOUS
<1>2. q \in Seq(E) /\ Len(q) = 1 /\ q[1] = e
  BY <1>1
<1>3. PICK r : r = q \o t
  OBVIOUS
<1>4. PICK n \in Nat : n = Len(t)
  OBVIOUS
<1>10. /\ q \o t \in Seq(E) /\ Len(q \o t) = Len(q) + Len(t)
     /\ \A i \in 1 .. Len(q) + Len(t) : (q \o t)[i] =
                     IF i <= Len(q) THEN q[i] ELSE t[i - Len(q)]
  BY <1>2, ConcatProperties, Zenon
<1>5. r \in Seq(E) /\ Len(r) = n + 1
  BY <1>2, <1>3, <1>4, <1>10
<1>0. \A i \in 1 .. n + 1 : r[i] = IF i <= 1 THEN q[i] ELSE t[i - 1]
  BY <1>2, <1>3, <1>4, <1>10
<1>6. r[1] = e
  BY <1>0, <1>2
<1>7. \A j \in 1 .. n : r[j + 1] = t[j]
  <2> SUFFICES ASSUME NEW j \in 1 .. n PROVE r[j + 1] = t[j]
    OBVIOUS
  <2>1. j + 1 \in 1 .. n + 1 /\ ~ (j + 1 <= 1) /\ (j + 1) - 1 = j
    OBVIOUS
  <2> QED BY <1>0, <2>1
<1>8. DOMAIN r = 1 .. n + 1 /\ DOMAIN t = 1 .. n
  BY <1>4, <1>5
<1>9. ToSet(r) = {e} \cup ToSet(t)
  <2>1. ASSUME NEW j \in 1 .. n + 1 PROVE r[j] \in {e} \cup ToSet(t)
    <3>1. CASE j = 1
      BY <1>6, <3>1
    <3>2. CASE j # 1
      <4>1. j - 1 \in 1 .. n /\ (j - 1) + 1 = j
        BY <3>2
      <4>2. r[j] = t[j - 1]
        BY <1>7, <4>1
      <4> QED BY <1>8, <4>1, <4>2 DEF ToSet
    <3> QED BY <3>1, <3>2
  <2>2. ASSUME NEW j \in 1 .. n PROVE t[j] \in ToSet(r)
    <3>1. j + 1 \in 1 .. n + 1
      OBVIOUS
    <3> QED BY <1>7, <1>8, <3>1 DEF ToSet
  <2>3. e \in ToSet(r)
    <3>1. 1 \in 1 .. n + 1
      OBVIOUS
    <3> QED BY <1>6, <1>8, <3>1 DEF ToSet
  <2>4. ToSet(r) \subseteq {e} \cup ToSet(t)
    BY <1>8, <2>1 DEF ToSet
  <2>5. ToSet(t) \subseteq ToSet(r)
    BY <1>8, <2>2 DEF ToSet
  <2> QED BY <2>3, <2>4, <2>5
<1> QED BY <1>1, <1>3, <1>4, <1>5, <1>6, <1>7, <1>9

\* The last b of a + b parts.
Behind(f, g, a, b, S) ==
    /\ \A i \in 1 .. a + b : f[i] \in S
    /\ \A i \in 1 .. b : g[i] = f[a + i]

\* The parts of a sum of two numbers of parts.
LEMMA FlatConcat ==
  ASSUME NEW E, NEW S, S = Seq(E), NEW a \in Nat, NEW b \in Nat, NEW f, NEW g, Behind(f, g, a, b, S)
  PROVE  Flat(f, a + b) = Flat(f, a) \o Flat(g, b)
<1> USE DEF Behind
<1>0. \A s, t, u \in S : (s \o t) \o u = s \o (t \o u)
  <2>1. \A s, t, u \in Seq(E) : (s \o t) \o u = s \o (t \o u)
    BY ConcatAssociative
  <2> QED BY <2>1
<1>1. \A k \in 0 .. b : Flat(g, k) \in S /\ Flat(f, a) \in S
  <2>1. \A i \in 1 .. a : f[i] \in S
    OBVIOUS
  <2>2. \A i \in 1 .. b : g[i] \in S
    OBVIOUS
  <2> QED BY <2>1, <2>2, FlatType
<1> DEFINE B == {k \in Nat : k =< b => Flat(f, a + k) = Flat(f, a) \o Flat(g, k)}
<1>2. 0 \in B
  <2>1. Flat(g, 0) = <<>> /\ a + 0 = a
    BY FlatEmpty
  <2>2. PICK s \in Seq(E) : s = Flat(f, a)
    BY <1>1
  <2>3. s \o <<>> = s
    OBVIOUS
  <2> QED BY <2>1, <2>2, <2>3
<1>3. ASSUME NEW k \in B PROVE k + 1 \in B
  <2> SUFFICES ASSUME k + 1 =< b PROVE Flat(f, a + (k + 1)) = Flat(f, a) \o Flat(g, k + 1)
    OBVIOUS
  <2>1. k \in Nat /\ k \in 0 .. b /\ k + 1 \in 1 .. b /\ Flat(f, a + k) = Flat(f, a) \o Flat(g, k)
    OBVIOUS
  <2>2. Flat(f, (a + k) + 1) = Flat(f, a + k) \o f[(a + k) + 1]
    <3>1. a + k \in Nat
      BY <2>1
    <3>2. \A i \in 1 .. (a + k) + 1 : f[i] \in Seq(E)
      BY <2>1
    <3> QED BY <3>1, <3>2, FlatStep
  <2>3. Flat(g, k + 1) = Flat(g, k) \o g[k + 1]
    <3>1. \A i \in 1 .. k + 1 : g[i] \in Seq(E)
      BY <2>1
    <3> QED BY <2>1, <3>1, FlatStep
  <2>4. (a + k) + 1 = a + (k + 1) /\ g[k + 1] = f[a + (k + 1)] /\ f[a + (k + 1)] \in S
    BY <2>1
  <2>5. PICK s \in S, t \in S, u \in S : s = Flat(f, a) /\ t = Flat(g, k) /\ u = f[a + (k + 1)]
    BY <1>1, <2>1, <2>4
  <2>6. PICK x, y : x = a + (k + 1) /\ y = a + k
    OBVIOUS
  <2>7. Flat(f, x) = (s \o t) \o u
    <3>1. Flat(f, x) = Flat(f, y) \o u
      BY <2>2, <2>4, <2>5, <2>6
    <3>2. Flat(f, y) = s \o t
      BY <2>1, <2>5, <2>6
    <3> QED BY <3>1, <3>2, Zenon
  <2>8. Flat(g, k + 1) = t \o u
    BY <2>3, <2>4, <2>5, Zenon
  <2>9. (s \o t) \o u = s \o (t \o u)
    <3> HIDE DEF B, Behind
    <3> QED BY <1>0
  <2> HIDE DEF B
  <2> QED BY <2>5, <2>6, <2>7, <2>8, <2>9, Zenon
<1>4. B = Nat
  <2>1. B \in SUBSET Nat
    OBVIOUS
  <2> HIDE DEF B
  <2> QED BY <1>2, <1>3, <2>1, NatSetInduction
<1>5. b \in B
  <2> HIDE DEF B
  <2> QED BY <1>4
<1> QED BY <1>5

\* Every element replaced by a sequence, or left out by an empty one.
Each(q, E) == [s \in Seq(E) |-> FlattenSeq([i \in 1 .. Len(s) |-> q[s[i]]])]

\* Replacing can be done to the parts.
LEMMA EachMaps ==
  ASSUME NEW E, NEW G, NEW q, \A e \in E : q[e] \in Seq(G)
  PROVE  MapsSeq(Each(q, E), E, G)
<1>1. ASSUME NEW s \in Seq(E), NEW f, f = [i \in 1 .. Len(s) |-> q[s[i]]]
      PROVE  Each(q, E)[s] = Flat(f, Len(s)) /\ Flat(f, Len(s)) \in Seq(G)
  <2>1. Len(s) \in Nat /\ \A i \in 1 .. Len(s) : f[i] \in Seq(G)
    BY <1>1
  <2>2. Flat(f, Len(s)) \in Seq(G)
    BY <2>1, FlatType
  <2>3. [i \in 1 .. Len(s) |-> f[i]] = f
    BY <1>1
  <2> QED BY <1>1, <2>2, <2>3 DEF Each, Flat
<1>2. Each(q, E) \in [Seq(E) -> Seq(G)]
  <2>1. \A s \in Seq(E) : Each(q, E)[s] \in Seq(G)
    BY <1>1
  <2> QED BY <2>1 DEF Each
<1>3. Each(q, E)[<<>>] = <<>>
  <2>1. PICK f : f = [i \in 1 .. Len(<<>>) |-> q[(<<>>)[i]]]
    OBVIOUS
  <2>2. <<>> \in Seq(E) /\ Len(<<>>) = 0
    OBVIOUS
  <2>3. Each(q, E)[<<>>] = Flat(f, Len(<<>>))
    BY <1>1, <2>1, <2>2
  <2> QED BY <2>2, <2>3, FlatEmpty
<1>4. ASSUME NEW s \in Seq(E), NEW t \in Seq(E)
      PROVE  Each(q, E)[s \o t] = Each(q, E)[s] \o Each(q, E)[t]
  <2>1. PICK a \in Nat, b \in Nat : a = Len(s) /\ b = Len(t)
    OBVIOUS
  <2>2. PICK u \in Seq(E) : u = s \o t
    <3>1. s \o t \in Seq(E)
      OBVIOUS
    <3> QED BY <3>1, Zenon
  <2>3. /\ Len(u) = a + b
        /\ \A i \in 1 .. a : u[i] = s[i]
        /\ \A i \in 1 .. b : u[a + i] = t[i]
    BY <2>1, <2>2
  <2>4. PICK f, g, h : /\ f = [i \in 1 .. Len(u) |-> q[u[i]]]
                       /\ g = [i \in 1 .. Len(t) |-> q[t[i]]]
                       /\ h = [i \in 1 .. Len(s) |-> q[s[i]]]
    OBVIOUS
  <2>5. Each(q, E)[u] = Flat(f, a + b) /\ Each(q, E)[t] = Flat(g, b) /\ Each(q, E)[s] = Flat(h, a)
    BY <1>1, <2>1, <2>3, <2>4
  <2>6. \A i \in 1 .. a + b : f[i] \in Seq(G)
    <3>1. \A i \in 1 .. a + b : u[i] \in E
      BY <2>3
    <3> QED BY <2>3, <2>4, <3>1
  <2>7. \A i \in 1 .. b : g[i] = f[a + i]
    BY <2>1, <2>3, <2>4
  <2>8. Flat(h, a) = Flat(f, a)
    <3>1. \A i \in 1 .. a : h[i] = f[i]
      BY <2>1, <2>3, <2>4
    <3> QED BY <3>1, FlatSame
  <2>9. Flat(f, a + b) = Flat(f, a) \o Flat(g, b)
    <3>1. PICK S : S = Seq(G)
      OBVIOUS
    <3>2. \A i \in 1 .. a + b : f[i] \in S
      BY <2>6, <3>1
    <3>3. Behind(f, g, a, b, S)
      BY <2>7, <3>2 DEF Behind
    <3> QED BY <3>1, <3>3, FlatConcat
  <2> QED BY <2>2, <2>5, <2>8, <2>9
<1> QED BY <1>2, <1>3, <1>4 DEF MapsSeq

\* The first n values of z.
Row(z, n) == [i \in 1 .. n |-> z[i]]

\* If each part has one element, the whole has these.
LEMMA FlatOfOnes ==
  ASSUME NEW G, NEW n \in Nat, NEW z, \A i \in 1 .. n : z[i] \in G,
         NEW f, \A i \in 1 .. n : f[i] = << z[i] >>
  PROVE  Flat(f, n) = Row(z, n)
<1> DEFINE Z(k) == Row(z, k)
           B == {k \in Nat : k =< n => Flat(f, k) = Z(k)}
<1>1. 0 \in B
  <2>1. Z(0) = <<>>
    BY DEF Row
  <2> HIDE DEF Z
  <2> QED BY <2>1, FlatEmpty
<1>2. ASSUME NEW k \in B PROVE k + 1 \in B
  <2> SUFFICES ASSUME k + 1 =< n PROVE Flat(f, k + 1) = Z(k + 1)
    OBVIOUS
  <2>1. k \in Nat /\ k + 1 \in 1 .. n /\ Flat(f, k) = Z(k)
    OBVIOUS
  <2>2. \A i \in 1 .. k + 1 : f[i] \in Seq(G)
    <3> SUFFICES ASSUME NEW i \in 1 .. k + 1 PROVE f[i] \in Seq(G)
      OBVIOUS
    <3>1. i \in 1 .. n
      BY <2>1
    <3>2. PICK e \in G : e = z[i]
      BY <3>1
    <3>3. << e >> \in Seq(G)
      OBVIOUS
    <3> QED BY <3>1, <3>2, <3>3
  <2>3. Flat(f, k + 1) = Flat(f, k) \o << z[k + 1] >>
    BY <2>1, <2>2, FlatStep
  <2>4. Z(k) \o << z[k + 1] >> = Z(k + 1)
    BY <2>1 DEF Row
  <2> HIDE DEF Z
  <2> QED BY <2>1, <2>3, <2>4
<1>3. B = Nat
  <2>1. B \in SUBSET Nat
    OBVIOUS
  <2> HIDE DEF B
  <2> QED BY <1>1, <1>2, <2>1, NatSetInduction
<1>4. n \in B
  <2> HIDE DEF B
  <2> QED BY <1>3
<1> QED BY <1>4

\* If each part is empty, so is the whole.
LEMMA FlatOfNone ==
  ASSUME NEW n \in Nat, NEW f, \A i \in 1 .. n : f[i] = <<>>
  PROVE  Flat(f, n) = <<>>
<1>1. \A i \in 1 .. n : f[i] \in Seq({})
  <2>1. <<>> \in Seq({})
    OBVIOUS
  <2> QED BY <2>1
<1>2. Flat(f, n) \in Seq({})
  BY <1>1, FlatType
<1> QED BY <1>2

\* Elements with equal replacements.
Alike(q, s, r, t) == Len(s) = Len(t) /\ \A i \in 1 .. Len(s) : q[s[i]] = r[t[i]]

\* Equal replacements make equal lists.
LEMMA EachSame ==
  ASSUME NEW E, NEW F, NEW q, NEW r, NEW s \in Seq(E), NEW t \in Seq(F), Alike(q, s, r, t)
  PROVE  Each(q, E)[s] = Each(r, F)[t]
BY DEF Each, Alike

\* Elements that are left out.
LeftOut(q, s) == \A i \in 1 .. Len(s) : q[s[i]] = <<>>

\* A list without replacements is empty.
LEMMA EachNone ==
  ASSUME NEW E, NEW q, NEW s \in Seq(E), LeftOut(q, s)
  PROVE  Each(q, E)[s] = <<>>
<1>1. PICK f : f = [i \in 1 .. Len(s) |-> q[s[i]]]
  OBVIOUS
<1>2. Flat(f, Len(s)) = <<>>
  BY <1>1, FlatOfNone DEF LeftOut
<1>3. [i \in 1 .. Len(s) |-> f[i]] = f
  BY <1>1
<1>4. Each(q, E)[s] = FlattenSeq(f)
  BY <1>1 DEF Each
<1> QED BY <1>2, <1>3, <1>4 DEF Flat

\* Elements replaced by one each.
OneEach(q, s, z, G) == \A i \in 1 .. Len(s) : z[i] \in G /\ q[s[i]] = << z[i] >>

\* One replacement each makes a list of the same length.
LEMMA EachOne ==
  ASSUME NEW E, NEW G, NEW q, NEW s \in Seq(E), NEW z, OneEach(q, s, z, G)
  PROVE  Each(q, E)[s] = Row(z, Len(s))
<1>0. PICK n \in Nat : n = Len(s)
  OBVIOUS
<1>1. PICK f : f = [i \in 1 .. n |-> q[s[i]]]
  OBVIOUS
<1>2. \A i \in 1 .. n : z[i] \in G
  BY <1>0 DEF OneEach
<1>3. \A i \in 1 .. n : f[i] = << z[i] >>
  BY <1>0, <1>1 DEF OneEach
<1>4. Flat(f, n) = Row(z, n)
  BY <1>2, <1>3, FlatOfOnes
<1>5. [i \in 1 .. n |-> f[i]] = f
  BY <1>1
<1>6. Each(q, E)[s] = FlattenSeq(f)
  BY <1>0, <1>1 DEF Each
<1> QED BY <1>0, <1>4, <1>5, <1>6 DEF Flat
=============================================================================
