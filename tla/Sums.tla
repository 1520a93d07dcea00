-------------------------------- MODULE Sums --------------------------------
(***************************************************************************)
(* What the library's SumFunction adds up to: lemmas about sums over       *)
(* finite sets for the proofs about the LLM budget and the freshness       *)
(* report.  Induction goes through well-founded sets: no counterexample is *)
(* the smallest one.                                                       *)
(***************************************************************************)
EXTENDS Integers, FiniteSets, Functions, FiniteSetTheorems, WellFoundedInduction, TLAPS

----------------------------------------------------------------------------
(* Induction *)

\* Whatever holds of 0 and of the successor of what it holds of is all of Nat.
LEMMA InductiveSet ==
  ASSUME NEW T \in SUBSET Nat, 0 \in T, \A n \in T : n + 1 \in T
  PROVE  T = Nat
<1>. SUFFICES ASSUME Nat \ T # {} PROVE FALSE
  OBVIOUS
<1>1. PICK n \in Nat \ T : \A m \in Nat \ T : <<m, n>> \notin OpToRel(<, Nat)
  BY NatLessThanWellFounded, WFMin, Nat \ T \subseteq Nat
<1>2. n - 1 \in Nat
  OBVIOUS
<1>3. <<n - 1, n>> \in OpToRel(<, Nat)
  BY <1>2 DEF OpToRel
<1>4. n - 1 \in T
  BY <1>1, <1>2, <1>3
<1>5. (n - 1) + 1 = n
  OBVIOUS
<1>. QED
  BY <1>1, <1>4, <1>5

\* Subsets of a finite set: a nonempty collection of them has a smallest one.
LEMMA SmallestSubset ==
  ASSUME NEW S, IsFiniteSet(S), NEW C \in SUBSET SUBSET S, C # {}
  PROVE  \E T \in C : \A U \in C : ~(U \subseteq T /\ U # T)
<1>1. FiniteSubsetsOf(S) = SUBSET S
  BY FS_FiniteSubsetsOfFinite
<1>2. PICK T \in C : \A U \in C : <<U, T>> \notin StrictSubsetOrdering(S)
  BY <1>1, FS_StrictSubsetOrderingWellFounded, WFMin
<1>3. ASSUME NEW U \in C, U \subseteq T, U # T PROVE FALSE
  <2>1. <<U, T>> \in StrictSubsetOrdering(S)
    BY <1>3 DEF StrictSubsetOrdering
  <2>. QED
    BY <1>2, <2>1
<1>. QED
  BY <1>3

----------------------------------------------------------------------------
(* The definition *)

Pick(s) == CHOOSE x \in s : TRUE

\* g adds f up over the subset s of S.
AddsUpAt(f, g, s) == g[s] = IF s = {} THEN 0 ELSE f[Pick(s)] + g[s \ {Pick(s)}]
AddsUp(f, S, g) ==
  g = [s \in SUBSET S |-> IF s = {} THEN 0 ELSE f[Pick(s)] + g[s \ {Pick(s)}]]

LEMMA PickIsIn == \A s : s # {} => Pick(s) \in s
BY DEF Pick

\* The recursion has a solution: after n + 1 rounds it is right on sets of up
\* to n elements.
LEMMA AdderExists ==
  ASSUME NEW f, NEW S, IsFiniteSet(S)
  PROVE  \E g : AddsUp(f, S, g)
<1>. DEFINE Right(g, n) == \A s \in SUBSET S : Cardinality(s) <= n => AddsUpAt(f, g, s)
            T == {n \in Nat : \E g : Right(g, n)}
<1>1. \A s \in SUBSET S : IsFiniteSet(s) /\ Cardinality(s) \in Nat
  BY FS_Subset, FS_CardinalityType
<1>2. 0 \in T
  <2>. DEFINE g == [s \in SUBSET S |-> 0]
  <2>1. ASSUME NEW s \in SUBSET S, Cardinality(s) <= 0 PROVE AddsUpAt(f, g, s)
    <3>1. s = {}
      BY <1>1, <2>1, FS_EmptySet
    <3>. QED
      BY <3>1 DEF AddsUpAt
  <2>. QED
    BY <2>1
<1>3. ASSUME NEW n \in T PROVE n + 1 \in T
  <2>1. PICK g : Right(g, n)
    OBVIOUS
  <2>. DEFINE h == [s \in SUBSET S |-> IF s = {} THEN 0 ELSE f[Pick(s)] + g[s \ {Pick(s)}]]
  <2>2. ASSUME NEW s \in SUBSET S, Cardinality(s) <= n + 1 PROVE AddsUpAt(f, h, s)
    <3>1. CASE s = {}
      BY <3>1 DEF AddsUpAt
    <3>2. CASE s # {}
      <4>. DEFINE t == s \ {Pick(s)}
      <4>1. t \in SUBSET S /\ Cardinality(t) <= n
        BY <1>1, <2>2, <3>2, PickIsIn, FS_RemoveElement
      <4>2. AddsUpAt(f, g, t)
        BY <2>1, <4>1
      <4>3. h[t] = g[t]
        BY <4>1, <4>2 DEF AddsUpAt
      <4>4. h[s] = f[Pick(s)] + g[t]
        BY <3>2
      <4>. HIDE DEF h, t
      <4>5. h[s] = f[Pick(s)] + h[t]
        BY <4>3, <4>4
      <4>. QED
        BY <3>2, <4>5 DEF AddsUpAt, t
    <3>. QED
      BY <3>1, <3>2
  <2>3. Right(h, n + 1)
    BY <2>2
  <2>. HIDE DEF Right, h
  <2>. QED
    BY <2>3
<1>4. T = Nat
  <2>. HIDE DEF T
  <2>. QED
    BY <1>2, <1>3, InductiveSet, T \in SUBSET Nat DEF T
<1>5. Cardinality(S) \in T
  BY <1>1, <1>4
<1>6. PICK g : Right(g, Cardinality(S))
  BY <1>5
<1>. DEFINE h == [s \in SUBSET S |-> g[s]]
<1>7. ASSUME NEW s \in SUBSET S
      PROVE  h[s] = IF s = {} THEN 0 ELSE f[Pick(s)] + h[s \ {Pick(s)}]
  <2>1. Cardinality(s) <= Cardinality(S) /\ s \ {Pick(s)} \in SUBSET S
    BY FS_Subset
  <2>2. AddsUpAt(f, g, s)
    BY <1>6, <2>1
  <2>. QED
    BY <2>1, <2>2 DEF AddsUpAt
<1>8. h = [s \in SUBSET S |-> IF s = {} THEN 0 ELSE f[Pick(s)] + h[s \ {Pick(s)}]]
  BY <1>7
<1>. QED
  BY <1>8 DEF AddsUp

\* The library's sum is the value at S of a function that adds up.
LEMMA SumIsAdder ==
  ASSUME NEW f, NEW S, IsFiniteSet(S)
  PROVE  \E g : AddsUp(f, S, g) /\ SumFunctionOnSet(f, S) = g[S]
<1>. DEFINE g == CHOOSE g : AddsUp(f, S, g)
<1>1. AddsUp(f, S, g)
  BY AdderExists
<1>2. SumFunctionOnSet(f, S) = g[S]
  BY DEF SumFunctionOnSet, FoldFunctionOnSet, MapThenFoldSet, AddsUp, Pick
<1>. QED
  BY <1>1, <1>2

\* Two functions that add up agree on what both add up.
LEMMA AddersAgree ==
  ASSUME NEW f, NEW S, IsFiniteSet(S), NEW R, R \subseteq S,
         NEW g, NEW h, AddsUp(f, S, g), AddsUp(f, R, h)
  PROVE  g[R] = h[R]
<1>. DEFINE C == {s \in SUBSET R : g[s] # h[s]}
<1>. SUFFICES ASSUME C # {} PROVE FALSE
  BY R \in SUBSET R
<1>1. C \in SUBSET SUBSET S
  OBVIOUS
<1>2. PICK s \in C : \A t \in C : ~(t \subseteq s /\ t # s)
  <2>. HIDE DEF C
  <2>. QED
    BY <1>1, SmallestSubset
<1>. DEFINE t == s \ {Pick(s)}
<1>3. /\ g[s] = IF s = {} THEN 0 ELSE f[Pick(s)] + g[t]
      /\ h[s] = IF s = {} THEN 0 ELSE f[Pick(s)] + h[t]
  BY DEF AddsUp
<1>4. s # {}
  BY <1>2, <1>3
<1>5. t \subseteq s /\ t # s
  BY <1>4, PickIsIn
<1>6. g[t] = h[t]
  BY <1>2, <1>5
<1>. QED
  BY <1>2, <1>3, <1>6

----------------------------------------------------------------------------
(* What a sum is *)

LEMMA SumOfNone == ASSUME NEW f PROVE SumFunctionOnSet(f, {}) = 0
<1>1. PICK g : AddsUp(f, {}, g) /\ SumFunctionOnSet(f, {}) = g[{}]
  BY FS_EmptySet, SumIsAdder
<1>2. g[{}] = 0
  BY <1>1 DEF AddsUp
<1>. QED
  BY <1>1, <1>2

\* In whatever order a set is added up, the sum is the same.
LEMMA SumTakesOut ==
  ASSUME NEW S, IsFiniteSet(S), NEW f, \A s \in S : f[s] \in Int, NEW x \in S
  PROVE  /\ SumFunctionOnSet(f, S) \in Int
         /\ SumFunctionOnSet(f, S \ {x}) \in Int
         /\ SumFunctionOnSet(f, S) = f[x] + SumFunctionOnSet(f, S \ {x})
<1>1. PICK g : AddsUp(f, S, g) /\ SumFunctionOnSet(f, S) = g[S]
  BY SumIsAdder
<1>2. \A s \in SUBSET S : g[s] = IF s = {} THEN 0 ELSE f[Pick(s)] + g[s \ {Pick(s)}]
  BY <1>1 DEF AddsUp
<1>3. \A s \in SUBSET S : g[s] \in Int
  <2>. DEFINE C == {s \in SUBSET S : g[s] \notin Int}
  <2>. SUFFICES ASSUME C # {} PROVE FALSE
    OBVIOUS
  <2>1. C \in SUBSET SUBSET S
    OBVIOUS
  <2>2. PICK s \in C : \A t \in C : ~(t \subseteq s /\ t # s)
    <3>. HIDE DEF C
    <3>. QED
      BY <2>1, SmallestSubset
  <2>3. s \in SUBSET S /\ g[s] \notin Int
    BY <2>2
  <2>. DEFINE t == s \ {Pick(s)}
  <2>4. g[s] = IF s = {} THEN 0 ELSE f[Pick(s)] + g[t]
    BY <1>2, <2>3
  <2>. HIDE DEF C, t
  <2>5. s # {} /\ g[s] = f[Pick(s)] + g[t]
    BY <2>3, <2>4
  <2>6. Pick(s) \in s
    BY <2>5, PickIsIn
  <2>7. g[t] \in Int
    BY <2>2, <2>6 DEF C, t
  <2>. QED
    BY <2>3, <2>5, <2>6, <2>7
<1>4. \A s \in SUBSET S : \A y \in s : g[s] = f[y] + g[s \ {y}]
  <2>. DEFINE C == {s \in SUBSET S : \E y \in s : g[s] # f[y] + g[s \ {y}]}
  <2>. SUFFICES ASSUME C # {} PROVE FALSE
    OBVIOUS
  <2>1. C \in SUBSET SUBSET S
    OBVIOUS
  <2>2. PICK s \in C : \A t \in C : ~(t \subseteq s /\ t # s)
    <3>. HIDE DEF C
    <3>. QED
      BY <2>1, SmallestSubset
  <2>3. PICK y \in s : g[s] # f[y] + g[s \ {y}]
    BY <2>2
  <2>. DEFINE z == Pick(s)
  <2>4. z \in s /\ g[s] = f[z] + g[s \ {z}]
    BY <1>2, <2>2, <2>3, PickIsIn
  <2>5. z # y
    BY <2>3, <2>4
  <2>6. g[s \ {z}] = f[y] + g[(s \ {z}) \ {y}]
    BY <2>2, <2>4, <2>5, s \ {z} \notin C
  <2>7. g[s \ {y}] = f[z] + g[(s \ {y}) \ {z}]
    BY <2>2, <2>4, <2>5, s \ {y} \notin C
  <2>8. (s \ {z}) \ {y} = (s \ {y}) \ {z}
    OBVIOUS
  <2>9. f[y] \in Int /\ f[z] \in Int /\ g[(s \ {y}) \ {z}] \in Int
    BY <1>3, <2>2, <2>4
  <2>10. g[s] = f[z] + (f[y] + g[(s \ {y}) \ {z}])
    BY <2>4, <2>6, <2>8
  <2>. HIDE DEF z, C
  <2>11. g[s] = f[y] + (f[z] + g[(s \ {y}) \ {z}])
    BY <2>9, <2>10
  <2>. QED
    BY <2>3, <2>7, <2>11
<1>5. IsFiniteSet(S \ {x})
  BY FS_RemoveElement
<1>6. PICK h : AddsUp(f, S \ {x}, h) /\ SumFunctionOnSet(f, S \ {x}) = h[S \ {x}]
  BY <1>5, SumIsAdder
<1>7. h[S \ {x}] = g[S \ {x}]
  <2>. DEFINE R == S \ {x}
  <2>1. R \subseteq S
    OBVIOUS
  <2>2. AddsUp(f, S, g) /\ AddsUp(f, R, h)
    BY <1>1, <1>6
  <2>. HIDE DEF R
  <2>3. g[R] = h[R]
    BY <2>1, <2>2, AddersAgree
  <2>. QED
    BY <2>3 DEF R
<1>. QED
  BY <1>1, <1>3, <1>4, <1>6, <1>7

LEMMA SumIsInt ==
  ASSUME NEW S, IsFiniteSet(S), NEW f, \A s \in S : f[s] \in Int
  PROVE  SumFunctionOnSet(f, S) \in Int
<1>1. CASE S = {}
  BY <1>1, SumOfNone
<1>2. CASE S # {}
  BY <1>2, SumTakesOut
<1>. QED
  BY <1>1, <1>2

\* The induction that the facts below share: a subset without the property
\* cannot be smallest, as one element less has it.
LEMMA FiniteInduction ==
  ASSUME NEW S, IsFiniteSet(S), NEW G \in SUBSET SUBSET S, {} \in G,
         \A s \in SUBSET S : \A x \in s : s \ {x} \in G => s \in G
  PROVE  S \in G
<1>. SUFFICES ASSUME S \notin G PROVE FALSE
  OBVIOUS
<1>. DEFINE C == (SUBSET S) \ G
<1>1. PICK s \in C : \A t \in C : ~(t \subseteq s /\ t # s)
  <2>1. C # {} /\ C \in SUBSET SUBSET S
    OBVIOUS
  <2>. HIDE DEF C
  <2>. QED
    BY <2>1, SmallestSubset
<1>2. s \in SUBSET S /\ s \notin G
  BY <1>1
<1>3. s # {}
  BY <1>2
<1>4. PICK x \in s : TRUE
  BY <1>3
<1>5. s \ {x} \in SUBSET S /\ s \ {x} # s
  BY <1>2, <1>4
<1>6. s \ {x} \in G
  BY <1>1, <1>5
<1>. QED
  BY <1>2, <1>6

\* A sum term by term.
LEMMA SumTermByTerm ==
  ASSUME NEW S, IsFiniteSet(S), NEW f, NEW g, NEW h,
         \A s \in S : f[s] \in Int /\ g[s] \in Int /\ h[s] = f[s] + g[s]
  PROVE  SumFunctionOnSet(h, S) = SumFunctionOnSet(f, S) + SumFunctionOnSet(g, S)
<1>. DEFINE Sum(k, s) == SumFunctionOnSet(k, s)
            G == {s \in SUBSET S : Sum(h, s) = Sum(f, s) + Sum(g, s)}
<1>1. {} \in G
  BY SumOfNone
<1>2. ASSUME NEW s \in SUBSET S, NEW x \in s, s \ {x} \in G PROVE s \in G
  <2>1. IsFiniteSet(s) /\ \A y \in s : f[y] \in Int /\ g[y] \in Int /\ h[y] \in Int
    BY FS_Subset
  <2>2. /\ Sum(f, s) = f[x] + Sum(f, s \ {x}) /\ Sum(f, s \ {x}) \in Int
        /\ Sum(g, s) = g[x] + Sum(g, s \ {x}) /\ Sum(g, s \ {x}) \in Int
        /\ Sum(h, s) = h[x] + Sum(h, s \ {x})
    BY <2>1, SumTakesOut
  <2>3. Sum(h, s \ {x}) = Sum(f, s \ {x}) + Sum(g, s \ {x})
    BY <1>2
  <2>. HIDE DEF Sum
  <2>4. h[x] = f[x] + g[x] /\ f[x] \in Int /\ g[x] \in Int
    OBVIOUS
  <2>. QED
    BY <2>2, <2>3, <2>4
<1>3. S \in G
  <2>1. G \in SUBSET SUBSET S
    OBVIOUS
  <2>. HIDE DEF G
  <2>. QED
    BY <1>1, <1>2, <2>1, FiniteInduction
<1>. QED
  BY <1>3

LEMMA SumIsNat ==
  ASSUME NEW S, IsFiniteSet(S), NEW f, \A s \in S : f[s] \in Nat
  PROVE  SumFunctionOnSet(f, S) \in Nat
<1>. DEFINE Sum(s) == SumFunctionOnSet(f, s)
            G == {s \in SUBSET S : Sum(s) \in Nat}
<1>1. {} \in G
  BY SumOfNone
<1>2. ASSUME NEW s \in SUBSET S, NEW x \in s, s \ {x} \in G PROVE s \in G
  <2>1. IsFiniteSet(s) /\ \A y \in s : f[y] \in Int
    BY FS_Subset
  <2>2. Sum(s) = f[x] + Sum(s \ {x})
    BY <2>1, SumTakesOut
  <2>3. Sum(s \ {x}) \in Nat /\ f[x] \in Nat
    BY <1>2
  <2>. HIDE DEF Sum
  <2>. QED
    BY <2>2, <2>3
<1>3. S \in G
  <2>1. G \in SUBSET SUBSET S
    OBVIOUS
  <2>. HIDE DEF G
  <2>. QED
    BY <1>1, <1>2, <2>1, FiniteInduction
<1>. QED
  BY <1>3

\* The same terms under other names.
LEMMA SumReindexed ==
  ASSUME NEW S, IsFiniteSet(S), NEW R, NEW b \in Bijection(S, R),
         NEW f, NEW g, \A s \in S : g[s] = f[b[s]] /\ g[s] \in Int
  PROVE  SumFunctionOnSet(g, S) = SumFunctionOnSet(f, R)
<1>. DEFINE Image(s) == {b[y] : y \in s}
            G == {s \in SUBSET S : SumFunctionOnSet(g, s) = SumFunctionOnSet(f, Image(s))}
<1>1. /\ b \in [S -> R] /\ \A s, t \in S : b[s] = b[t] => s = t
      /\ \A r \in R : \E s \in S : b[s] = r
  BY DEF Bijection, Injection, Surjection, IsInjective
<1>2. {} \in G
  <2>1. Image({}) = {}
    OBVIOUS
  <2>. QED
    BY <2>1, SumOfNone
<1>3. IsFiniteSet(R)
  BY FS_Bijection, b \in Bijection(S, R) DEF ExistsBijection
<1>4. ASSUME NEW s \in SUBSET S, NEW x \in s, s \ {x} \in G PROVE s \in G
  <2>1. IsFiniteSet(s) /\ (\A y \in s : g[y] \in Int)
    BY FS_Subset
  <2>2. SumFunctionOnSet(g, s) = g[x] + SumFunctionOnSet(g, s \ {x})
    BY <2>1, SumTakesOut
  <2>3. Image(s) \in SUBSET R /\ IsFiniteSet(Image(s)) /\ b[x] \in Image(s)
    BY <1>1, <1>3, FS_Subset
  <2>4. \A r \in Image(s) : f[r] \in Int
    OBVIOUS
  <2>5. SumFunctionOnSet(f, Image(s)) = f[b[x]] + SumFunctionOnSet(f, Image(s) \ {b[x]})
    <3>. HIDE DEF Image
    <3>. QED
      BY <2>3, <2>4, SumTakesOut
  <2>6. Image(s) \ {b[x]} = Image(s \ {x})
    BY <1>1
  <2>7. SumFunctionOnSet(g, s \ {x}) = SumFunctionOnSet(f, Image(s \ {x}))
    BY <1>4
  <2>8. g[x] = f[b[x]]
    OBVIOUS
  <2>9. SumFunctionOnSet(g, s) = SumFunctionOnSet(f, Image(s))
    BY <2>2, <2>5, <2>6, <2>7, <2>8
  <2>. QED
    BY <2>9
<1>5. S \in G
  <2>1. G \in SUBSET SUBSET S
    OBVIOUS
  <2>. HIDE DEF G
  <2>. QED
    BY <1>2, <1>4, <2>1, FiniteInduction
<1>6. Image(S) = R
  BY <1>1
<1>. QED
  BY <1>5, <1>6

\* A sum looks at its function on its set only.
LEMMA SumOfSame ==
  ASSUME NEW S, IsFiniteSet(S), NEW f, NEW g, \A s \in S : g[s] = f[s] /\ g[s] \in Int
  PROVE  SumFunctionOnSet(g, S) = SumFunctionOnSet(f, S)
<1>. DEFINE b == [s \in S |-> s]
<1>1. b \in Bijection(S, S) /\ \A s \in S : b[s] = s
  BY DEF Bijection, Injection, Surjection, IsInjective
<1>2. \A s \in S : g[s] = f[b[s]] /\ g[s] \in Int
  BY <1>1
<1>. HIDE DEF b
<1>. QED
  BY <1>1, <1>2, SumReindexed
=============================================================================
