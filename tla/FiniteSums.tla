------------------------------ MODULE FiniteSums ------------------------------
(***************************************************************************)
(* Facts about finite sets of numbers, and the sums over finite sets, for  *)
(* the proofs about CollectionPlan and LegacyEvaluation, which add up work *)
(* and traffic, and about StreamFraming, which puts offsets in order.      *)
(*                                                                         *)
(* SumFunction is a recursion over the sets that are left when one element *)
(* after the other is taken away.  The induction over them is given the    *)
(* sets for which the claim holds, for there is no claim to instantiate a  *)
(* theorem with.                                                           *)
(***************************************************************************)
EXTENDS Integers, FiniteSetsExt, TLAPS, FiniteSetTheorems, WellFoundedInduction

Pick(s) == CHOOSE x \in s : TRUE
IsSum(g, f, S) ==
    g = [s \in SUBSET S |-> IF s = {} THEN 0 ELSE f[Pick(s)] + g[s \ {Pick(s)}]]
SumOf(f, S) == CHOOSE g : IsSum(g, f, S)

\* A set of numbers that is not empty has a least one.
LEMMA LeastIn ==
  ASSUME NEW S \in SUBSET Nat, S # {}
  PROVE  \E n \in S : \A m \in S : n <= m
<1>1. PICK n \in S : \A m \in S : ~(<<m, n>> \in OpToRel(<, Nat))
  BY NatLessThanWellFounded, WFMin
<1>2. ASSUME NEW m \in S, m < n PROVE FALSE
  BY <1>1, <1>2 DEF OpToRel
<1>. QED BY <1>2

\* And one that is finite has a greatest.
LEMMA GreatestIn ==
  ASSUME NEW S \in SUBSET Nat, S # {}, IsFiniteSet(S)
  PROVE  \E n \in S : \A m \in S : m <= n
<1> DEFINE above(n) == {m \in S : n < m}
           sizes == {Cardinality(above(n)) : n \in S}
<1>1. \A n \in S : IsFiniteSet(above(n)) /\ Cardinality(above(n)) \in Nat
  BY FS_Subset, FS_CardinalityType
<1>2. PICK k \in sizes : \A l \in sizes : k <= l
  <2>1. sizes \in SUBSET Nat /\ sizes # {} BY <1>1
  <2> HIDE DEF sizes
  <2>. QED BY <2>1, LeastIn
<1>3. PICK n \in S : k = Cardinality(above(n)) OBVIOUS
<1>4. ASSUME NEW m \in above(n) PROVE FALSE
  <2>0. m \in S /\ m \in Nat /\ n \in Nat /\ n < m BY <1>4
  <2>1. above(m) \in SUBSET above(n) /\ m \notin above(m)
    <3>1. ASSUME NEW x \in above(m) PROVE x \in above(n)
      <4>1. x \in S /\ x \in Nat /\ m < x BY <3>1
      <4>. QED BY <2>0, <4>1
    <3>2. m \notin above(m) BY <2>0
    <3> HIDE DEF above
    <3>. QED BY <3>1, <3>2
  <2>2. above(m) # above(n) BY <1>4, <2>1
  <2>3. Cardinality(above(m)) < Cardinality(above(n))
    <3>1. Cardinality(above(m)) <= Cardinality(above(n)) /\ Cardinality(above(m)) # Cardinality(above(n))
      BY <1>1, <2>0, <2>1, <2>2, FS_Subset
    <3>2. Cardinality(above(m)) \in Nat /\ Cardinality(above(n)) \in Nat BY <1>1, <2>0
    <3> HIDE DEF above
    <3>. QED BY <3>1, <3>2
  <2>4. Cardinality(above(m)) \in sizes BY <2>0
  <2>5. Cardinality(above(m)) \in Nat /\ Cardinality(above(n)) \in Nat BY <1>1, <2>0
  <2>6. k <= Cardinality(above(m)) BY <1>2, <2>4
  <2> HIDE DEF above, sizes
  <2>. QED BY <1>3, <2>3, <2>5, <2>6
<1>5. \A m \in S : m <= n BY <1>4
<1>. QED BY <1>5

\* What holds of a set if it holds of its subsets with fewer elements, holds of it.
LEMMA SubsetInduction ==
  ASSUME NEW S, IsFiniteSet(S), NEW Good,
         \A s \in SUBSET S :
             (\A t \in SUBSET s : t # s => t \in Good) => s \in Good
  PROVE  \A s \in SUBSET S : s \in Good
<1> DEFINE bad == {s \in SUBSET S : s \notin Good}
           sizes == {Cardinality(s) : s \in bad}
<1> SUFFICES ASSUME bad # {} PROVE FALSE
  OBVIOUS
<1>1. \A s \in SUBSET S : IsFiniteSet(s) /\ Cardinality(s) \in Nat
  BY FS_Subset, FS_CardinalityType
<1>2. sizes \in SUBSET Nat /\ sizes # {} BY <1>1
<1>3. PICK n \in sizes : \A m \in sizes : n <= m
  <2> HIDE DEF sizes
  <2>. QED BY <1>2, LeastIn
<1>4. PICK s \in bad : n = Cardinality(s) OBVIOUS
<1>5. ASSUME NEW t \in SUBSET s, t # s PROVE t \in Good
  <2>1. Cardinality(t) < Cardinality(s)
    BY <1>1, <1>5, FS_Subset
  <2>2. Cardinality(t) \in Nat /\ n \in Nat BY <1>1, <1>2
  <2>3. Cardinality(t) \notin sizes BY <1>3, <1>4, <2>1, <2>2
  <2>. QED BY <2>3
<1>. QED BY <1>4, <1>5

LEMMA SumUnfolds ==
  ASSUME NEW S, NEW f
  PROVE  SumFunctionOnSet(f, S) = SumOf(f, S)[S]
BY DEF SumFunctionOnSet, FoldFunctionOnSet, MapThenFoldSet, SumOf, IsSum, Pick

\* Two recursions agree where both are defined.
LEMMA SumsAgree ==
  ASSUME NEW f, NEW T, IsFiniteSet(T), NEW S, NEW R, T \subseteq S, T \subseteq R,
         NEW g, IsSum(g, f, S), NEW h, IsSum(h, f, R)
  PROVE  g[T] = h[T]
<1> DEFINE Good == {s \in SUBSET T : g[s] = h[s]}
<1>1. ASSUME NEW s \in SUBSET T, \A t \in SUBSET s : t # s => t \in Good
      PROVE  s \in Good
  <2>1. CASE s = {} BY <2>1 DEF IsSum
  <2>2. CASE s # {}
    <3>1. PICK x \in s : x = Pick(s) BY <2>2 DEF Pick
    <3>2. g[s \ {x}] = h[s \ {x}] BY <1>1
    <3>3. g[s] = f[x] + g[s \ {x}] BY <2>2, <3>1 DEF IsSum
    <3>4. h[s] = f[x] + h[s \ {x}] BY <2>2, <3>1 DEF IsSum
    <3>. QED BY <3>2, <3>3, <3>4
  <2>. QED BY <2>1, <2>2
<1> HIDE DEF Good
<1>2. \A s \in SUBSET T : s \in Good BY <1>1, SubsetInduction
<1>. QED BY <1>2 DEF Good

\* A finite set has its recursion.
LEMMA SumExists ==
  ASSUME NEW f, NEW S, IsFiniteSet(S)
  PROVE  IsSum(SumOf(f, S), f, S)
<1> DEFINE Good == {s \in SUBSET S : \E g : IsSum(g, f, s)}
<1>1. \A s \in SUBSET S : IsFiniteSet(s) BY FS_Subset
<1>2. ASSUME NEW s \in SUBSET S, \A t \in SUBSET s : t # s => t \in Good
      PROVE  s \in Good
  <2> DEFINE h == [t \in SUBSET s |->
                      IF t = {} THEN 0
                      ELSE f[Pick(t)] + SumOf(f, t \ {Pick(t)})[t \ {Pick(t)}]]
  <2>1. ASSUME NEW t \in SUBSET s, t # s PROVE IsSum(SumOf(f, t), f, t)
    BY <1>2, <2>1 DEF SumOf
  <2>2. ASSUME NEW t \in SUBSET s, t # s PROVE h[t] = SumOf(f, t)[t]
    <3>1. CASE t = {}
      <4>1. SumOf(f, t)[t] = IF t = {} THEN 0
                             ELSE f[Pick(t)] + SumOf(f, t)[t \ {Pick(t)}]
        BY <2>1, <2>2 DEF IsSum
      <4>. QED BY <3>1, <4>1
    <3>2. CASE t # {}
      <4>1. PICK x \in t : x = Pick(t) BY <3>2 DEF Pick
      <4>2. IsSum(SumOf(f, t), f, t) /\ IsSum(SumOf(f, t \ {x}), f, t \ {x})
        BY <2>1, <2>2
      <4>3. SumOf(f, t)[t] = f[x] + SumOf(f, t)[t \ {x}]
        BY <3>2, <4>1, <4>2 DEF IsSum
      <4>4. SumOf(f, t)[t \ {x}] = SumOf(f, t \ {x})[t \ {x}]
        <5>1. t \ {x} \subseteq t /\ IsFiniteSet(t \ {x}) BY <1>1
        <5>. QED BY <4>2, <5>1, SumsAgree
      <4>. QED BY <3>2, <4>1, <4>3, <4>4
    <3>. QED BY <3>1, <3>2
  <2>3. \A t \in SUBSET s : t # {} =>
            Pick(t) \in t /\ t \ {Pick(t)} \in SUBSET s /\ t \ {Pick(t)} # s
    BY DEF Pick
  <2>4. \A t \in SUBSET s : t # {} => h[t] = f[Pick(t)] + h[t \ {Pick(t)}]
    BY <2>2, <2>3
  <2>5. h = [t \in SUBSET s |-> IF t = {} THEN 0 ELSE f[Pick(t)] + h[t \ {Pick(t)}]]
    BY <2>4
  <2>. QED BY <2>5 DEF IsSum
<1> HIDE DEF Good
<1>3. S \in Good BY <1>2, SubsetInduction
<1>. QED BY <1>3 DEF Good, SumOf

\* A sum takes one element after the other.
LEMMA SumStep ==
  ASSUME NEW f, NEW S, IsFiniteSet(S)
  PROVE  /\ S = {} => SumFunctionOnSet(f, S) = 0
         /\ S # {} => /\ Pick(S) \in S
                      /\ SumFunctionOnSet(f, S)
                             = f[Pick(S)] + SumFunctionOnSet(f, S \ {Pick(S)})
<1>1. SumFunctionOnSet(f, S) = SumOf(f, S)[S] BY SumUnfolds
<1>2. IsSum(SumOf(f, S), f, S) BY SumExists
<1>3. SumOf(f, S)[S] = IF S = {} THEN 0 ELSE f[Pick(S)] + SumOf(f, S)[S \ {Pick(S)}]
  BY <1>2 DEF IsSum
<1>4. CASE S # {}
  <2>1. PICK x \in S : x = Pick(S) BY <1>4 DEF Pick
  <2>2. S \ {x} \subseteq S /\ IsFiniteSet(S \ {x}) BY FS_Subset
  <2>3. IsSum(SumOf(f, S \ {x}), f, S \ {x}) BY <2>2, SumExists
  <2>4. SumOf(f, S)[S \ {x}] = SumOf(f, S \ {x})[S \ {x}] BY <1>2, <2>2, <2>3, SumsAgree
  <2>5. SumFunctionOnSet(f, S \ {x}) = SumOf(f, S \ {x})[S \ {x}] BY SumUnfolds
  <2>. QED BY <1>1, <1>3, <1>4, <2>1, <2>4, <2>5
<1>. QED BY <1>1, <1>3, <1>4

\* What is bounded element by element, up to a factor, is so in sum.
LEMMA SumScaled ==
  ASSUME NEW S, IsFiniteSet(S), NEW f, NEW g, NEW c \in Nat,
         \A x \in S : f[x] \in Nat /\ g[x] \in Nat /\ f[x] <= c * g[x]
  PROVE  /\ SumFunctionOnSet(f, S) \in Nat /\ SumFunctionOnSet(g, S) \in Nat
         /\ SumFunctionOnSet(f, S) <= c * SumFunctionOnSet(g, S)
<1> DEFINE Good ==
        {s \in SUBSET S :
            /\ SumFunctionOnSet(f, s) \in Nat /\ SumFunctionOnSet(g, s) \in Nat
            /\ SumFunctionOnSet(f, s) <= c * SumFunctionOnSet(g, s)}
<1>1. ASSUME NEW s \in SUBSET S, \A t \in SUBSET s : t # s => t \in Good
      PROVE  s \in Good
  <2>1. IsFiniteSet(s) BY FS_Subset
  <2>2. CASE s = {}
    <3>1. SumFunctionOnSet(f, s) = 0 /\ SumFunctionOnSet(g, s) = 0 BY <2>1, <2>2, SumStep
    <3>. QED BY <3>1
  <2>3. CASE s # {}
    <3>1. PICK x \in s : x = Pick(s) BY <2>3 DEF Pick
    <3>2. s \ {x} \in Good BY <1>1
    <3>3. PICK a \in Nat : a = SumFunctionOnSet(f, s \ {x}) BY <3>2
    <3>4. PICK b \in Nat : b = SumFunctionOnSet(g, s \ {x}) BY <3>2
    <3>5. /\ SumFunctionOnSet(f, s) = f[x] + a /\ SumFunctionOnSet(g, s) = g[x] + b
      BY <2>1, <2>3, <3>1, <3>3, <3>4, SumStep
    <3>6. f[x] \in Nat /\ g[x] \in Nat /\ f[x] <= c * g[x] OBVIOUS
    <3>7. a <= c * b BY <3>2, <3>3, <3>4
    <3>8. f[x] + a <= c * (g[x] + b)
      <4>1. PICK u \in Nat : u = f[x] BY <3>6
      <4>2. PICK v \in Nat : v = g[x] BY <3>6
      <4>3. u <= c * v BY <3>6, <4>1, <4>2
      <4>4. c * (v + b) = c * v + c * b OBVIOUS
      <4>5. c * v \in Nat /\ c * b \in Nat OBVIOUS
      <4>. QED BY <3>7, <4>1, <4>2, <4>3, <4>4, <4>5
    <3>. QED BY <3>5, <3>6, <3>8
  <2>. QED BY <2>2, <2>3
<1> HIDE DEF Good
<1>2. S \in Good BY <1>1, SubsetInduction
<1>. QED BY <1>2 DEF Good

\* A sum of ones counts.
LEMMA SumOfOnes ==
  ASSUME NEW S, IsFiniteSet(S), NEW f, \A x \in S : f[x] = 1
  PROVE  SumFunctionOnSet(f, S) = Cardinality(S)
<1> DEFINE Good == {s \in SUBSET S : SumFunctionOnSet(f, s) = Cardinality(s)}
<1>1. ASSUME NEW s \in SUBSET S, \A t \in SUBSET s : t # s => t \in Good
      PROVE  s \in Good
  <2>1. IsFiniteSet(s) BY FS_Subset
  <2>2. CASE s = {} BY <2>1, <2>2, SumStep, FS_EmptySet
  <2>3. CASE s # {}
    <3>1. PICK x \in s : x = Pick(s) BY <2>3 DEF Pick
    <3>2. SumFunctionOnSet(f, s \ {x}) = Cardinality(s \ {x}) BY <1>1
    <3>3. SumFunctionOnSet(f, s) = f[x] + SumFunctionOnSet(f, s \ {x})
      BY <2>1, <2>3, <3>1, SumStep
    <3>4. Cardinality(s \ {x}) = Cardinality(s) - 1 /\ Cardinality(s) \in Nat
      BY <2>1, FS_RemoveElement, FS_CardinalityType
    <3>. QED BY <3>2, <3>3, <3>4
  <2>. QED BY <2>2, <2>3
<1> HIDE DEF Good
<1>2. S \in Good BY <1>1, SubsetInduction
<1>. QED BY <1>2 DEF Good

\* What is bounded element by element is so in sum, for functions.
LEMMA SumWithin ==
  ASSUME NEW S, IsFiniteSet(S), NEW f \in [S -> Nat], NEW g \in [S -> Nat], NEW c \in Nat,
         \A x \in S : f[x] <= c * g[x]
  PROVE  /\ SumFunction(f) \in Nat /\ SumFunction(g) \in Nat
         /\ SumFunction(f) <= c * SumFunction(g)
<1>1. SumFunction(f) = SumFunctionOnSet(f, S) /\ SumFunction(g) = SumFunctionOnSet(g, S)
  BY DEF SumFunction
<1>. QED BY <1>1, SumScaled

LEMMA SumAtMost ==
  ASSUME NEW S, IsFiniteSet(S), NEW f \in [S -> Nat], NEW c \in Nat, \A x \in S : f[x] <= c
  PROVE  SumFunction(f) \in Nat /\ SumFunction(f) <= c * Cardinality(S)
<1>1. PICK ones : ones = [x \in S |-> 1] OBVIOUS
<1>2. ones \in [S -> Nat] /\ \A x \in S : ones[x] = 1 /\ f[x] <= c * ones[x] BY <1>1
<1>3. SumFunction(ones) = Cardinality(S) BY <1>1, <1>2, SumOfOnes DEF SumFunction
<1>. QED BY <1>2, <1>3, SumWithin

\* A sum of naturals is one.
LEMMA SumIsNatural ==
  ASSUME NEW S, IsFiniteSet(S), NEW f \in [S -> Nat]
  PROVE  SumFunction(f) \in Nat
<1>1. \A x \in S : f[x] <= 1 * f[x] OBVIOUS
<1>. QED BY <1>1, SumWithin

\* One more somewhere is one more in sum.
LEMMA SumAdded ==
  ASSUME NEW S, IsFiniteSet(S), NEW f \in [S -> Nat], NEW g \in [S -> Nat], NEW y \in S,
         g[y] = f[y] + 1, \A x \in S \ {y} : g[x] = f[x]
  PROVE  SumFunction(g) = SumFunction(f) + 1
<1> DEFINE Good ==
        {s \in SUBSET S :
            /\ SumFunctionOnSet(f, s) \in Nat
            /\ SumFunctionOnSet(g, s) = SumFunctionOnSet(f, s) + (IF y \in s THEN 1 ELSE 0)}
<1>1. ASSUME NEW s \in SUBSET S, \A t \in SUBSET s : t # s => t \in Good
      PROVE  s \in Good
  <2>1. IsFiniteSet(s) BY FS_Subset
  <2>2. CASE s = {}
    <3>1. SumFunctionOnSet(f, s) = 0 /\ SumFunctionOnSet(g, s) = 0 BY <2>1, <2>2, SumStep
    <3>. QED BY <2>2, <3>1
  <2>3. CASE s # {}
    <3>1. PICK x \in s : x = Pick(s) BY <2>3 DEF Pick
    <3>2. s \ {x} \in Good BY <1>1
    <3>3. PICK a \in Nat : a = SumFunctionOnSet(f, s \ {x}) BY <3>2
    <3>4. /\ SumFunctionOnSet(f, s) = f[x] + a
          /\ SumFunctionOnSet(g, s) = g[x] + SumFunctionOnSet(g, s \ {x})
      BY <2>1, <2>3, <3>1, <3>3, SumStep
    <3>5. SumFunctionOnSet(g, s \ {x}) = a + (IF y \in s \ {x} THEN 1 ELSE 0)
      BY <3>2, <3>3
    <3>6. f[x] \in Nat /\ g[x] \in Nat OBVIOUS
    <3>7. CASE x = y BY <3>3, <3>4, <3>5, <3>6, <3>7
    <3>8. CASE x # y
      <4>1. g[x] = f[x] BY <3>8
      <4>. QED BY <3>3, <3>4, <3>5, <3>6, <3>8, <4>1
    <3>. QED BY <3>7, <3>8
  <2>. QED BY <2>2, <2>3
<1> HIDE DEF Good
<1>2. S \in Good BY <1>1, SubsetInduction
<1>. QED BY <1>2 DEF Good, SumFunction

=============================================================================
