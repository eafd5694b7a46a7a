-------------------------- MODULE InductionLemmas --------------------------
(***************************************************************************)
(* Induction for the proofs of this project.  The induction theorems of    *)
(* the library are about an operator; here a formula that fails somewhere  *)
(* fails at a least place, which is a fact about a set: LeastNatural for   *)
(* numbers, SmallestSubset for finite sets.  With these, what the sum of   *)
(* FiniteSetsExt computes: that it exists, that the order of the elements  *)
(* makes no difference, and that it grows with the set.                    *)
(***************************************************************************)
EXTENDS Integers, FiniteSets, FiniteSetsExt, FiniteSetTheorems, WellFoundedInduction, TLAPS

-----------------------------------------------------------------------------
(* Numbers.                                                                *)

\* A set of numbers has a least one.
LEMMA LeastNatural ==
    ASSUME NEW S, S \subseteq Nat, S # {}
    PROVE  \E x \in S : \A y \in S : x <= y
  <1> DEFINE R == {ss \in Nat \X Nat : ss[1] < ss[2]}
  <1>1. IsWellFoundedOn(R, Nat)
    BY NatLessThanWellFounded DEF OpToRel
  <1>2. PICK x \in S : \A y \in S : ~(<<y, x>> \in R)
    <2> HIDE DEF R
    <2> QED
      BY <1>1, WFMin
  <1>3. \A y \in S : ~(y < x)
    BY <1>2
  <1> QED
    BY <1>3

\* The least and the greatest of a set are in it.
LEMMA MinIsMember ==
    ASSUME NEW S, S \subseteq Nat, S # {}
    PROVE  Min(S) \in S
  BY LeastNatural DEF Min

LEMMA MaxIsMember ==
    ASSUME NEW S, NEW bound \in Nat, S \subseteq 1 .. bound, S # {}
    PROVE  Max(S) \in S
  <1> DEFINE distances == {x \in Nat : bound - x \in S}
  <1>1. PICK y \in S : TRUE
    OBVIOUS
  <1>2. bound - y \in distances
    BY <1>1
  <1> HIDE DEF distances
  <1>3. PICK x \in distances : \A z \in distances : x <= z
    BY <1>2, LeastNatural DEF distances
  <1>4. bound - x \in S
    BY DEF distances
  <1>5. ASSUME NEW z \in S PROVE bound - x >= z
    <2>1. bound - z \in distances
      BY DEF distances
    <2>2. x <= bound - z /\ x \in Nat /\ z \in Nat
      BY <2>1, <1>3 DEF distances
    <2> QED
      BY <2>2
  <1> QED
    BY <1>4, <1>5 DEF Max

-----------------------------------------------------------------------------
(* Finite sets.                                                            *)

\* A set without one of its elements is smaller.
LEMMA SmallerSet ==
    ASSUME NEW U, IsFiniteSet(U), NEW x \in U
    PROVE  /\ IsFiniteSet(U \ {x}) /\ Cardinality(U) \in Nat /\ Cardinality(U \ {x}) \in Nat
           /\ Cardinality(U \ {x}) < Cardinality(U)
  <1>1. Cardinality(U) \in Nat /\ IsFiniteSet(U \ {x}) /\ Cardinality(U \ {x}) = Cardinality(U) - 1
    BY FS_RemoveElement, FS_CardinalityType
  <1>2. Cardinality(U \ {x}) \in Nat
    BY <1>1, FS_CardinalityType
  <1> QED
    BY <1>1, <1>2

\* So is every part of it.
LEMMA ProperSubset ==
    ASSUME NEW T, IsFiniteSet(T), NEW W, W \subseteq T, W # T
    PROVE  /\ IsFiniteSet(W) /\ Cardinality(W) \in Nat /\ Cardinality(T) \in Nat
           /\ Cardinality(W) < Cardinality(T)
  <1>1. PICK x \in T : x \notin W
    OBVIOUS
  <1>2. /\ Cardinality(T \ {x}) < Cardinality(T) /\ IsFiniteSet(T \ {x})
        /\ Cardinality(T \ {x}) \in Nat /\ Cardinality(T) \in Nat
    BY SmallerSet
  <1>3. W \subseteq T \ {x}
    BY <1>1
  <1>4. IsFiniteSet(W) /\ Cardinality(W) <= Cardinality(T \ {x})
    BY <1>2, <1>3, FS_Subset
  <1>5. Cardinality(W) \in Nat
    BY <1>4, FS_CardinalityType
  <1> QED
    BY <1>2, <1>4, <1>5

\* A property of the finite subsets of S that does not hold fails for a smallest one.
LEMMA SmallestSubset ==
    ASSUME NEW S, IsFiniteSet(S), NEW bad, bad \subseteq SUBSET S, bad # {}
    PROVE  \E T \in bad : \A U \in bad : Cardinality(T) <= Cardinality(U)
  <1> DEFINE sizes == {Cardinality(U) : U \in bad}
  <1>1. \A U \in bad : Cardinality(U) \in Nat
    BY FS_Subset, FS_CardinalityType
  <1>2. sizes \subseteq Nat /\ sizes # {}
    BY <1>1
  <1>3. PICK n \in sizes : \A k \in sizes : n <= k
    <2> HIDE DEF sizes
    <2> QED
      BY <1>2, LeastNatural
  <1> QED
    BY <1>3

-----------------------------------------------------------------------------
(* MapThenSumSet takes an element, any one, and goes on with the rest: it  *)
(* is a function on the subsets of a set, defined by recursion.            *)

\* The sum of f over S.
SumOf(f, S) == MapThenSumSet(LAMBDA r : f[r], S)

\* The element MapThenSumSet takes.
Pick(U) == CHOOSE x \in U : TRUE

\* g gives every subset of S its sum.
Sums(f, S, g) ==
    g = [U \in SUBSET S |-> IF U = {} THEN 0 ELSE f[Pick(U)] + g[U \ {Pick(U)}]]

\* The definition of the library, as it is.
LEMMA SumOfUnfold ==
    ASSUME NEW f, NEW S
    PROVE  SumOf(f, S) = (CHOOSE g : Sums(f, S, g))[S]
  BY Zenon DEF SumOf, MapThenSumSet, MapThenFoldSet, Sums, Pick

LEMMA PickIsMember ==
    ASSUME NEW U, U # {}
    PROVE  Pick(U) \in U
  BY DEF Pick

\* What the equation says of the empty set, and of any other.
LEMMA SumsEmpty ==
    ASSUME NEW f, NEW S, NEW g, Sums(f, S, g)
    PROVE  g[{}] = 0
  <1>1. {} \in SUBSET S
    OBVIOUS
  <1> QED
    BY <1>1 DEF Sums

LEMMA SumsPick ==
    ASSUME NEW f, NEW S, NEW g, Sums(f, S, g), NEW U, U \subseteq S, U # {}
    PROVE  g[U] = f[Pick(U)] + g[U \ {Pick(U)}]
  <1>1. U \in SUBSET S
    OBVIOUS
  <1> QED
    BY <1>1 DEF Sums

\* Two solutions agree wherever both are defined.
LEMMA SumsUnique ==
    ASSUME NEW f, NEW S, IsFiniteSet(S), NEW T, T \subseteq S,
           NEW g, NEW h, Sums(f, S, g), Sums(f, T, h)
    PROVE  \A U \in SUBSET T : g[U] = h[U]
  <1> DEFINE bad == {U \in SUBSET T : g[U] # h[U]}
  <1> SUFFICES ASSUME bad # {} PROVE FALSE
    OBVIOUS
  <1>1. IsFiniteSet(T)
    BY FS_Subset
  <1>2. PICK U \in bad : \A V \in bad : Cardinality(U) <= Cardinality(V)
    <2>1. bad \subseteq SUBSET T
      OBVIOUS
    <2> HIDE DEF bad
    <2> QED
      BY <1>1, <2>1, SmallestSubset
  <1>3. U \in SUBSET T /\ U \in SUBSET S /\ g[U] # h[U]
    OBVIOUS
  <1>4. U # {}
    <2>1. g[{}] = 0 /\ h[{}] = 0
      BY SumsEmpty
    <2> QED
      BY <1>3, <2>1
  <1> DEFINE V == U \ {Pick(U)}
  <1>5. /\ Pick(U) \in U /\ V \in SUBSET T
        /\ g[U] = f[Pick(U)] + g[V] /\ h[U] = f[Pick(U)] + h[V]
    BY <1>3, <1>4, PickIsMember, SumsPick
  <1>6. V \in bad
    BY <1>3, <1>5
  <1>7. IsFiniteSet(U)
    BY <1>1, <1>3, FS_Subset
  <1>8. Cardinality(V) < Cardinality(U) /\ Cardinality(V) \in Nat /\ Cardinality(U) \in Nat
    BY <1>5, <1>7, SmallerSet
  <1> HIDE DEF V, bad
  <1> QED
    BY <1>2, <1>6, <1>8

\* The function that is defined by the recursion.
PartialSums(f, S) == CHOOSE g : Sums(f, S, g)

\* There is a solution: put together from those for smaller sets.
LEMMA SumsExist ==
    ASSUME NEW f, NEW S, IsFiniteSet(S)
    PROVE  Sums(f, S, PartialSums(f, S))
  <1> DEFINE bad == {T \in SUBSET S : ~\E g : Sums(f, T, g)}
  <1>1. ASSUME bad # {} PROVE FALSE
    <2>1. PICK T \in bad : \A V \in bad : Cardinality(T) <= Cardinality(V)
      <3> HIDE DEF bad
      <3>1. bad \subseteq SUBSET S
        BY DEF bad
      <3> QED
        BY <1>1, <3>1, SmallestSubset
    <2>2. T \in SUBSET S /\ ~\E g : Sums(f, T, g)
      OBVIOUS
    <2>3. IsFiniteSet(T)
      BY <2>2, FS_Subset
    <2> DEFINE val(U) == PartialSums(f, U)[U]
               g == [U \in SUBSET T |-> IF U = {} THEN 0 ELSE f[Pick(U)] + val(U \ {Pick(U)})]
    <2>4. ASSUME NEW W \in SUBSET T, W # T
          PROVE  IsFiniteSet(W) /\ Sums(f, W, PartialSums(f, W))
      <3>4. IsFiniteSet(W)
        BY <2>3, <2>4, ProperSubset
      <3>6. ~(Cardinality(T) <= Cardinality(W))
        BY <2>3, <2>4, ProperSubset
      <3>7. W \in SUBSET S
        BY <2>2
      <3>8. W \notin bad
        BY <2>1, <3>6
      <3>9. \E h : Sums(f, W, h)
        BY <3>7, <3>8
      <3> QED
        BY <3>4, <3>9 DEF PartialSums
    <2>5. ASSUME NEW W \in SUBSET T, W # T
          PROVE  g[W] = val(W)
      <3> DEFINE h == PartialSums(f, W)
      <3>1. IsFiniteSet(W) /\ Sums(f, W, h)
        BY <2>4, <2>5
      <3>2. CASE W = {}
        <4>1. h[W] = 0
          <5>1. W \in SUBSET W
            OBVIOUS
          <5> HIDE DEF h
          <5> QED
            BY <3>1, <3>2, <5>1, SumsEmpty
        <4> QED
          BY <3>2, <4>1
      <3>3. CASE W # {}
        <4> DEFINE V == W \ {Pick(W)}
        <4>1. Pick(W) \in W /\ V \in SUBSET W /\ h[W] = f[Pick(W)] + h[V]
          <5>1. W \in SUBSET W
            OBVIOUS
          <5> HIDE DEF h
          <5> QED
            BY <3>1, <3>3, <5>1, PickIsMember, SumsPick
        <4>2. V \in SUBSET T /\ V # T
          BY <4>1, <2>5
        <4>3. Sums(f, V, PartialSums(f, V))
          BY <2>4, <4>2
        <4>4. h[V] = PartialSums(f, V)[V]
          BY <3>1, <4>1, <4>3, SumsUnique
        <4>5. g[W] = f[Pick(W)] + val(V)
          BY <3>3
        <4> QED
          BY <4>1, <4>4, <4>5
      <3> QED
        BY <3>2, <3>3
    <2>6. ASSUME NEW U \in SUBSET T, U # {}
          PROVE  val(U \ {Pick(U)}) = g[U \ {Pick(U)}]
      <3>1. Pick(U) \in U
        BY <2>6, PickIsMember
      <3>2. U \ {Pick(U)} \in SUBSET T /\ U \ {Pick(U)} # T
        BY <3>1
      <3> HIDE DEF val, g
      <3> QED
        BY <3>2, <2>5
    <2>7. g = [U \in SUBSET T |-> IF U = {} THEN 0 ELSE f[Pick(U)] + g[U \ {Pick(U)}]]
      BY <2>6
    <2>8. Sums(f, T, g)
      <3> HIDE DEF g
      <3> QED
        BY <2>7 DEF Sums
    <2> QED
      BY <2>2, <2>8
  <1>2. \E g : Sums(f, S, g)
    BY <1>1
  <1> QED
    BY <1>2 DEF PartialSums

LEMMA SumOfEmpty ==
    ASSUME NEW f
    PROVE  SumOf(f, {}) = 0
  <1> DEFINE g == PartialSums(f, {})
  <1>1. Sums(f, {}, g) /\ {} \in SUBSET {}
    BY SumsExist, FS_EmptySet
  <1>2. SumOf(f, {}) = g[{}]
    BY SumOfUnfold DEF PartialSums
  <1> HIDE DEF g
  <1> QED
    BY <1>1, <1>2, SumsEmpty

LEMMA SumOfPick ==
    ASSUME NEW f, NEW S, IsFiniteSet(S), S # {}
    PROVE  SumOf(f, S) = f[Pick(S)] + SumOf(f, S \ {Pick(S)})
  <1> DEFINE g == PartialSums(f, S)
             T == S \ {Pick(S)}
             h == PartialSums(f, T)
  <1>1. Pick(S) \in S /\ IsFiniteSet(T) /\ T \in SUBSET S /\ T \in SUBSET T /\ S \in SUBSET S
    BY PickIsMember, SmallerSet
  <1>2. Sums(f, S, g) /\ Sums(f, T, h)
    BY <1>1, SumsExist
  <1>3. SumOf(f, S) = g[S] /\ SumOf(f, T) = h[T]
    BY SumOfUnfold DEF PartialSums
  <1> HIDE DEF g, h
  <1>4. g[S] = f[Pick(S)] + g[T]
    BY <1>1, <1>2, SumsPick
  <1>5. g[T] = h[T]
    <2> HIDE DEF T
    <2> QED
      BY <1>1, <1>2, SumsUnique
  <1> QED
    BY <1>3, <1>4, <1>5

\* The sum is a number, and does not depend on the order.
LEMMA SumOfStep ==
    ASSUME NEW S, IsFiniteSet(S), NEW f, \A x \in S : f[x] \in Nat
    PROVE  /\ SumOf(f, S) \in Nat
           /\ \A x \in S : SumOf(f, S) = f[x] + SumOf(f, S \ {x})
  <1> DEFINE good(T) == /\ SumOf(f, T) \in Nat
                        /\ \A x \in T : SumOf(f, T) = f[x] + SumOf(f, T \ {x})
             bad == {T \in SUBSET S : ~good(T)}
  <1>1. ASSUME bad # {} PROVE FALSE
    <2>1. PICK T \in bad : \A V \in bad : Cardinality(T) <= Cardinality(V)
      <3> HIDE DEF bad
      <3>1. bad \subseteq SUBSET S
        BY DEF bad
      <3> QED
        BY <1>1, <3>1, SmallestSubset
    <2>2. T \in SUBSET S /\ ~good(T)
      OBVIOUS
    <2>3. IsFiniteSet(T)
      BY <2>2, FS_Subset
    <2>4. ASSUME NEW V \in SUBSET T, V # T PROVE good(V)
      <3>1. V \in SUBSET S /\ ~(Cardinality(T) <= Cardinality(V))
        BY <2>2, <2>3, <2>4, ProperSubset
      <3>2. V \notin bad
        <4> HIDE DEF bad
        <4> QED
          BY <2>1, <3>1
      <3> HIDE DEF good
      <3> QED
        BY <3>1, <3>2
    <2>5. T # {}
      BY <2>2, SumOfEmpty
    <2> DEFINE c == Pick(T)
    <2>6. c \in T /\ f[c] \in Nat
      BY <2>2, <2>5, PickIsMember
    <2>7. SumOf(f, T) = f[c] + SumOf(f, T \ {c})
      BY <2>3, <2>5, SumOfPick
    <2> HIDE DEF c
    <2>8. SumOf(f, T) \in Nat
      <3>1. SumOf(f, T \ {c}) \in Nat
        BY <2>4, <2>6
      <3> QED
        BY <2>6, <2>7, <3>1
    <2>9. ASSUME NEW x \in T PROVE SumOf(f, T) = f[x] + SumOf(f, T \ {x})
      <3>1. CASE x = c
        BY <2>7, <3>1
      <3>2. CASE x # c
        <4>1. SumOf(f, T \ {c}) = f[x] + SumOf(f, (T \ {c}) \ {x})
          BY <2>4, <2>6, <3>2
        <4>2. SumOf(f, T \ {x}) = f[c] + SumOf(f, (T \ {x}) \ {c})
          BY <2>4, <2>6, <3>2
        <4>3. (T \ {c}) \ {x} = (T \ {x}) \ {c}
          OBVIOUS
        <4> DEFINE rest == SumOf(f, (T \ {x}) \ {c})
        <4>4. f[x] \in Nat
          BY <2>2
        <4>5. (T \ {x}) \ {c} \in SUBSET T /\ (T \ {x}) \ {c} # T
          OBVIOUS
        <4>6. rest \in Nat
          BY <2>4, <4>5
        <4> HIDE DEF rest
        <4>7. SumOf(f, T) = f[c] + (f[x] + rest) /\ SumOf(f, T \ {x}) = f[c] + rest
          BY <2>7, <4>1, <4>2, <4>3 DEF rest
        <4> QED
          BY <2>6, <4>4, <4>6, <4>7
      <3> QED
        BY <3>1, <3>2
    <2> QED
      BY <2>2, <2>8, <2>9
  <1>2. S \in SUBSET S /\ S \notin bad
    <2> HIDE DEF bad
    <2> QED BY <1>1
  <1> QED
    BY <1>2

\* A part has no larger sum.
LEMMA SumOfPart ==
    ASSUME NEW S, IsFiniteSet(S), NEW f, \A x \in S : f[x] \in Nat, NEW T, T \subseteq S
    PROVE  SumOf(f, T) <= SumOf(f, S)
  <1> DEFINE bad == {U \in SUBSET S : ~(SumOf(f, S \ U) <= SumOf(f, S))}
  <1>1. \A U \in SUBSET S : SumOf(f, S \ U) \in Nat
    <2>1. ASSUME NEW U \in SUBSET S PROVE SumOf(f, S \ U) \in Nat
      <3>1. IsFiniteSet(S \ U) /\ \A x \in S \ U : f[x] \in Nat
        BY FS_Subset
      <3> QED
        BY <3>1, SumOfStep
    <2> QED
      BY <2>1
  <1>2. ASSUME bad # {} PROVE FALSE
    <2>1. PICK U \in bad : \A V \in bad : Cardinality(U) <= Cardinality(V)
      <3>1. bad \subseteq SUBSET S
        OBVIOUS
      <3> HIDE DEF bad
      <3> QED
        BY <1>2, <3>1, SmallestSubset
    <2>2. U \in SUBSET S /\ ~(SumOf(f, S \ U) <= SumOf(f, S))
      OBVIOUS
    <2>3. U # {}
      <3>1. S \ {} = S /\ SumOf(f, S) \in Nat
        BY SumOfStep
      <3> QED
        BY <2>2, <3>1
    <2>4. PICK x \in U : TRUE
      BY <2>3
    <2> DEFINE V == U \ {x}
    <2>5. IsFiniteSet(U)
      BY <2>2, FS_Subset
    <2>6. V \in SUBSET S /\ ~(Cardinality(U) <= Cardinality(V))
      BY <2>2, <2>5, SmallerSet
    <2>7. V \notin bad
      <3> HIDE DEF bad, V
      <3> QED
        BY <2>1, <2>6
    <2>8. SumOf(f, S \ V) <= SumOf(f, S)
      BY <2>6, <2>7
    <2>9. IsFiniteSet(S \ V) /\ x \in S \ V /\ (S \ V) \ {x} = S \ U /\ f[x] \in Nat
      BY <2>2, FS_Subset
    <2>10. SumOf(f, S \ V) = f[x] + SumOf(f, (S \ V) \ {x})
      <3> HIDE DEF V
      <3>1. \A y \in S \ V : f[y] \in Nat
        OBVIOUS
      <3> QED
        BY <2>9, <3>1, SumOfStep
    <2>11. SumOf(f, S \ V) = f[x] + SumOf(f, S \ U)
      BY <2>9, <2>10
    <2>12. SumOf(f, S \ V) \in Nat /\ SumOf(f, S \ U) \in Nat
      BY <1>1, <2>2, <2>6
    <2>13. SumOf(f, S) \in Nat
      BY SumOfStep
    <2> HIDE DEF V
    <2> QED
      BY <2>2, <2>8, <2>9, <2>11, <2>12, <2>13
  <1>3. S \ T \in SUBSET S /\ S \ (S \ T) = T
    OBVIOUS
  <1>4. S \ T \notin bad
    <2> HIDE DEF bad
    <2> QED
      BY <1>2
  <1> QED
    BY <1>3, <1>4

\* One more element.
LEMMA SumOfJoin ==
    ASSUME NEW S, IsFiniteSet(S), NEW f, \A x \in S : f[x] \in Nat, NEW y, y \notin S, f[y] \in Nat
    PROVE  IsFiniteSet(S \cup {y}) /\ SumOf(f, S \cup {y}) = SumOf(f, S) + f[y]
  <1> DEFINE T == S \cup {y}
  <1>1. IsFiniteSet(T) /\ y \in T /\ T \ {y} = S /\ \A x \in T : f[x] \in Nat
    BY FS_AddElement
  <1> HIDE DEF T
  <1>2. SumOf(f, T) = f[y] + SumOf(f, T \ {y})
    BY <1>1, SumOfStep
  <1>3. SumOf(f, S) \in Nat
    BY SumOfStep
  <1> QED
    BY <1>1, <1>2, <1>3 DEF T

\* What holds of 0, and of every number up to n when it holds of the one before.
LEMMA UpTo ==
    ASSUME NEW n \in Nat, NEW good, 0 \in good, \A i \in 1 .. n : i - 1 \in good => i \in good
    PROVE  \A i \in 0 .. n : i \in good
  <1> DEFINE bad == {i \in 0 .. n : i \notin good}
  <1>1. ASSUME bad # {} PROVE FALSE
    <2>1. bad \subseteq Nat
      OBVIOUS
    <2>2. PICK x \in bad : \A y \in bad : x <= y
      <3> HIDE DEF bad
      <3> QED
        BY <1>1, <2>1, LeastNatural
    <2>3. x \in 1 .. n /\ x - 1 \in 0 .. n
      OBVIOUS
    <2>4. x - 1 \notin bad
      <3> HIDE DEF bad
      <3> QED
        BY <2>1, <2>2, <2>3
    <2> QED
      BY <2>3, <2>4
  <1> QED
    BY <1>1

-----------------------------------------------------------------------------
(* FoldLeft takes the greatest index of a set of indices, and goes on with *)
(* the rest: a function on sets, too.                                      *)

\* g gives every set of the first m indices what the fold makes of it.
FoldOf(g, m, base, step) ==
    \A s \in SUBSET (1 .. m) :
        g[s] = IF s = {} THEN base ELSE step[<<g[s \ {Max(s)}], Max(s)>>]

\* The turn a fold takes first is the last of the prefix.
LEMMA GreatestOfPrefix ==
    ASSUME NEW i \in Nat, i # 0
    PROVE  Max(1 .. i) = i /\ (1 .. i) \ {i} = 1 .. (i - 1)
  <1>1. i \in 1 .. i /\ 1 .. i \subseteq 1 .. i /\ 1 .. i # {}
    OBVIOUS
  <1>2. \A x \in 1 .. i : (\A y \in 1 .. i : x >= y) => x = i
    OBVIOUS
  <1>3. \A y \in 1 .. i : i >= y
    OBVIOUS
  <1>4. Max(1 .. i) = i
    BY <1>1, <1>2, <1>3 DEF Max
  <1> QED
    BY <1>4

\* There is a function that does what the library chooses one to do.
LEMMA FoldExists ==
    ASSUME NEW n \in Nat, NEW A, NEW base \in A, NEW step \in [A \X (1 .. n) -> A]
    PROVE  \E g \in [SUBSET (1 .. n) -> A] : FoldOf(g, n, base, step)
  <1> DEFINE good == {m \in 0 .. n : \E g \in [SUBSET (1 .. m) -> A] : FoldOf(g, m, base, step)}
  <1>1. 0 \in good
    <2> DEFINE g == [s \in SUBSET (1 .. 0) |-> base]
    <2>1. g \in [SUBSET (1 .. 0) -> A] /\ FoldOf(g, 0, base, step)
      <3>1. 1 .. 0 = {}
        OBVIOUS
      <3> QED
        BY <3>1 DEF FoldOf
    <2> QED
      BY <2>1
  <1>2. ASSUME NEW m \in 1 .. n, m - 1 \in good PROVE m \in good
    <2>1. PICK h \in [SUBSET (1 .. m - 1) -> A] : FoldOf(h, m - 1, base, step)
      BY <1>2
    <2> DEFINE g == [s \in SUBSET (1 .. m) |->
                        IF m \in s THEN step[<<h[s \ {m}], m>>] ELSE h[s]]
    <2>2. ASSUME NEW s \in SUBSET (1 .. m)
          PROVE  s \ {m} \in SUBSET (1 .. m - 1)
      OBVIOUS
    <2>3. ASSUME NEW s \in SUBSET (1 .. m), m \in s
          PROVE  Max(s) = m /\ g[s \ {Max(s)}] = h[s \ {m}] /\ g[s] = step[<<h[s \ {m}], m>>]
      <3>1. Max(s) = m
        <4>1. \A x \in s : (\A y \in s : x >= y) => x = m
          BY <2>3
        <4>2. \A y \in s : m >= y
          OBVIOUS
        <4> QED
          BY <2>3, <4>1, <4>2 DEF Max
      <3> QED
        BY <3>1, <2>3
    <2>4. ASSUME NEW s \in SUBSET (1 .. m), m \notin s
          PROVE  /\ s \in SUBSET (1 .. m - 1) /\ g[s] = h[s]
                 /\ s # {} => g[s \ {Max(s)}] = h[s \ {Max(s)}]
      <3>1. s \in SUBSET (1 .. m - 1) /\ g[s] = h[s]
        BY <2>4
      <3>2. s \ {Max(s)} \in SUBSET (1 .. m) /\ m \notin s \ {Max(s)}
        BY <2>4
      <3> QED
        BY <3>1, <3>2
    <2>5. g \in [SUBSET (1 .. m) -> A]
      <3>1. ASSUME NEW s \in SUBSET (1 .. m) PROVE g[s] \in A
        <4>1. CASE m \in s
          <5>1. h[s \ {m}] \in A
            BY <2>2
          <5> QED
            BY <4>1, <5>1
        <4>2. CASE m \notin s
          BY <4>2, <2>4
        <4> QED
          BY <4>1, <4>2
      <3> QED
        BY <3>1
    <2>6. FoldOf(g, m, base, step)
      <3>1. ASSUME NEW s \in SUBSET (1 .. m)
            PROVE  g[s] = IF s = {} THEN base ELSE step[<<g[s \ {Max(s)}], Max(s)>>]
        <4> HIDE DEF g
        <4>1. CASE m \in s
          BY <4>1, <2>3
        <4>2. CASE m \notin s
          BY <4>2, <2>1, <2>4 DEF FoldOf
        <4> QED
          BY <4>1, <4>2
      <3> HIDE DEF g
      <3> QED
        BY <3>1 DEF FoldOf
    <2> HIDE DEF g
    <2> QED
      BY <2>5, <2>6
  <1> HIDE DEF good
  <1>3. n \in good
    BY <1>1, <1>2, UpTo
  <1> QED
    BY <1>3 DEF good

\* The same of a function that need not stay within A, as long as it does.
FoldWithin(g, n, A, base, step) ==
    /\ g[{}] = base
    /\ \A s \in SUBSET (1 .. n) :
         s # {} /\ g[s \ {Max(s)}] \in A => g[s] = step[<<g[s \ {Max(s)}], Max(s)>>]

\* p is what the fold has after each of n turns.
FoldTurns(p, n, A, base, step, result) ==
    /\ p \in [0 .. n -> A] /\ p[0] = base /\ p[n] = result
    /\ \A i \in 1 .. n : p[i] = step[<<p[i - 1], i>>]

\* Prefix by prefix: what a fold over n elements has after i of them.
LEMMA FoldPrefixes ==
    ASSUME NEW n \in Nat, NEW A, NEW base \in A, NEW step \in [A \X (1 .. n) -> A],
           NEW g, FoldWithin(g, n, A, base, step)
    PROVE  \E p : FoldTurns(p, n, A, base, step, g[1 .. n])
  <1> DEFINE p == [i \in 0 .. n |-> g[1 .. i]]
             good == {i \in 0 .. n : g[1 .. i] \in A}
  <1>1. g[1 .. 0] = base
    <2>1. 1 .. 0 = {}
      OBVIOUS
    <2> QED
      BY <2>1 DEF FoldWithin
  <1>2. ASSUME NEW i \in 1 .. n, g[1 .. (i - 1)] \in A
        PROVE  g[1 .. i] = step[<<g[1 .. (i - 1)], i>>] /\ g[1 .. i] \in A
    <2>1. Max(1 .. i) = i /\ (1 .. i) \ {i} = 1 .. (i - 1) /\ 1 .. i \in SUBSET (1 .. n) /\ 1 .. i # {}
      BY GreatestOfPrefix
    <2>3. g[1 .. i] = step[<<g[1 .. (i - 1)], i>>]
      BY <1>2, <2>1 DEF FoldWithin
    <2> QED
      BY <1>2, <2>3
  <1>3. \A i \in 0 .. n : g[1 .. i] \in A
    <2>1. 0 \in good
      BY <1>1
    <2>2. ASSUME NEW i \in 1 .. n, i - 1 \in good PROVE i \in good
      <3>1. g[1 .. (i - 1)] \in A
        BY <2>2
      <3>2. g[1 .. i] \in A
        BY <1>2, <3>1
      <3> QED
        BY <3>2
    <2>3. \A i \in 0 .. n : i \in good
      <3> HIDE DEF good
      <3> QED
        BY <2>1, <2>2, UpTo
    <2> QED
      BY <2>3
  <1>4. p \in [0 .. n -> A] /\ p[0] = base /\ p[n] = g[1 .. n]
    BY <1>1, <1>3
  <1>5. ASSUME NEW i \in 1 .. n PROVE p[i] = step[<<p[i - 1], i>>]
    <2>1. p[i] = g[1 .. i] /\ p[i - 1] = g[1 .. (i - 1)] /\ p[i - 1] \in A
      BY <1>4
    <2> HIDE DEF p
    <2> QED
      BY <1>2, <2>1
  <1> HIDE DEF p
  <1> QED
    BY <1>4, <1>5 DEF FoldTurns

\* There is a computation of n turns.
LEMMA TurnsExist ==
    ASSUME NEW n \in Nat, NEW A, NEW base \in A, NEW step \in [A \X (1 .. n) -> A]
    PROVE  \E p : FoldTurns(p, n, A, base, step, p[n])
  <1>1. PICK g \in [SUBSET (1 .. n) -> A] : FoldOf(g, n, base, step)
    BY FoldExists
  <1>2. {} \in SUBSET (1 .. n)
    OBVIOUS
  <1>3. FoldWithin(g, n, A, base, step)
    BY <1>1, <1>2 DEF FoldOf, FoldWithin
  <1>4. PICK p : FoldTurns(p, n, A, base, step, g[1 .. n])
    BY <1>3, FoldPrefixes
  <1>5. FoldTurns(p, n, A, base, step, p[n])
    BY <1>4 DEF FoldTurns
  <1> QED
    BY <1>5

=============================================================================
