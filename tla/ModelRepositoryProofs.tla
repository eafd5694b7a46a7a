------------------------ MODULE ModelRepositoryProofs ------------------------
(***************************************************************************)
(* What is proved of ModelRepository, for directory names of any length, a *)
(* finite number of them, and any files: that sorting versions by length   *)
(* and text sorts them by number, that the scan serves the highest version *)
(* there was all along (ScanServesHighest), and that a lookup finds what   *)
(* the scan found (ResolveAgreesWithScan).                                 *)
(***************************************************************************)
EXTENDS ModelRepository, InductionLemmas, SequenceTheorems

-----------------------------------------------------------------------------
(* A first of many.                                                        *)

\* R puts any two elements of S in an order, and is transitive on them.
Orders(R, S) ==
    /\ \A x, y \in S : x = y \/ <<x, y>> \in R \/ <<y, x>> \in R
    /\ \A x, y, z \in S : <<x, y>> \in R /\ <<y, z>> \in R => <<x, z>> \in R

\* m is in front of all others of S.
FirstOf(m, R, S) == m \in S /\ \A x \in S \ {m} : <<m, x>> \in R

\* A finite set that is in an order has a first element.
LEMMA FirstOfMany ==
    ASSUME NEW S, IsFiniteSet(S), S # {}, NEW R, Orders(R, S)
    PROVE  \E m : FirstOf(m, R, S)
  <1> DEFINE bad == {T \in SUBSET S : T # {} /\ ~\E m : FirstOf(m, R, T)}
  <1>1. SUFFICES ASSUME bad # {} PROVE FALSE
    <2>1. S \notin bad
      BY <1>1
    <2> QED
      BY <2>1
  <1>2. bad \subseteq SUBSET S
    OBVIOUS
  <1>3. PICK T \in bad : \A U \in bad : Cardinality(T) <= Cardinality(U)
    <2> HIDE DEF bad
    <2> QED
      BY <1>1, <1>2, SmallestSubset
  <1>4. T \subseteq S /\ T # {} /\ IsFiniteSet(T) /\ ~\E m : FirstOf(m, R, T)
    <2>1. T \subseteq S /\ T # {} /\ ~\E m : FirstOf(m, R, T)
      BY <1>3
    <2> QED
      BY <2>1, FS_Subset
  <1>5. PICK x \in T : TRUE
    BY <1>4
  <1> DEFINE U == T \ {x}
  <1>6. U \notin bad
    <2>1. IsFiniteSet(T) /\ Cardinality(T) \in Nat /\ x \in T
      BY <1>4, <1>5, FS_CardinalityType
    <2>2. Cardinality(U) = Cardinality(T) - 1
      <3> HIDE DEF bad
      <3> QED
        BY <2>1, FS_RemoveElement
    <2> HIDE DEF U, bad
    <2> QED
      BY <1>3, <2>1, <2>2
  <1>7. CASE U = {}
    <2>1. FirstOf(x, R, T)
      BY <1>5, <1>7 DEF FirstOf
    <2> QED
      BY <1>4, <2>1
  <1>8. CASE U # {}
    <2>1. PICK m : FirstOf(m, R, U)
      BY <1>4, <1>6, <1>8
    <2>2. m \in S /\ x \in S /\ m # x /\ \A y \in T : y \in S
      BY <1>4, <1>5, <2>1 DEF FirstOf
    <2>3. CASE <<m, x>> \in R
      <3>1. FirstOf(m, R, T)
        BY <2>1, <2>3 DEF FirstOf
      <3> QED
        BY <1>4, <3>1
    <2>4. CASE <<x, m>> \in R
      <3>1. FirstOf(x, R, T)
        BY <1>5, <2>1, <2>2, <2>4 DEF FirstOf, Orders
      <3> QED
        BY <1>4, <3>1
    <2> QED
      BY <2>2, <2>3, <2>4 DEF Orders
  <1> QED
    BY <1>7, <1>8

-----------------------------------------------------------------------------
(* Names.                                                                  *)

\* Where two names first differ.
DifferAt(s, t, i) ==
    /\ i \in DOMAIN t /\ (i \in DOMAIN s => s[i] < t[i])
    /\ \A j \in 1 .. i - 1 : j \in DOMAIN s /\ s[j] = t[j]

\* Two names are the same or one is before the other.
LEMMA SomeBefore ==
    ASSUME NEW s \in Seq(Nat), NEW t \in Seq(Nat), s # t
    PROVE  Before(s, t) \/ Before(t, s)
  <1> DEFINE m == Len(s)
             n == Len(t)
             agree(i) == i \in 1 .. m /\ i \in 1 .. n /\ s[i] = t[i]
             bad == {i \in Nat \ {0} : (i <= m \/ i <= n) /\ ~agree(i)}
  <1>1. m \in Nat /\ n \in Nat /\ DOMAIN s = 1 .. m /\ DOMAIN t = 1 .. n
    OBVIOUS
  <1>2. \A i \in 1 .. m : s[i] \in Nat
    OBVIOUS
  <1>3. \A i \in 1 .. n : t[i] \in Nat
    OBVIOUS
  <1>4. m = n /\ (\A i \in 1 .. m : s[i] = t[i]) => s = t
    OBVIOUS
  <1> HIDE DEF m, n
  <1>5. bad # {}
    <2> SUFFICES ASSUME bad = {} PROVE FALSE
      OBVIOUS
    <2>1. \A i \in Nat \ {0} : i <= m \/ i <= n => agree(i)
      OBVIOUS
    <2>2. m = n
      <3>1. m # 0 => agree(m)
        BY <1>1, <2>1
      <3>2. n # 0 => agree(n)
        BY <1>1, <2>1
      <3> QED
        BY <1>1, <3>1, <3>2
    <2>3. \A i \in 1 .. m : s[i] = t[i]
      BY <1>1, <2>1
    <2> QED
      BY <1>4, <2>2, <2>3
  <1>6. PICK i \in bad : \A k \in bad : i <= k
    <2>1. bad \subseteq Nat
      OBVIOUS
    <2> HIDE DEF bad
    <2> QED
      BY <1>5, <2>1, LeastNatural
  <1>7. i \in Nat \ {0} /\ (i <= m \/ i <= n) /\ ~agree(i)
    OBVIOUS
  <1>8. \A j \in 1 .. i - 1 : agree(j)
    <2> TAKE j \in 1 .. i - 1
    <2>1. j \in Nat \ {0} /\ j < i
      BY <1>7
    <2>2. j \notin bad
      <3> HIDE DEF bad
      <3> QED
        BY <1>6, <1>7, <2>1
    <2>3. j <= m \/ j <= n
      BY <1>1, <1>7, <2>1
    <2> HIDE DEF agree
    <2> QED
      BY <2>1, <2>2, <2>3
  <1> HIDE DEF bad
  <1>9. CASE i \in 1 .. m /\ i \in 1 .. n
    <2>1. s[i] < t[i] \/ t[i] < s[i]
      BY <1>2, <1>3, <1>7, <1>9
    <2>2. CASE s[i] < t[i]
      <3>1. DifferAt(s, t, i)
        BY <1>1, <1>8, <1>9, <2>2 DEF DifferAt
      <3> QED
        BY <3>1 DEF Before, DifferAt
    <2>3. CASE t[i] < s[i]
      <3>1. DifferAt(t, s, i)
        BY <1>1, <1>8, <1>9, <2>3 DEF DifferAt
      <3> QED
        BY <3>1 DEF Before, DifferAt
    <2> QED
      BY <2>1, <2>2, <2>3
  <1>10. CASE i \notin 1 .. m
    <2>1. i \in 1 .. n
      BY <1>1, <1>7, <1>10
    <2>2. DifferAt(s, t, i)
      BY <1>1, <1>8, <1>10, <2>1 DEF DifferAt
    <2> QED
      BY <2>2 DEF Before, DifferAt
  <1>11. CASE i \notin 1 .. n
    <2>1. i \in 1 .. m
      BY <1>1, <1>7, <1>11
    <2>2. DifferAt(t, s, i)
      BY <1>1, <1>8, <1>11, <2>1 DEF DifferAt
    <2> QED
      BY <2>2 DEF Before, DifferAt
  <1> QED
    BY <1>9, <1>10, <1>11

\* std::string's operator< is transitive.
LEMMA BeforeTransitive ==
    ASSUME NEW s \in Seq(Nat), NEW t \in Seq(Nat), NEW u \in Seq(Nat), Before(s, t), Before(t, u)
    PROVE  Before(s, u)
  <1> DEFINE a == DOMAIN s
             b == DOMAIN t
             c == DOMAIN u
  <1>1. PICK i : DifferAt(s, t, i)
    BY DEF Before, DifferAt
  <1>2. PICK k : DifferAt(t, u, k)
    BY DEF Before, DifferAt
  <1>3. /\ i \in b /\ (i \in a => s[i] < t[i])
        /\ \A j \in 1 .. i - 1 : j \in a /\ s[j] = t[j]
    BY <1>1 DEF DifferAt
  <1>4. /\ k \in c /\ (k \in b => t[k] < u[k])
        /\ \A j \in 1 .. k - 1 : j \in b /\ t[j] = u[j]
    BY <1>2 DEF DifferAt
  <1>5. i \in Nat \ {0} /\ k \in Nat \ {0}
    BY SMTT(30), <1>3, <1>4
  <1>6. \A x \in a : s[x] \in Nat
    OBVIOUS
  <1>7. \A x \in b : t[x] \in Nat
    OBVIOUS
  <1>8. \A x \in c : u[x] \in Nat
    OBVIOUS
  <1>9. \A x \in Nat \ {0} : \A y \in b : x < y => x \in b
    <2>1. Len(t) \in Nat /\ b = 1 .. Len(t)
      OBVIOUS
    <2> HIDE DEF b
    <2> QED
      BY <2>1
  <1>14. \A x \in Nat \ {0} : \A y \in c : x < y => x \in c
    <2>1. Len(u) \in Nat /\ c = 1 .. Len(u)
      OBVIOUS
    <2> HIDE DEF c
    <2> QED
      BY <2>1
  <1>10. CASE i < k
    <2>1. i \in 1 .. k - 1 /\ t[i] = u[i]
      BY <1>4, <1>5, <1>10
    <2>2. i \in c
      BY <1>4, <1>5, <1>10, <1>14
    <2>3. i \in a => s[i] < u[i]
      BY <1>3, <2>1
    <2>4. \A j \in 1 .. i - 1 : j \in a /\ s[j] = u[j]
      <3> TAKE j \in 1 .. i - 1
      <3>1. j \in 1 .. k - 1
        BY <1>5, <1>10
      <3> QED
        BY <1>3, <1>4, <3>1
    <2> QED
      BY <2>2, <2>3, <2>4 DEF Before
  <1>11. CASE k < i
    <2>1. k \in 1 .. i - 1 /\ s[k] = t[k] /\ k \in a
      BY <1>3, <1>5, <1>11
    <2>2. k \in b
      BY <1>3, <1>5, <1>9, <1>11
    <2>3. s[k] < u[k]
      BY <1>4, <2>1, <2>2
    <2>4. \A j \in 1 .. k - 1 : j \in a /\ s[j] = u[j]
      <3> TAKE j \in 1 .. k - 1
      <3>1. j \in 1 .. i - 1
        BY <1>5, <1>11
      <3> QED
        BY <1>3, <1>4, <3>1
    <2> QED
      BY <1>4, <2>3, <2>4 DEF Before
  <1>12. CASE i = k
    <2>1. k \in a => s[k] < u[k]
      <3> SUFFICES ASSUME k \in a PROVE s[k] < u[k]
        OBVIOUS
      <3>1. s[k] \in Nat /\ t[k] \in Nat /\ u[k] \in Nat /\ s[k] < t[k] /\ t[k] < u[k]
        BY <1>3, <1>4, <1>6, <1>7, <1>8, <1>12
      <3> QED
        BY <3>1
    <2>2. \A j \in 1 .. k - 1 : j \in a /\ s[j] = u[j]
      BY <1>3, <1>4, <1>12
    <2> QED
      BY <1>4, <2>1, <2>2 DEF Before
  <1> QED
    BY <1>5, <1>10, <1>11, <1>12

\* A group of directories has a first one.
LEMMA FirstNameIs ==
    ASSUME NEW names, names \subseteq RawNames, names # {}
    PROVE  FirstName(names) \in names
  <1> DEFINE R == {pair \in names \X names : Before(pair[1], pair[2])}
  <1>1. IsFiniteSet(names) /\ names \subseteq Seq(Nat)
    BY RepositoryAssumption, FS_Subset
  <1>2. Orders(R, names)
    BY <1>1, SomeBefore, BeforeTransitive DEF Orders
  <1>3. \A x, y : <<x, y>> \in R => Before(x, y)
    OBVIOUS
  <1> HIDE DEF R
  <1>4. PICK m : FirstOf(m, R, names)
    BY <1>1, <1>2, FirstOfMany
  <1>5. m \in names /\ \A other \in names \ {m} : Before(m, other)
    BY <1>3, <1>4 DEF FirstOf
  <1> QED
    BY <1>5 DEF FirstName

-----------------------------------------------------------------------------
(* Numbers.                                                                *)

\* p is what a name stands for, digit by digit.
Digits(p, raw) ==
    /\ p \in [0 .. Len(raw) -> Nat] /\ p[0] = 0 /\ p[Len(raw)] = Value(raw)
    /\ \A i \in 1 .. Len(raw) : p[i] = 10 * p[i - 1] + raw[i]

\* The number of a name can be followed digit by digit.
LEMMA ValueTurns ==
    ASSUME NEW raw \in Seq(Nat)
    PROVE  \E p : Digits(p, raw)
  <1> DEFINE n == Len(raw)
             A == Nat
             base == 0
             Turn(n0, d) == 10 * n0 + d
             Solves(g) == g = [s \in SUBSET DOMAIN raw |->
                                 IF s = {} THEN base ELSE Turn(g[s \ {Max(s)}], raw[Max(s)])]
             step == [a \in A \X (1 .. n) |-> Turn(a[1], raw[a[2]])]
             iter == CHOOSE g : Solves(g)
  <1>1. Value(raw) = iter[DOMAIN raw]
    BY Zenon DEF Value, FoldLeft, MapThenFoldSet
  <1>2. n \in Nat /\ DOMAIN raw = 1 .. n /\ base \in A
    OBVIOUS
  <1>3. \A a \in A, i \in 1 .. n : Turn(a, raw[i]) \in A
    OBVIOUS
  <1>4. step \in [A \X (1 .. n) -> A] /\ \A a \in A, i \in 1 .. n : step[<<a, i>>] = Turn(a, raw[i])
    <2> HIDE DEF Turn, A, n
    <2> QED
      BY <1>3
  <1> HIDE DEF n, A, base, step, Turn
  <1>5. \A s \in SUBSET (1 .. n) : s # {} => Max(s) \in 1 .. n /\ s \ {Max(s)} \in SUBSET (1 .. n)
    BY <1>2, MaxIsMember
  <1>6. PICK h \in [SUBSET (1 .. n) -> A] : FoldOf(h, n, base, step)
    BY <1>2, <1>4, FoldExists
  <1>7. Solves(h)
    BY <1>2, <1>4, <1>5, <1>6 DEF FoldOf
  <1>8. Solves(iter)
    <2> HIDE DEF Solves
    <2> QED
      BY <1>7
  <1> HIDE DEF iter
  <1>9. FoldWithin(iter, n, A, base, step)
    BY <1>2, <1>4, <1>5, <1>8 DEF FoldWithin
  <1> HIDE DEF Solves
  <1>10. PICK p : FoldTurns(p, n, A, base, step, iter[1 .. n])
    BY <1>2, <1>4, <1>9, FoldPrefixes
  <1>11. ASSUME NEW i \in 1 .. n PROVE p[i] = Turn(p[i - 1], raw[i])
    <2>1. p[i - 1] \in A /\ p[i] = step[<<p[i - 1], i>>]
      BY <1>2, <1>10 DEF FoldTurns
    <2> QED
      BY <1>4, <2>1
  <1> QED
    BY <1>1, <1>2, <1>10, <1>11 DEF Turn, n, A, base, FoldTurns, Digits

\* A version without zeros in front.
Canonical(v) ==
    /\ v \in Seq(Nat) /\ \A i \in DOMAIN v : v[i] \in 0 .. 9
    /\ Len(v) # 0 /\ (v[1] # 0 \/ Len(v) = 1)

\* v is the canonical version of the number a name stands for.
SameNumber(v, raw) == Canonical(v) /\ Value(v) = Value(raw)

\* Where the first digit is that is not zero.
NonZero(raw) == {i \in 1 .. Len(raw) : raw[i] # 0}

\* The canonical version, by the places that hold no zero.
LEMMA CanonicalVersionIs ==
    ASSUME NEW raw
    PROVE  CanonicalVersion(raw) =
             IF NonZero(raw) = {} THEN <<0>> ELSE SubSeq(raw, Min(NonZero(raw)), Len(raw))
  <1> DEFINE I == {i \in 1 .. Len(raw) : raw[i] # 0}
             first == IF I # {} THEN Min(I) ELSE 0
  <1>1. CanonicalVersion(raw) = IF first = 0 THEN <<0>> ELSE SubSeq(raw, first, Len(raw))
    BY Zenon DEF CanonicalVersion, SelectInSeq
  <1>2. I = NonZero(raw)
    BY DEF NonZero
  <1>3. I # {} => Min(I) # 0
    <2>1. I \subseteq Nat /\ 0 \notin I
      OBVIOUS
    <2> HIDE DEF I
    <2> QED
      BY <2>1, MinIsMember
  <1> HIDE DEF I
  <1> QED
    BY <1>1, <1>2, <1>3

\* Min of FiniteSetsExt, which CanonicalVersion rests on, takes the least.
LEMMA MinIsLeast ==
    ASSUME NEW S, S \subseteq Nat, S # {}
    PROVE  Min(S) \in S /\ \A y \in S : Min(S) <= y
  BY LeastNatural DEF Min

\* The number of a name that is all zeros.
LEMMA ZerosAreZero ==
    ASSUME NEW raw \in Seq(Nat), NEW p, Digits(p, raw), NEW n \in 0 .. Len(raw),
           \A i \in 1 .. n : raw[i] = 0
    PROVE  p[n] = 0
  <1> DEFINE good == {i \in 0 .. n : p[i] = 0}
  <1>1. n \in Nat /\ \A i \in 1 .. n : i \in 1 .. Len(raw) /\ i - 1 \in 0 .. n
    OBVIOUS
  <1>2. 0 \in good
    BY <1>1 DEF Digits
  <1>3. ASSUME NEW i \in 1 .. n, i - 1 \in good PROVE i \in good
    <2>1. p[i] = 10 * p[i - 1] + raw[i] /\ p[i - 1] = 0 /\ raw[i] = 0
      BY <1>1, <1>3 DEF Digits
    <2> QED
      BY <2>1
  <1> HIDE DEF good
  <1>4. \A i \in 0 .. n : i \in good
    BY <1>1, <1>2, <1>3, UpTo
  <1>5. n \in good
    BY <1>1, <1>4
  <1> QED
    BY <1>5 DEF good

\* Dropping zeros in front does not change the number.
LEMMA CanonicalIsSame ==
    ASSUME NEW raw \in Seq(Nat), IsNumericVersion(raw)
    PROVE  SameNumber(CanonicalVersion(raw), raw)
  <1> DEFINE len == Len(raw)
             v == CanonicalVersion(raw)
  <1>1. len \in Nat /\ len # 0 /\ \A i \in 1 .. len : raw[i] \in 0 .. 9
    <2>1. raw # <<>> /\ ToSet(raw) \subseteq 0 .. 9
      BY Zenon DEF IsNumericVersion
    <2>2. len \in Nat /\ DOMAIN raw = 1 .. len
      OBVIOUS
    <2>3. len # 0
      BY ONLY raw \in Seq(Nat), <2>1 DEF len
    <2> HIDE DEF len
    <2>4. \A i \in 1 .. len : raw[i] \in ToSet(raw)
      BY <2>2, Zenon DEF ToSet
    <2> QED
      BY <2>1, <2>2, <2>3, <2>4
  <1>2. PICK p : Digits(p, raw)
    BY ValueTurns
  <1>3. p[len] = Value(raw) /\ \A i \in 1 .. len : p[i] = 10 * p[i - 1] + raw[i]
    BY <1>2 DEF Digits
  <1>4. CASE NonZero(raw) = {}
    <2> DEFINE zero == <<0>>
    <2>1. v = zero
      BY <1>4, CanonicalVersionIs
    <2>2. Canonical(zero)
      BY DEF Canonical
    <2>3. zero \in Seq(Nat) /\ Len(zero) = 1 /\ zero[1] = 0
      OBVIOUS
    <2> HIDE DEF zero, v
    <2>4. PICK q : Digits(q, zero)
      BY <2>3, ValueTurns
    <2>5. q[1] = 0
      <3>1. 1 \in 0 .. Len(zero) /\ \A i \in 1 .. 1 : zero[i] = 0
        BY <2>3
      <3> QED
        BY <2>3, <2>4, <3>1, ZerosAreZero
    <2>6. Value(zero) = 0
      BY <2>3, <2>4, <2>5 DEF Digits
    <2>7. len \in 0 .. Len(raw) /\ \A i \in 1 .. len : raw[i] = 0
      BY <1>1, <1>4 DEF NonZero
    <2>8. p[len] = 0
      BY <1>2, <2>7, ZerosAreZero
    <2> QED
      BY <1>3, <2>1, <2>2, <2>6, <2>8 DEF SameNumber, v
  <1>5. CASE NonZero(raw) # {}
    <2> DEFINE f == Min(NonZero(raw))
               n == len - f + 1
    <2>1. f \in NonZero(raw) /\ \A y \in NonZero(raw) : f <= y
      <3>1. NonZero(raw) \subseteq Nat
        BY DEF NonZero
      <3> QED
        BY <1>5, <3>1, MinIsLeast
    <2>2. v = SubSeq(raw, f, len)
      BY <1>5, CanonicalVersionIs
    <2> HIDE DEF f
    <2>3. f \in 1 .. len /\ raw[f] # 0 /\ \A i \in 1 .. f - 1 : raw[i] = 0
      <3>1. f \in 1 .. len /\ raw[f] # 0
        BY <2>1 DEF NonZero
      <3>2. ASSUME NEW i \in 1 .. f - 1 PROVE raw[i] = 0
        <4>1. i \in 1 .. len /\ ~(f <= i)
          BY <1>1, <3>1
        <4> QED
          BY <2>1, <4>1 DEF NonZero
      <3> QED
        BY <3>1, <3>2
    <2>4. n \in Nat /\ n # 0 /\ \A i \in 1 .. n : f - 1 + i \in 1 .. len
      BY <1>1, <2>3
    <2>5. v \in Seq(Nat) /\ Len(v) = n /\ \A i \in 1 .. n : v[i] = raw[f - 1 + i]
      <3>1. v = [i \in 1 .. n |-> raw[f + i - 1]]
        BY <1>1, <2>2, <2>3
      <3>2. \A i \in 1 .. n : f + i - 1 = f - 1 + i /\ raw[f - 1 + i] \in Nat
        BY <1>1, <2>3, <2>4
      <3> HIDE DEF v, n, len
      <3>3. Len(v) = n /\ DOMAIN v = 1 .. n
        BY <2>4, <3>1
      <3>4. \A i \in 1 .. n : v[i] = raw[f - 1 + i] /\ v[i] \in Nat
        <4> TAKE i \in 1 .. n
        <4>1. v[i] = raw[f + i - 1]
          BY <3>1
        <4> QED
          BY <3>2, <4>1
      <3>5. v \in Seq(Nat)
        <4>1. v = [i \in 1 .. n |-> v[i]]
          BY <3>1
        <4> QED
          BY <2>4, <3>4, <4>1
      <3> QED
        BY <3>3, <3>4, <3>5
    <2> HIDE DEF v
    <2>6. Canonical(v)
      <3>1. DOMAIN v = 1 .. n
        BY <2>5
      <3>2. \A i \in 1 .. n : v[i] \in 0 .. 9
        BY <1>1, <2>4, <2>5
      <3>3. v[1] = raw[f]
        BY <2>3, <2>4, <2>5
      <3> HIDE DEF n
      <3> QED
        BY <2>3, <2>4, <2>5, <3>1, <3>2, <3>3 DEF Canonical
    <2>7. PICK q : Digits(q, v)
      BY <2>5, ValueTurns
    <2>8. q[0] = 0 /\ q[n] = Value(v) /\ \A i \in 1 .. n : q[i] = 10 * q[i - 1] + v[i]
      BY <2>5, <2>7 DEF Digits
    <2>9. p[f - 1] = 0
      <3>1. f - 1 \in 0 .. Len(raw)
        BY <1>1, <2>3
      <3> QED
        BY <1>2, <2>3, <3>1, ZerosAreZero
    <2> DEFINE good == {i \in 0 .. n : p[f - 1 + i] = q[i]}
    <2>10. 0 \in good
      <3>1. f - 1 + 0 = f - 1
        BY <2>3
      <3> QED
        BY <2>4, <2>8, <2>9, <3>1
    <2>11. ASSUME NEW i \in 1 .. n, i - 1 \in good PROVE i \in good
      <3> DEFINE x == f - 1 + i
                 y == f - 1 + (i - 1)
      <3>1. p[y] = q[i - 1]
        BY <2>11
      <3>2. x \in 1 .. len /\ x - 1 = y
        BY <2>3, <2>4
      <3>3. v[i] = raw[x] /\ q[i] = 10 * q[i - 1] + v[i]
        BY <2>5, <2>8
      <3> HIDE DEF x, y
      <3>4. p[x] = 10 * p[x - 1] + raw[x]
        BY <1>3, <3>2
      <3>5. p[x] = q[i]
        BY <3>1, <3>2, <3>3, <3>4
      <3> QED
        BY <2>4, <3>5 DEF x
    <2>12. \A i \in 0 .. n : i \in good
      <3> HIDE DEF good, n
      <3> QED
        BY <2>4, <2>10, <2>11, UpTo
    <2>13. p[f - 1 + n] = q[n]
      BY <2>4, <2>12
    <2>14. f - 1 + n = len
      BY <1>1, <2>3
    <2> QED
      BY <1>3, <2>6, <2>8, <2>13, <2>14 DEF SameNumber, v
  <1> QED
    BY <1>4, <1>5

\* It is done once and for all.
LEMMA CanonicalStays ==
    ASSUME NEW v, Canonical(v)
    PROVE  CanonicalVersion(v) = v
  <1>1. v \in Seq(Nat) /\ Len(v) \in Nat /\ Len(v) # 0 /\ (v[1] # 0 \/ Len(v) = 1)
    BY DEF Canonical
  <1>2. CASE v[1] # 0
    <2>1. NonZero(v) \subseteq Nat \ {0} /\ 1 \in NonZero(v)
      BY <1>1, <1>2 DEF NonZero
    <2>2. Min(NonZero(v)) = 1
      <3>1. Min(NonZero(v)) \in NonZero(v) /\ Min(NonZero(v)) <= 1
        BY <2>1, MinIsLeast
      <3> QED
        BY <2>1, <3>1
    <2>3. SubSeq(v, 1, Len(v)) = v
      BY <1>1
    <2> QED
      BY <2>1, <2>2, <2>3, CanonicalVersionIs
  <1>3. CASE v[1] = 0
    <2>1. Len(v) = 1 /\ v = <<0>>
      BY <1>1, <1>3
    <2>2. NonZero(v) = {}
      BY <1>3, <2>1 DEF NonZero
    <2> QED
      BY <2>1, <2>2, CanonicalVersionIs
  <1> QED
    BY <1>2, <1>3

\* One more digit does not change which number is the greater.
LEMMA NextDigit ==
    ASSUME NEW a \in Nat, NEW b \in Nat, a > b, NEW d \in 0 .. 9, NEW e \in 0 .. 9
    PROVE  10 * a + d > 10 * b + e
  OBVIOUS

\* The digits of a version and the numbers on the way to its value.
LEMMA DigitByDigit ==
    ASSUME NEW v, Canonical(v), NEW p, Digits(p, v)
    PROVE  /\ Len(v) \in Nat /\ p[0] = 0 /\ p[Len(v)] = Value(v)
           /\ \A i \in 0 .. Len(v) : p[i] \in Nat
           /\ \A i \in 1 .. Len(v) : p[i] = 10 * p[i - 1] + v[i]
           /\ \A i \in 1 .. Len(v) : v[i] \in 0 .. 9
  <1>1. v \in Seq(Nat) /\ \A i \in DOMAIN v : v[i] \in 0 .. 9
    BY DEF Canonical
  <1>2. Len(v) \in Nat /\ \A i \in 1 .. Len(v) : v[i] \in 0 .. 9
    BY <1>1
  <1>3. \A i \in 0 .. Len(v) : p[i] \in Nat
    BY DEF Digits
  <1> QED
    BY <1>2, <1>3 DEF Digits

\* A number that is ahead of another by its leading digits stays so.
LEMMA StaysAhead ==
    ASSUME NEW v, Canonical(v), NEW w, Canonical(w), NEW k \in Nat, Len(v) = Len(w) + k,
           NEW p, Digits(p, v), NEW q, Digits(q, w),
           NEW start \in 0 .. Len(w), p[start + k] > q[start]
    PROVE  Value(v) > Value(w)
  <1> DEFINE m == Len(v)
             n == Len(w)
             good == {i \in 0 .. n : start <= i => p[i + k] > q[i]}
  <1>1. m \in Nat /\ n \in Nat /\ m = n + k
    BY DEF Canonical
  <1>2. /\ p[m] = Value(v) /\ \A i \in 0 .. m : p[i] \in Nat
        /\ \A i \in 1 .. m : p[i] = 10 * p[i - 1] + v[i]
        /\ \A i \in 1 .. m : v[i] \in 0 .. 9
    BY DigitByDigit
  <1>3. /\ q[n] = Value(w) /\ \A i \in 0 .. n : q[i] \in Nat
        /\ \A i \in 1 .. n : q[i] = 10 * q[i - 1] + w[i]
        /\ \A i \in 1 .. n : w[i] \in 0 .. 9
    BY DigitByDigit
  <1>4. start \in 0 .. n
    OBVIOUS
  <1> HIDE DEF m, n
  <1>5. 0 \in good
    BY <1>1, <1>4
  <1>6. ASSUME NEW i \in 1 .. n, i - 1 \in good PROVE i \in good
    <2> SUFFICES ASSUME start <= i PROVE p[i + k] > q[i]
      BY <1>1
    <2>1. CASE start = i
      BY <2>1
    <2>2. CASE start # i
      <3>1. start <= i - 1
        BY <1>4, <2>2
      <3>2. p[i - 1 + k] > q[i - 1]
        BY <1>6, <3>1
      <3> DEFINE x == i + k
      <3>3. x \in 1 .. m /\ x - 1 = i - 1 + k /\ x - 1 \in 0 .. m /\ i - 1 \in 0 .. n
        BY <1>1
      <3>4. p[x - 1] > q[i - 1]
        BY <3>2, <3>3
      <3> HIDE DEF x
      <3>5. p[x] = 10 * p[x - 1] + v[x] /\ v[x] \in 0 .. 9 /\ p[x - 1] \in Nat
        BY <1>2, <3>3
      <3>6. q[i] = 10 * q[i - 1] + w[i] /\ w[i] \in 0 .. 9 /\ q[i - 1] \in Nat
        BY <1>3, <3>3
      <3>7. p[x] > q[i]
        BY <3>4, <3>5, <3>6, NextDigit
      <3> QED
        BY <3>7 DEF x
    <2> QED
      BY <2>1, <2>2
  <1> HIDE DEF good
  <1>7. \A i \in 0 .. n : i \in good
    BY <1>1, <1>5, <1>6, UpTo
  <1>8. n \in good
    BY <1>1, <1>7
  <1>9. p[n + k] > q[n]
    BY <1>4, <1>8 DEF good
  <1> QED
    BY <1>1, <1>2, <1>3, <1>9

\* A version that is longer begins with a digit that is not zero.
LEMMA LeadingDigit ==
    ASSUME NEW v, Canonical(v), v[1] # 0, NEW p, Digits(p, v), NEW n \in 1 .. Len(v)
    PROVE  p[n] > 0
  <1> DEFINE good == {i \in 0 .. n : i # 0 => p[i] > 0}
  <1>1. Len(v) \in Nat /\ n \in Nat
    BY DEF Canonical
  <1>2. /\ p[0] = 0 /\ \A i \in 0 .. Len(v) : p[i] \in Nat
        /\ \A i \in 1 .. Len(v) : p[i] = 10 * p[i - 1] + v[i]
        /\ \A i \in 1 .. Len(v) : v[i] \in 0 .. 9
    BY DigitByDigit
  <1>3. 0 \in good
    BY <1>1
  <1>4. ASSUME NEW i \in 1 .. n, i - 1 \in good PROVE i \in good
    <2>1. i \in 1 .. Len(v) /\ i - 1 \in 0 .. Len(v)
      BY <1>1
    <2>2. p[i] = 10 * p[i - 1] + v[i] /\ v[i] \in Nat /\ p[i - 1] \in Nat
      BY <1>2, <2>1
    <2>3. CASE i = 1
      <3>1. v[1] > 0 /\ p[i - 1] = 0
        BY <1>2, <2>2, <2>3
      <3> QED
        BY <1>1, <2>2, <2>3, <3>1
    <2>4. CASE i # 1
      <3>1. p[i - 1] > 0
        BY <1>1, <1>4, <2>4
      <3> QED
        BY <1>1, <2>2, <3>1
    <2> QED
      BY <2>3, <2>4
  <1> HIDE DEF good
  <1>5. \A i \in 0 .. n : i \in good
    BY <1>1, <1>3, <1>4, UpTo
  <1>6. n \in good
    BY <1>1, <1>5
  <1> QED
    BY <1>6 DEF good

\* Names that agree for a while stand for the same number until then.
LEMMA SamePrefix ==
    ASSUME NEW v, Canonical(v), NEW w, Canonical(w), NEW p, Digits(p, v), NEW q, Digits(q, w),
           NEW n \in Nat, n <= Len(v), n <= Len(w), \A i \in 1 .. n : v[i] = w[i]
    PROVE  p[n] = q[n]
  <1> DEFINE good == {i \in 0 .. n : p[i] = q[i]}
  <1>1. Len(v) \in Nat /\ Len(w) \in Nat
    BY DEF Canonical
  <1>2. 0 \in good
    BY DEF Digits
  <1>3. ASSUME NEW i \in 1 .. n, i - 1 \in good PROVE i \in good
    <2>1. i \in 1 .. Len(v) /\ i \in 1 .. Len(w)
      BY <1>1
    <2>2. p[i] = 10 * p[i - 1] + v[i] /\ q[i] = 10 * q[i - 1] + w[i]
      BY <2>1 DEF Digits
    <2>3. p[i - 1] = q[i - 1] /\ v[i] = w[i]
      BY <1>3
    <2> QED
      BY <2>2, <2>3
  <1> HIDE DEF good
  <1>4. \A i \in 0 .. n : i \in good
    BY <1>2, <1>3, UpTo
  <1>5. n \in good
    BY <1>4
  <1> QED
    BY <1>5 DEF good

\* The order of the versions is that of the numbers.
LEMMA HigherIsGreater ==
    ASSUME NEW v, Canonical(v), NEW w, Canonical(w), IsHigherVersion(v, w)
    PROVE  Value(v) > Value(w)
  <1>1. v \in Seq(Nat) /\ w \in Seq(Nat) /\ Len(v) \in Nat \ {0} /\ Len(w) \in Nat \ {0}
    BY DEF Canonical
  <1>2. PICK p : Digits(p, v)
    BY <1>1, ValueTurns
  <1>3. PICK q : Digits(q, w)
    BY <1>1, ValueTurns
  <1>4. IF Len(v) # Len(w) THEN Len(v) > Len(w) ELSE Before(w, v)
    BY CanonicalStays DEF IsHigherVersion
  <1>5. CASE Len(v) # Len(w)
    <2> DEFINE k == Len(v) - Len(w)
               start == 0
    <2>1. k \in Nat /\ k \in 1 .. Len(v) /\ Len(v) = Len(w) + k /\ Len(v) # 1 /\ start \in 0 .. Len(w)
      BY <1>1, <1>4, <1>5
    <2>2. v[1] # 0
      BY <2>1 DEF Canonical
    <2> HIDE DEF k
    <2>3. p[k] > 0
      BY <1>2, <2>1, <2>2, LeadingDigit
    <2>4. p[start + k] > q[start]
      BY <1>3, <2>1, <2>3 DEF Digits
    <2> HIDE DEF start
    <2> QED
      BY <1>2, <1>3, <2>1, <2>4, StaysAhead
  <1>6. CASE Len(v) = Len(w)
    <2>1. PICK i \in DOMAIN v : /\ i \in DOMAIN w => w[i] < v[i]
                                /\ \A j \in 1 .. i - 1 : j \in DOMAIN w /\ w[j] = v[j]
      BY <1>4, <1>6 DEF Before
    <2> DEFINE m == i - 1
               k == 0
    <2>2. i \in 1 .. Len(v) /\ i \in 1 .. Len(w) /\ i \in DOMAIN w
      BY <1>1, <1>6
    <2>3. m \in Nat /\ m <= Len(v) /\ m <= Len(w) /\ \A j \in 1 .. m : v[j] = w[j]
      BY <1>1, <2>1, <2>2
    <2> HIDE DEF m
    <2>4. p[m] = q[m]
      BY <1>2, <1>3, <2>3, SamePrefix
    <2>5. p[i] = 10 * p[m] + v[i] /\ q[i] = 10 * q[m] + w[i] /\ w[i] < v[i]
      BY <1>2, <1>3, <2>1, <2>2 DEF Digits, m
    <2>6. p[m] \in Nat /\ v[i] \in Nat /\ w[i] \in Nat
      BY SMTT(30), <1>1, <1>2, <2>2, <2>3 DEF Digits
    <2>7. p[i] > q[i]
      BY <2>4, <2>5, <2>6
    <2>8. i + k = i /\ k \in Nat /\ Len(v) = Len(w) + k /\ i \in 0 .. Len(w)
      BY <1>1, <1>6, <2>2
    <2>9. p[i + k] > q[i]
      BY <2>7, <2>8
    <2> HIDE DEF k
    <2> QED
      BY <1>2, <1>3, <2>8, <2>9, StaysAhead
  <1> QED
    BY <1>5, <1>6

\* Of two versions one is the higher.
LEMMA SomeHigher ==
    ASSUME NEW v, Canonical(v), NEW w, Canonical(w), v # w
    PROVE  IsHigherVersion(v, w) \/ IsHigherVersion(w, v)
  <1>1. v \in Seq(Nat) /\ w \in Seq(Nat) /\ Len(v) \in Nat /\ Len(w) \in Nat
    BY DEF Canonical
  <1>2. Before(v, w) \/ Before(w, v)
    BY <1>1, SomeBefore
  <1>3. CanonicalVersion(v) = v /\ CanonicalVersion(w) = w
    BY CanonicalStays
  <1> QED
    BY <1>1, <1>2, <1>3 DEF IsHigherVersion

\* Versions that stand for one number are one.
LEMMA SameValue ==
    ASSUME NEW v, Canonical(v), NEW w, Canonical(w), Value(v) = Value(w)
    PROVE  v = w
  <1>1. Value(v) \in Nat
    <2>1. v \in Seq(Nat) /\ Len(v) \in 0 .. Len(v)
      BY DEF Canonical
    <2>2. PICK p : Digits(p, v)
      BY <2>1, ValueTurns
    <2> QED
      BY <2>1, <2>2 DEF Digits
  <1>2. ~(Value(v) > Value(w)) /\ ~(Value(w) > Value(v))
    BY <1>1
  <1> QED
    BY <1>2, SomeHigher, HigherIsGreater

\* A version stands for a natural number.
LEMMA ValueType ==
    ASSUME NEW v, Canonical(v)
    PROVE  Value(v) \in Nat
  <1>1. v \in Seq(Nat) /\ Len(v) \in 0 .. Len(v)
    BY DEF Canonical
  <1>2. PICK p : Digits(p, v)
    BY <1>1, ValueTurns
  <1> QED
    BY <1>1, <1>2 DEF Digits

\* The highest version stands for the greatest number.
LEMMA HighestVersionIs ==
    ASSUME NEW versions, IsFiniteSet(versions), versions # {}, \A v \in versions : Canonical(v)
    PROVE  /\ HighestVersion(versions) \in versions
           /\ \A w \in versions : Value(HighestVersion(versions)) >= Value(w)
  <1> DEFINE R == {pair \in versions \X versions : Value(pair[1]) > Value(pair[2])}
  <1>1. \A v \in versions : Value(v) \in Nat
    BY ValueType
  <1>2. \A v, w \in versions : v = w \/ Value(v) > Value(w) \/ Value(w) > Value(v)
    BY <1>1, SameValue
  <1>3. Orders(R, versions)
    BY <1>1, <1>2 DEF Orders
  <1>4. \A v, w : <<v, w>> \in R => Value(v) > Value(w)
    OBVIOUS
  <1> HIDE DEF R
  <1>5. PICK m : FirstOf(m, R, versions)
    BY <1>3, FirstOfMany
  <1>6. m \in versions /\ \A w \in versions \ {m} : IsHigherVersion(m, w)
    <2>1. m \in versions /\ \A w \in versions \ {m} : Value(m) > Value(w)
      BY <1>4, <1>5 DEF FirstOf
    <2> SUFFICES ASSUME NEW w \in versions \ {m} PROVE IsHigherVersion(m, w)
      BY <2>1
    <2>2. ~(Value(w) > Value(m))
      BY <1>1, <2>1
    <2> QED
      BY <2>1, <2>2, SomeHigher, HigherIsGreater
  <1> DEFINE h == HighestVersion(versions)
  <1>7. h \in versions /\ \A w \in versions \ {h} : IsHigherVersion(h, w)
    BY <1>6 DEF HighestVersion
  <1> HIDE DEF h
  <1>8. ASSUME NEW w \in versions PROVE Value(h) >= Value(w)
    <2>1. CASE w = h
      BY <1>1, <2>1
    <2>2. CASE w # h
      BY <1>1, <1>7, <2>2, HigherIsGreater
    <2> QED
      BY <2>1, <2>2
  <1> QED
    BY <1>7, <1>8 DEF h

-----------------------------------------------------------------------------
(* The groups of what was listed.                                          *)

\* The loops over the groups may rely on this much: they are finitely many, each is of
\* a version without zeros in front and holds a directory at least.
Listed(groups) ==
    /\ IsFiniteSet(DOMAIN groups)
    /\ \A v \in DOMAIN groups : Canonical(v) /\ groups[v] # {} /\ groups[v] \subseteq RawNames

\* The directory is the one that is looked into for its version.
InFront(groups, raw) ==
    CanonicalVersion(raw) \in DOMAIN groups /\ FirstName(groups[CanonicalVersion(raw)]) = raw

\* A name that stands for a number.
Numeric(raw) == raw \in Seq(Nat) /\ IsNumericVersion(raw)

\* The directories of one version.
OfVersion(names, v) == {raw \in names : IsNumericVersion(raw) /\ CanonicalVersion(raw) = v}

\* GroupVersions, one group at a time.
LEMMA GroupVersionsIs ==
    ASSUME NEW names
    PROVE  /\ DOMAIN GroupVersions(names) = {CanonicalVersion(raw) : raw \in {raw \in names : IsNumericVersion(raw)}}
           /\ \A v \in DOMAIN GroupVersions(names) : GroupVersions(names)[v] = OfVersion(names, v)
  <1> DEFINE numeric == {raw \in names : IsNumericVersion(raw)}
             g == [v \in {CanonicalVersion(raw) : raw \in numeric} |-> {raw \in numeric : CanonicalVersion(raw) = v}]
  <1>1. GroupVersions(names) = g
    BY Zenon DEF GroupVersions
  <1>2. ASSUME NEW v PROVE {raw \in numeric : CanonicalVersion(raw) = v} = OfVersion(names, v)
    BY DEF OfVersion
  <1> QED
    BY <1>1, <1>2

\* What groupVersionsDescending makes of the names there may be.
LEMMA GroupsAreListed ==
    ASSUME NEW names, names \subseteq RawNames
    PROVE  Listed(GroupVersions(names))
  <1> DEFINE g == GroupVersions(names)
             numeric == {raw \in names : IsNumericVersion(raw)}
             f == [raw \in numeric |-> CanonicalVersion(raw)]
  <1>1. DOMAIN g = {CanonicalVersion(raw) : raw \in numeric} /\ \A v \in DOMAIN g : g[v] = OfVersion(names, v)
    BY GroupVersionsIs
  <1>2. IsFiniteSet(numeric)
    <2>1. numeric \subseteq RawNames
      OBVIOUS
    <2> HIDE DEF numeric
    <2> QED
      BY <2>1, RepositoryAssumption, FS_Subset
  <1> HIDE DEF g
  <1>3. f \in Surjection(numeric, DOMAIN g)
    <2>1. f \in [numeric -> DOMAIN g] /\ \A v \in DOMAIN g : \E raw \in numeric : f[raw] = v
      BY <1>1
    <2> HIDE DEF f, numeric
    <2> QED
      BY <2>1 DEF Surjection
  <1>4. IsFiniteSet(DOMAIN g)
    <2> HIDE DEF f, numeric
    <2> QED
      BY <1>2, <1>3, FS_Surjection
  <1>5. ASSUME NEW v \in DOMAIN g PROVE Canonical(v) /\ g[v] # {} /\ g[v] \subseteq RawNames
    <2>1. PICK raw \in names : IsNumericVersion(raw) /\ CanonicalVersion(raw) = v
      BY <1>1
    <2>2. raw \in Seq(Nat)
      BY <2>1, RepositoryAssumption
    <2>3. Canonical(v)
      BY <2>1, <2>2, CanonicalIsSame DEF SameNumber
    <2>4. raw \in g[v] /\ g[v] \subseteq names
      BY <1>1, <2>1 DEF OfVersion
    <2> QED
      BY <2>3, <2>4
  <1> QED
    BY <1>4, <1>5 DEF Listed, g

\* A directory with the name of a version stands for the number of its canonical one.
LEMMA NumericVersionIs ==
    ASSUME NEW raw \in RawNames, IsNumericVersion(raw)
    PROVE  Numeric(raw) /\ Canonical(CanonicalVersion(raw)) /\ Value(CanonicalVersion(raw)) = Value(raw)
  BY RepositoryAssumption, CanonicalIsSame DEF SameNumber, Numeric

\* A directory that could be served is listed, in front of its group, and holds a model.
LEMMA ServableIs ==
    ASSUME NEW t, DOMAIN t \subseteq RawNames, NEW raw \in Servable(t)
    PROVE  /\ raw \in DOMAIN t /\ IsNumericVersion(raw) /\ PickModelFile(t[raw]) # ""
           /\ InFront(GroupVersions(DOMAIN t), raw)
  <1> DEFINE g == GroupVersions(DOMAIN t)
  <1>1. PickModelFile(t[raw]) # "" /\ \E v \in DOMAIN g : raw = FirstName(g[v])
    BY DEF Servable
  <1>2. PICK v \in DOMAIN g : raw = FirstName(g[v])
    BY <1>1
  <1>3. Listed(g)
    BY GroupsAreListed
  <1>4. g[v] = OfVersion(DOMAIN t, v)
    BY <1>2, GroupVersionsIs
  <1> HIDE DEF g
  <1>5. raw \in g[v]
    BY <1>2, <1>3, FirstNameIs DEF Listed
  <1>6. raw \in DOMAIN t /\ IsNumericVersion(raw) /\ CanonicalVersion(raw) = v
    BY <1>4, <1>5 DEF OfVersion
  <1> QED
    BY <1>1, <1>2, <1>6 DEF InFront, g

-----------------------------------------------------------------------------
(* What is picked of a group.                                              *)

\* FilesIn and Picked of a tree.
FilesOf(t, raw) == IF raw \in DOMAIN t THEN t[raw] ELSE {}

PickedOf(t, names, v) ==
    LET raw == FirstName(names)
        file == PickModelFile(FilesOf(t, raw))
    IN IF file = "" THEN NoModel
       ELSE [version |-> v, dir |-> raw, file |-> file, backend |-> BackendOf[file]]

\* Picked depends on the group and the tree, and on nothing else.
LEMMA PickedIs ==
    ASSUME NEW groups, NEW v
    PROVE  Picked(groups, v) = PickedOf(tree, groups[v], v)
  BY Zenon DEF Picked, PickedOf, FilesIn, FilesOf

\* A version whose first directory holds a model is not skipped.
LEMMA FrontIsPicked ==
    ASSUME NEW t, NEW groups, NEW raw \in DOMAIN t, PickModelFile(t[raw]) # "",
           InFront(groups, raw), NEW v, v = CanonicalVersion(raw)
    PROVE  PickedOf(t, groups[v], v) # NoModel
  <1>1. FirstName(groups[v]) = raw /\ FilesOf(t, raw) = t[raw]
    BY DEF InFront, FilesOf
  <1> DEFINE file == PickModelFile(t[raw])
  <1>2. PickedOf(t, groups[v], v) = [version |-> v, dir |-> raw, file |-> file, backend |-> BackendOf[file]]
    BY <1>1 DEF PickedOf
  <1>3. file # ""
    OBVIOUS
  <1> HIDE DEF file
  <1> DEFINE picked == PickedOf(t, groups[v], v)
  <1> HIDE DEF picked
  <1>4. picked = [version |-> v, dir |-> raw, file |-> file, backend |-> BackendOf[file]]
    BY <1>2, Zenon DEF picked
  <1>5. picked.file = file
    BY ONLY <1>4
  <1>6. NoModel.file = ""
    BY ONLY TRUE DEF NoModel
  <1>7. picked # NoModel
    BY <1>3, <1>5, <1>6
  <1> QED
    BY <1>7 DEF picked

\* What is picked of a group has its version.
LEMMA PickedVersion ==
    ASSUME NEW t, NEW names, NEW v, PickedOf(t, names, v) # NoModel
    PROVE  PickedOf(t, names, v).version = v
  <1> DEFINE file == PickModelFile(FilesOf(t, FirstName(names)))
  <1>1. PickedOf(t, names, v) = [version |-> v, dir |-> FirstName(names), file |-> file, backend |-> BackendOf[file]]
    BY DEF PickedOf
  <1> HIDE DEF file
  <1> QED
    BY <1>1

-----------------------------------------------------------------------------
(* The scan.                                                               *)

\* Where the tree, the scan and the lookup can be.
TreeInv ==
    /\ DOMAIN tree \subseteq RawNames /\ changes \in Nat
    /\ task = [pc |-> task.pc, groups |-> task.groups, asked |-> task.asked]
    /\ task.pc \in {"start", "scan", "idle", "resolve", "resolved"}
    /\ task.pc = "start" => catalog = NoModel

\* What could be served all along is still there.
StableIn(t, names) ==
    \A raw \in names : raw \in DOMAIN t /\ IsNumericVersion(raw) /\ PickModelFile(t[raw]) # ""

\* The groups that are left hold whatever could be served all along.
ScanGoesOn(groups) ==
    catalog = NoModel /\ Listed(groups) /\ \A raw \in stable : InFront(groups, raw)

\* The scan serves a version as high as any that could be served all along.
ScanIsOver ==
    \A raw \in stable : catalog # NoModel /\ Value(catalog.version) >= Value(raw)

\* The inductive invariant behind ScanServesHighest.
ScanInv ==
    /\ TreeInv /\ StableIn(tree, stable)
    /\ task.pc = "scan" => ScanGoesOn(task.groups)
    /\ task.pc \notin {"start", "scan"} => ScanIsOver
    /\ task.pc = "start" => stable = {}

\* Before the scan nothing is served.
LEMMA ScanInit ==
    ASSUME RepositoryInit
    PROVE  ScanInv
  <1>1. DOMAIN tree \subseteq RawNames
    BY Zenon DEF RepositoryInit
  <1>2. task = [pc |-> "start", groups |-> <<>>, asked |-> <<>>]
    BY DEF RepositoryInit, NoTask
  <1>3. catalog = NoModel /\ stable = {} /\ changes = 0
    BY DEF RepositoryInit
  <1>4. TreeInv
    BY <1>1, <1>2, <1>3 DEF TreeInv
  <1> QED
    BY <1>2, <1>3, <1>4 DEF ScanInv, StableIn

\* What is listed holds, in front of its group, everything that can be served.
LEMMA ScanBegins ==
    ASSUME ScanInv, BeginScan
    PROVE  ScanInv'
  <1> DEFINE g == GroupVersions(DOMAIN tree)
  <1>1. TreeInv /\ task.pc = "start" /\ catalog = NoModel
    BY DEF ScanInv, TreeInv, BeginScan
  <1>2. task' = [task EXCEPT !.pc = "scan", !.groups = g] /\ stable' = Servable(tree)
        /\ tree' = tree /\ catalog' = catalog /\ changes' = changes
    BY Zenon DEF BeginScan
  <1>3. \A raw \in Servable(tree) :
           raw \in DOMAIN tree /\ IsNumericVersion(raw) /\ PickModelFile(tree[raw]) # "" /\ InFront(g, raw)
    BY <1>1, ServableIs DEF TreeInv
  <1>4. Listed(g)
    BY <1>1, GroupsAreListed DEF TreeInv
  <1> HIDE DEF g
  <1>5. task' = [pc |-> "scan", groups |-> g, asked |-> task.asked]
    BY <1>1, <1>2 DEF TreeInv
  <1>6. TreeInv'
    BY <1>1, <1>2, <1>5 DEF TreeInv
  <1>7. StableIn(tree', stable')
    BY <1>2, <1>3 DEF StableIn
  <1>8. ScanGoesOn(task.groups)'
    BY <1>1, <1>2, <1>3, <1>4, <1>5 DEF ScanGoesOn
  <1> QED
    BY <1>5, <1>6, <1>7, <1>8 DEF ScanInv

\* The groups without the one that was tried are listed still.
LEMMA OthersAreListed ==
    ASSUME NEW groups, Listed(groups), NEW v
    PROVE  /\ Listed(Restrict(groups, DOMAIN groups \ {v}))
           /\ \A raw : InFront(groups, raw) /\ CanonicalVersion(raw) # v
                          => InFront(Restrict(groups, DOMAIN groups \ {v}), raw)
  <1> DEFINE rest == Restrict(groups, DOMAIN groups \ {v})
  <1>1. DOMAIN rest = DOMAIN groups \ {v} /\ \A w \in DOMAIN rest : rest[w] = groups[w]
    BY DEF Restrict
  <1> HIDE DEF rest
  <1>2. IsFiniteSet(DOMAIN rest)
    BY <1>1, FS_Subset DEF Listed
  <1>3. Listed(rest)
    BY <1>1, <1>2 DEF Listed
  <1>4. ASSUME NEW raw, InFront(groups, raw), CanonicalVersion(raw) # v PROVE InFront(rest, raw)
    BY <1>1, <1>4 DEF InFront
  <1> QED
    BY <1>3, <1>4 DEF rest

\* A group that is skipped held nothing that could be served all along, and one that is
\* served is as high as the groups that are left.
LEMMA ScanGroupKeeps ==
    ASSUME ScanInv, ScanGroup
    PROVE  ScanInv'
  <1> DEFINE g == task.groups
             v == HighestVersion(DOMAIN g)
             rest == Restrict(g, DOMAIN g \ {v})
  <1>1. task.pc = "scan" /\ DOMAIN g # {} /\ catalog' = Picked(g, v)
        /\ task' = (IF catalog' = NoModel THEN [task EXCEPT !.groups = rest] ELSE NoTask)
        /\ tree' = tree /\ stable' = stable /\ changes' = changes
    BY Zenon DEF ScanGroup
  <1>2. TreeInv /\ StableIn(tree, stable) /\ ScanGoesOn(g)
    BY <1>1 DEF ScanInv
  <1>3. Listed(g) /\ \A raw \in stable : InFront(g, raw)
    BY <1>2 DEF ScanGoesOn
  <1>4. v \in DOMAIN g /\ \A w \in DOMAIN g : Value(v) >= Value(w)
    <2> DEFINE versions == DOMAIN g
    <2>1. IsFiniteSet(versions) /\ versions # {} /\ \A w \in versions : Canonical(w)
      BY <1>1, <1>3 DEF Listed
    <2> HIDE DEF versions
    <2>2. HighestVersion(versions) \in versions /\ \A w \in versions : Value(HighestVersion(versions)) >= Value(w)
      BY <2>1, HighestVersionIs
    <2> QED
      BY <2>2 DEF versions
  <1>5. catalog' = PickedOf(tree, g[v], v)
    BY <1>1, PickedIs
  <1>6. Listed(rest) /\ \A raw : InFront(g, raw) /\ CanonicalVersion(raw) # v => InFront(rest, raw)
    BY <1>3, OthersAreListed
  <1>7. \A raw \in stable : raw \in RawNames /\ raw \in DOMAIN tree /\ IsNumericVersion(raw) /\ PickModelFile(tree[raw]) # ""
    BY <1>2 DEF TreeInv, StableIn
  <1>8. StableIn(tree', stable')
    BY <1>1, <1>2
  <1> HIDE DEF g, v, rest
  <1>9. CASE catalog' = NoModel
    <2>1. task' = [pc |-> "scan", groups |-> rest, asked |-> task.asked]
      BY <1>1, <1>2, <1>9 DEF TreeInv
    <2>2. TreeInv'
      BY <1>1, <1>2, <2>1 DEF TreeInv
    <2>3. ASSUME NEW raw \in stable PROVE InFront(rest, raw)
      <3>1. CanonicalVersion(raw) # v
        BY <1>3, <1>5, <1>7, <1>9, FrontIsPicked
      <3> QED
        BY <1>3, <1>6, <3>1
    <2>4. ScanGoesOn(task.groups)'
      BY <1>1, <1>6, <1>9, <2>1, <2>3 DEF ScanGoesOn
    <2> QED
      BY <1>8, <2>1, <2>2, <2>4 DEF ScanInv
  <1>10. CASE catalog' # NoModel
    <2>1. task' = [pc |-> "idle", groups |-> <<>>, asked |-> <<>>]
      BY <1>1, <1>10 DEF NoTask
    <2>2. TreeInv'
      BY <1>1, <1>2, <2>1 DEF TreeInv
    <2>3. catalog'.version = v
      BY <1>5, <1>10, PickedVersion
    <2>4. ASSUME NEW raw \in stable PROVE Value(v) >= Value(raw)
      <3>1. CanonicalVersion(raw) \in DOMAIN g
        BY <1>3 DEF InFront
      <3>2. Value(CanonicalVersion(raw)) = Value(raw)
        BY <1>7, NumericVersionIs
      <3> QED
        BY <1>4, <3>1, <3>2
    <2>5. ScanIsOver'
      BY <1>1, <1>10, <2>3, <2>4 DEF ScanIsOver
    <2> QED
      BY <1>8, <2>1, <2>2, <2>5 DEF ScanInv
  <1> QED
    BY <1>9, <1>10

\* A scan that has tried every group leaves nothing behind that could be served.
LEMMA ScanEnds ==
    ASSUME ScanInv, ScanEnd
    PROVE  ScanInv'
  <1>1. task.pc = "scan" /\ DOMAIN task.groups = {} /\ task' = NoTask
        /\ tree' = tree /\ catalog' = catalog /\ stable' = stable /\ changes' = changes
    BY DEF ScanEnd
  <1>2. TreeInv /\ StableIn(tree, stable) /\ ScanGoesOn(task.groups)
    BY <1>1 DEF ScanInv
  <1>3. stable = {}
    BY <1>1, <1>2 DEF ScanGoesOn, InFront
  <1>4. task' = [pc |-> "idle", groups |-> <<>>, asked |-> <<>>]
    BY <1>1 DEF NoTask
  <1>5. TreeInv'
    BY <1>1, <1>2, <1>4 DEF TreeInv
  <1>6. StableIn(tree', stable')
    BY <1>1, <1>2
  <1>7. ScanIsOver'
    BY <1>1, <1>3 DEF ScanIsOver
  <1> QED
    BY <1>4, <1>5, <1>6, <1>7 DEF ScanInv

\* A lookup moves on; the scan is over.
LookupStep == (\E asked \in RawNames : BeginResolve(asked)) \/ EndResolve \/ Return

\* Where a lookup leaves the task.
LookupTask(new) ==
    \E groups, asked, pc : pc \in {"resolve", "resolved", "idle"} /\ new = [pc |-> pc, groups |-> groups, asked |-> asked]

\* A lookup comes after the scan and changes neither the tree nor what is served.
LEMMA LookupSteps ==
    ASSUME TreeInv, LookupStep
    PROVE  /\ task.pc \in {"idle", "resolve", "resolved"} /\ LookupTask(task')
           /\ tree' = tree /\ catalog' = catalog /\ stable' = stable /\ changes' = changes
  <1>1. CASE \E asked \in RawNames : BeginResolve(asked)
    <2>1. PICK asked \in RawNames : BeginResolve(asked)
      BY <1>1
    <2> DEFINE g == GroupVersions(DOMAIN tree)
    <2>2. task' = (IF IsNumericVersion(asked) THEN [pc |-> "resolve", groups |-> g, asked |-> asked]
                   ELSE [NoTask EXCEPT !.pc = "resolved", !.asked = asked])
          /\ task.pc = "idle" /\ tree' = tree /\ catalog' = catalog /\ stable' = stable /\ changes' = changes
      BY <2>1, Zenon DEF BeginResolve
    <2> HIDE DEF g
    <2>3. \/ task' = [pc |-> "resolve", groups |-> g, asked |-> asked]
          \/ task' = [pc |-> "resolved", groups |-> <<>>, asked |-> asked]
      BY <2>2 DEF NoTask
    <2>4. LookupTask(task')
      BY <2>3 DEF LookupTask
    <2> QED
      BY <2>2, <2>4
  <1>2. CASE EndResolve
    <2>1. task' = [task EXCEPT !.pc = "resolved"] /\ task.pc = "resolve"
          /\ tree' = tree /\ catalog' = catalog /\ stable' = stable /\ changes' = changes
      BY <1>2 DEF EndResolve
    <2>2. task' = [pc |-> "resolved", groups |-> task.groups, asked |-> task.asked]
      BY <2>1 DEF TreeInv
    <2>3. LookupTask(task')
      BY <2>2 DEF LookupTask
    <2> QED
      BY <2>1, <2>3
  <1>3. CASE Return
    <2>1. task' = [pc |-> "idle", groups |-> <<>>, asked |-> <<>>] /\ task.pc = "resolved"
          /\ tree' = tree /\ catalog' = catalog /\ stable' = stable /\ changes' = changes
      BY <1>3 DEF Return, NoTask
    <2>2. LookupTask(task')
      BY <2>1 DEF LookupTask
    <2> QED
      BY <2>1, <2>2
  <1> QED
    BY <1>1, <1>2, <1>3 DEF LookupStep

\* So lookups leave ScanInv alone.
LEMMA LookupKeepsScan ==
    ASSUME ScanInv, LookupStep
    PROVE  ScanInv'
  <1>1. TreeInv /\ StableIn(tree, stable)
    BY DEF ScanInv
  <1>2. task.pc \in {"idle", "resolve", "resolved"} /\ LookupTask(task')
        /\ tree' = tree /\ catalog' = catalog /\ stable' = stable /\ changes' = changes
    BY <1>1, LookupSteps
  <1>3. ScanIsOver
    BY <1>2 DEF ScanInv
  <1>4. PICK groups, asked, pc :
           pc \in {"resolve", "resolved", "idle"} /\ task' = [pc |-> pc, groups |-> groups, asked |-> asked]
    BY <1>2 DEF LookupTask
  <1>5. TreeInv'
    BY <1>1, <1>2, <1>4 DEF TreeInv
  <1>6. StableIn(tree', stable')
    BY <1>1, <1>2
  <1>7. ScanIsOver'
    BY <1>2, <1>3 DEF ScanIsOver
  <1> QED
    BY <1>4, <1>5, <1>6, <1>7 DEF ScanInv

\* A change to the tree only takes from what could be served all along.
LEMMA ChangeKeepsScan ==
    ASSUME ScanInv, ChangeTree
    PROVE  ScanInv'
  <1>1. TreeInv /\ StableIn(tree, stable)
    BY DEF ScanInv
  <1>2. changes' = changes + 1 /\ stable' = stable \cap Servable(tree') /\ task' = task /\ catalog' = catalog
    BY DEF ChangeTree
  <1>3. DOMAIN tree' \subseteq RawNames
    <2>1. PICK raw \in RawNames :
         \/ tree' = [r \in DOMAIN tree \cup {raw} |-> IF r = raw THEN {} ELSE tree[r]]
         \/ \E file \in ToSet(FileNames) \ tree[raw] : tree' = [tree EXCEPT ![raw] = @ \cup {file}]
         \/ tree' = [r \in DOMAIN tree \ {raw} |-> tree[r]]
      BY Zenon DEF ChangeTree
    <2>2. DOMAIN tree' \subseteq DOMAIN tree \cup {raw}
      BY <2>1
    <2> QED
      BY <1>1, <2>2 DEF TreeInv
  <1>4. TreeInv'
    BY <1>1, <1>2, <1>3 DEF TreeInv
  <1>5. \A raw \in stable' : raw \in DOMAIN tree' /\ IsNumericVersion(raw) /\ PickModelFile(tree'[raw]) # ""
    BY <1>2, <1>3, ServableIs
  <1>6. StableIn(tree', stable')
    BY <1>5 DEF StableIn
  <1>7. stable' \subseteq stable
    BY <1>2
  <1>8. task.pc = "scan" => ScanGoesOn(task.groups)'
    BY <1>2, <1>7 DEF ScanInv, ScanGoesOn
  <1>9. task.pc \notin {"start", "scan"} => ScanIsOver'
    BY <1>2, <1>7 DEF ScanInv, ScanIsOver
  <1>10. task.pc = "start" => stable' = {}
    BY <1>7 DEF ScanInv
  <1> QED
    BY <1>2, <1>4, <1>6, <1>8, <1>9, <1>10 DEF ScanInv

\* A step of another component leaves ScanInv alone.
LEMMA ScanStutters ==
    ASSUME ScanInv, UNCHANGED repositoryVars
    PROVE  ScanInv'
  <1>1. tree' = tree /\ task' = task /\ catalog' = catalog /\ stable' = stable /\ changes' = changes
    BY DEF repositoryVars
  <1> QED
    BY <1>1 DEF ScanInv, TreeInv, ScanGoesOn, ScanIsOver

-----------------------------------------------------------------------------
(* A lookup, while the tree is what it was.                                *)

\* What a lookup of a version finds in a tree that does not change.
FoundIn(t, v) ==
    IF v \in DOMAIN GroupVersions(DOMAIN t)
    THEN PickedOf(t, GroupVersions(DOMAIN t)[v], v) ELSE NoModel

\* The groups the scan has yet to try are the tree's.
SomeGroups(t, groups) ==
    \A v \in DOMAIN groups : v \in DOMAIN GroupVersions(DOMAIN t) /\ groups[v] = GroupVersions(DOMAIN t)[v]

\* The scan found what a lookup would.
CatalogIs(t) ==
    catalog # NoModel =>
        catalog.version \in DOMAIN GroupVersions(DOMAIN t) /\ catalog = FoundIn(t, catalog.version)

\* A lookup of a version found what the tree holds for it.
LookupIs(t, asked) == IsNumericVersion(asked) => found = FoundIn(t, CanonicalVersion(asked))

\* The inductive invariant behind ResolveAgreesWithScan.
ResolveInv ==
    /\ TreeInv
    /\ task.pc \in {"resolve", "resolved"} => task.asked \in RawNames
    /\ task.pc = "resolve" => IsNumericVersion(task.asked)
    /\ changes = 0 =>
          /\ CatalogIs(tree)
          /\ task.pc = "scan" => SomeGroups(tree, task.groups) /\ Listed(task.groups)
          /\ task.pc = "resolve" => task.groups = GroupVersions(DOMAIN tree)
          /\ task.pc = "resolved" => LookupIs(tree, task.asked)

\* ResolveInv holds before the scan.
LEMMA ResolveInit ==
    ASSUME RepositoryInit
    PROVE  ResolveInv
  <1>1. TreeInv
    BY ScanInit DEF ScanInv
  <1>2. task = [pc |-> "start", groups |-> <<>>, asked |-> <<>>] /\ catalog = NoModel
    BY DEF RepositoryInit, NoTask
  <1> QED
    BY <1>1, <1>2 DEF ResolveInv, CatalogIs

\* ResolveInv, action by action: the scan lists the tree,
LEMMA BeginScanKeepsResolve ==
    ASSUME ResolveInv, BeginScan, TreeInv'
    PROVE  ResolveInv'
  <1> DEFINE g == GroupVersions(DOMAIN tree)
  <1>1. TreeInv
    BY DEF ResolveInv
  <1>2. task' = [task EXCEPT !.pc = "scan", !.groups = g] /\ task.pc = "start"
        /\ tree' = tree /\ catalog' = catalog /\ changes' = changes
    BY Zenon DEF BeginScan
  <1>3. Listed(g)
    BY <1>1, GroupsAreListed DEF TreeInv
  <1>4. SomeGroups(tree, g)
    BY DEF SomeGroups
  <1> HIDE DEF g
  <1>5. task' = [pc |-> "scan", groups |-> g, asked |-> task.asked]
    BY <1>1, <1>2 DEF TreeInv
  <1>6. changes = 0 => CatalogIs(tree)'
    BY <1>2 DEF ResolveInv, CatalogIs
  <1>7. changes = 0 => CatalogIs(tree)' /\ SomeGroups(tree', task'.groups) /\ Listed(task'.groups)
    BY <1>2, <1>3, <1>4, <1>5, <1>6
  <1> QED
    BY <1>2, <1>5, <1>7 DEF ResolveInv

\* picks what a lookup of that version would find,
LEMMA ScanGroupKeepsResolve ==
    ASSUME ResolveInv, ScanGroup, TreeInv'
    PROVE  ResolveInv'
  <1> DEFINE g == task.groups
             v == HighestVersion(DOMAIN g)
             rest == Restrict(g, DOMAIN g \ {v})
  <1>1. task.pc = "scan" /\ DOMAIN g # {} /\ catalog' = Picked(g, v)
        /\ task' = (IF catalog' = NoModel THEN [task EXCEPT !.groups = rest] ELSE NoTask)
        /\ tree' = tree /\ changes' = changes
    BY Zenon DEF ScanGroup
  <1>2. TreeInv
    BY DEF ResolveInv
  <1>3. task' = [pc |-> "scan", groups |-> rest, asked |-> task.asked]
        \/ task' = [pc |-> "idle", groups |-> <<>>, asked |-> <<>>]
    <2> HIDE DEF rest
    <2> QED
      BY <1>1, <1>2 DEF TreeInv, NoTask
  <1>4. SUFFICES ASSUME changes = 0
                 PROVE  CatalogIs(tree)' /\ (task'.pc = "scan" => SomeGroups(tree, rest) /\ Listed(rest))
    <2> HIDE DEF rest
    <2> QED
      BY <1>1, <1>3, <1>4 DEF ResolveInv
  <1>5. SomeGroups(tree, g) /\ Listed(g)
    BY <1>1, <1>4 DEF ResolveInv
  <1>6. Listed(rest)
    BY <1>5, OthersAreListed
  <1>7. SomeGroups(tree, rest)
    BY <1>5 DEF SomeGroups, Restrict
  <1>8. v \in DOMAIN g
    <2> DEFINE versions == DOMAIN g
    <2>1. IsFiniteSet(versions) /\ versions # {} /\ \A w \in versions : Canonical(w)
      BY <1>1, <1>5 DEF Listed
    <2> HIDE DEF versions
    <2>2. HighestVersion(versions) \in versions
      BY <2>1, HighestVersionIs
    <2> QED
      BY <2>2 DEF versions
  <1>9. catalog' = PickedOf(tree, g[v], v)
    BY <1>1, PickedIs
  <1> HIDE DEF g, v
  <1>10. catalog' = FoundIn(tree, v) /\ v \in DOMAIN GroupVersions(DOMAIN tree)
    BY <1>5, <1>8, <1>9 DEF SomeGroups, FoundIn
  <1>11. catalog' # NoModel => catalog'.version = v
    BY <1>9, PickedVersion
  <1>12. CatalogIs(tree)'
    BY <1>1, <1>10, <1>11 DEF CatalogIs
  <1> QED
    BY <1>6, <1>7, <1>12

\* or ends without a version;
LEMMA ScanEndKeepsResolve ==
    ASSUME ResolveInv, ScanEnd, TreeInv'
    PROVE  ResolveInv'
  <1>1. task' = [pc |-> "idle", groups |-> <<>>, asked |-> <<>>]
        /\ tree' = tree /\ catalog' = catalog /\ changes' = changes
    BY DEF ScanEnd, NoTask
  <1>2. changes = 0 => CatalogIs(tree)'
    BY <1>1 DEF ResolveInv, CatalogIs
  <1> QED
    BY <1>1, <1>2 DEF ResolveInv

\* a lookup lists the tree again,
LEMMA BeginResolveKeeps ==
    ASSUME ResolveInv, NEW asked \in RawNames, BeginResolve(asked), TreeInv'
    PROVE  ResolveInv'
  <1> DEFINE g == GroupVersions(DOMAIN tree)
  <1>1. task' = (IF IsNumericVersion(asked) THEN [pc |-> "resolve", groups |-> g, asked |-> asked]
                 ELSE [NoTask EXCEPT !.pc = "resolved", !.asked = asked])
        /\ tree' = tree /\ catalog' = catalog /\ changes' = changes
    BY Zenon DEF BeginResolve
  <1> HIDE DEF g
  <1>2. \/ IsNumericVersion(asked) /\ task' = [pc |-> "resolve", groups |-> g, asked |-> asked]
        \/ ~IsNumericVersion(asked) /\ task' = [pc |-> "resolved", groups |-> <<>>, asked |-> asked]
    BY <1>1 DEF NoTask
  <1>3. changes = 0 => CatalogIs(tree)'
    BY <1>1 DEF ResolveInv, CatalogIs
  <1>4. CASE IsNumericVersion(asked) /\ task' = [pc |-> "resolve", groups |-> g, asked |-> asked]
    <2>1. task'.pc = "resolve" /\ task'.asked = asked /\ task'.groups = GroupVersions(DOMAIN tree')
      BY <1>1, <1>4 DEF g
    <2> QED
      BY <1>1, <1>3, <1>4, <2>1 DEF ResolveInv
  <1>5. CASE ~IsNumericVersion(asked) /\ task' = [pc |-> "resolved", groups |-> <<>>, asked |-> asked]
    <2>1. task'.pc = "resolved" /\ task'.asked = asked
      BY <1>5
    <2>2. LookupIs(tree, task.asked)'
      BY <1>5, <2>1 DEF LookupIs
    <2> QED
      BY <1>1, <1>3, <2>1, <2>2 DEF ResolveInv
  <1> QED
    BY <1>2, <1>4, <1>5

\* finds the group of its version,
LEMMA EndResolveKeeps ==
    ASSUME ResolveInv, EndResolve, TreeInv'
    PROVE  ResolveInv'
  <1> DEFINE target == CanonicalVersion(task.asked)
  <1>1. task.pc = "resolve" /\ task' = [task EXCEPT !.pc = "resolved"]
        /\ found' = (IF target \in DOMAIN task.groups THEN Picked(task.groups, target) ELSE NoModel)
        /\ tree' = tree /\ catalog' = catalog /\ changes' = changes
    BY Zenon DEF EndResolve, TargetVersion
  <1>2. TreeInv /\ task.asked \in RawNames /\ IsNumericVersion(task.asked)
    BY <1>1 DEF ResolveInv
  <1>3. task' = [pc |-> "resolved", groups |-> task.groups, asked |-> task.asked]
    BY <1>1, <1>2 DEF TreeInv
  <1>4. changes = 0 => CatalogIs(tree)'
    BY <1>1 DEF ResolveInv, CatalogIs
  <1> HIDE DEF target
  <1>5. ASSUME changes = 0 PROVE found' = FoundIn(tree, target)
    <2>1. task.groups = GroupVersions(DOMAIN tree)
      BY <1>1, <1>5 DEF ResolveInv
    <2>2. Picked(task.groups, target) = PickedOf(tree, task.groups[target], target)
      BY PickedIs
    <2> QED
      BY <1>1, <2>1, <2>2 DEF FoundIn
  <1>6. changes = 0 => LookupIs(tree, task.asked)'
    BY <1>1, <1>3, <1>5 DEF LookupIs, target
  <1> QED
    BY <1>1, <1>2, <1>3, <1>4, <1>6 DEF ResolveInv

\* and returns;
LEMMA ReturnKeeps ==
    ASSUME ResolveInv, Return, TreeInv'
    PROVE  ResolveInv'
  <1>1. task' = [pc |-> "idle", groups |-> <<>>, asked |-> <<>>]
        /\ tree' = tree /\ catalog' = catalog /\ changes' = changes
    BY DEF Return, NoTask
  <1>2. changes = 0 => CatalogIs(tree)'
    BY <1>1 DEF ResolveInv, CatalogIs
  <1> QED
    BY <1>1, <1>2 DEF ResolveInv

\* after a change to the tree the invariant asks for nothing.
LEMMA ChangeKeepsResolve ==
    ASSUME ResolveInv, ChangeTree, TreeInv'
    PROVE  ResolveInv'
  <1>1. changes' = changes + 1 /\ changes \in Nat /\ task' = task
    BY DEF ChangeTree, ResolveInv, TreeInv
  <1>2. changes' # 0
    BY <1>1
  <1> QED
    BY <1>1, <1>2 DEF ResolveInv

\* A step of another component leaves ResolveInv alone.
LEMMA ResolveStutters ==
    ASSUME ResolveInv, UNCHANGED repositoryVars
    PROVE  ResolveInv'
  <1>1. tree' = tree /\ task' = task /\ catalog' = catalog /\ found' = found /\ changes' = changes
    BY DEF repositoryVars
  <1> QED
    BY <1>1 DEF ResolveInv, TreeInv, CatalogIs, LookupIs

-----------------------------------------------------------------------------
(* The theorems.                                                           *)

\* Both.
RepositoryInv == ScanInv /\ ResolveInv

\* Every action keeps it.
LEMMA RepositoryStep ==
    ASSUME RepositoryInv, [RepositoryNext]_repositoryVars
    PROVE  RepositoryInv'
  <1>1. ScanInv /\ ResolveInv
    BY DEF RepositoryInv
  <1>2. ASSUME ScanInv', ResolveInv' PROVE RepositoryInv'
    BY <1>2 DEF RepositoryInv
  <1>3. ASSUME ScanInv' PROVE TreeInv'
    BY <1>3 DEF ScanInv
  <1>4. CASE BeginScan
    BY <1>1, <1>2, <1>3, <1>4, ScanBegins, BeginScanKeepsResolve
  <1>5. CASE ScanGroup
    BY <1>1, <1>2, <1>3, <1>5, ScanGroupKeeps, ScanGroupKeepsResolve
  <1>6. CASE ScanEnd
    BY <1>1, <1>2, <1>3, <1>6, ScanEnds, ScanEndKeepsResolve
  <1>7. CASE LookupStep
    <2>1. ScanInv' /\ TreeInv'
      BY <1>1, <1>3, <1>7, LookupKeepsScan
    <2>2. CASE \E asked \in RawNames : BeginResolve(asked)
      BY <1>1, <1>2, <2>1, <2>2, BeginResolveKeeps
    <2>3. CASE EndResolve
      BY <1>1, <1>2, <2>1, <2>3, EndResolveKeeps
    <2>4. CASE Return
      BY <1>1, <1>2, <2>1, <2>4, ReturnKeeps
    <2> QED
      BY <1>7, <2>2, <2>3, <2>4 DEF LookupStep
  <1>8. CASE ChangeTree
    BY <1>1, <1>2, <1>3, <1>8, ChangeKeepsScan, ChangeKeepsResolve
  <1>9. CASE UNCHANGED repositoryVars
    BY <1>1, <1>2, <1>9, ScanStutters, ResolveStutters
  <1> QED
    BY <1>4, <1>5, <1>6, <1>7, <1>8, <1>9 DEF RepositoryNext, LookupStep

\* The inductive invariant of the scan at startup and of the lookups of load requests:
\* the groups that are left hold whatever could be served all along, and as long as the
\* tree is what it was, scan and lookup pick the same file of a group.
THEOREM RepositoryInvariant == RepositorySpec => []RepositoryInv
  <1>1. RepositoryInit => RepositoryInv
    BY ScanInit, ResolveInit DEF RepositoryInv
  <1>2. RepositoryInv /\ [RepositoryNext]_repositoryVars => RepositoryInv'
    BY RepositoryStep
  <1> QED
    BY <1>1, <1>2, PTL DEF RepositorySpec

\* Whatever becomes of the tree while scanModelRepository walks over it, it ends with a
\* version at least as high, as a number, as every version that could be served from the
\* beginning of the scan to its end, for names of any length.
THEOREM ScanServesHighestAlways == RepositorySpec => []ScanServesHighest
  <1>1. RepositoryInv => ScanServesHighest
    BY DEF RepositoryInv, ScanInv, ScanIsOver, ScanServesHighest
  <1> QED
    BY <1>1, RepositoryInvariant, PTL

\* resolveRepositoryModelVersion, asked for the number of the version that is served,
\* with zeros in front or without, finds the directory and file that the scan found, as
\* long as nobody has changed the tree.
THEOREM ResolveAgreesWithScanAlways == RepositorySpec => []ResolveAgreesWithScan
  <1>1. ASSUME RepositoryInv PROVE ResolveAgreesWithScan
    <2>1. ResolveInv
      BY <1>1 DEF RepositoryInv
    <2> SUFFICES ASSUME task.pc = "resolved", IsNumericVersion(task.asked), changes = 0,
                        catalog # NoModel, Value(task.asked) = Value(catalog.version)
                 PROVE  found = catalog
      BY DEF ResolveAgreesWithScan
    <2> DEFINE v == CanonicalVersion(task.asked)
               w == catalog.version
    <2>2. TreeInv /\ task.asked \in RawNames /\ CatalogIs(tree) /\ LookupIs(tree, task.asked)
      BY <2>1 DEF ResolveInv
    <2>3. Canonical(v) /\ Value(v) = Value(task.asked)
      BY <2>2, NumericVersionIs
    <2>4. w \in DOMAIN GroupVersions(DOMAIN tree) /\ catalog = FoundIn(tree, w)
      BY <2>2 DEF CatalogIs
    <2>5. Canonical(w)
      BY <2>2, <2>4, GroupsAreListed DEF Listed, TreeInv
    <2>6. found = FoundIn(tree, v)
      BY <2>2 DEF LookupIs
    <2>7. Value(v) = Value(w)
      BY <2>3
    <2> HIDE DEF v, w
    <2>8. v = w
      BY <2>3, <2>5, <2>7, SameValue
    <2> QED
      BY <2>4, <2>6, <2>8
  <1> QED
    BY <1>1, RepositoryInvariant, PTL

==============================================================================
