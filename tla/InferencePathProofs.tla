------------------------- MODULE InferencePathProofs -------------------------
(***************************************************************************)
(* What is proved of InferencePath, for any number of clients, any bodies, *)
(* any inputs of the model and any width of size_t: where its requests are *)
(* (PathInv), that they are counted once, that the codec of HTTP gives     *)
(* each input its own bytes and admits only what can be executed, and that *)
(* a batch gives every member its own rows (OwnRows).                      *)
(***************************************************************************)
EXTENDS InferencePath, InductionLemmas, SequenceTheorems

-----------------------------------------------------------------------------
(* The folds of the model.                                                 *)

\* p is what is kept of the first elements.
Keeps(p, D, seq, S) ==
    /\ p \in [0 .. Len(seq) -> Seq(D)] /\ p[0] = <<>> /\ p[Len(seq)] = Those(seq, S)
    /\ \A i \in 1 .. Len(seq) : p[i] = IF seq[i] \in S THEN Append(p[i - 1], seq[i]) ELSE p[i - 1]

\* Those goes through the sequence one element after the other.
LEMMA ThoseTurns ==
    ASSUME NEW D, NEW seq \in Seq(D), NEW S
    PROVE  \E p : Keeps(p, D, seq, S)
  <1> DEFINE n == Len(seq)
             A == Seq(D)
             base == <<>>
             Turn(kept, e) == IF e \in S THEN Append(kept, e) ELSE kept
             Solves(g) == g = [s \in SUBSET DOMAIN seq |->
                                 IF s = {} THEN base ELSE Turn(g[s \ {Max(s)}], seq[Max(s)])]
             step == [a \in A \X (1 .. n) |-> Turn(a[1], seq[a[2]])]
             iter == CHOOSE g : Solves(g)
  <1>1. Those(seq, S) = iter[DOMAIN seq]
    BY Zenon DEF Those, FoldLeft, MapThenFoldSet
  <1>2. n \in Nat /\ DOMAIN seq = 1 .. n /\ base \in A
    OBVIOUS
  <1>3. \A a \in A, i \in 1 .. n : Turn(a, seq[i]) \in A
    OBVIOUS
  <1>4. step \in [A \X (1 .. n) -> A] /\ \A a \in A, i \in 1 .. n : step[<<a, i>>] = Turn(a, seq[i])
    <2> HIDE DEF Turn, A, n
    <2> QED
      BY <1>3
  <1> HIDE DEF n, A, base, step, Turn
  <1>5. \A s \in SUBSET (1 .. n) : s # {} => Max(s) \in 1 .. n /\ s \ {Max(s)} \in SUBSET (1 .. n)
    BY <1>2, MaxIsMember
  <1>6. PICK h \in [SUBSET (1 .. n) -> A] : FoldOf(h, n, base, step)
    BY <1>2, <1>4, FoldExists
  <1>7. Solves(h)
    BY <1>2, <1>4, <1>5, <1>6 DEF FoldOf
  <1>8. Solves(iter)
    <2> HIDE DEF Solves
    <2> QED
      BY <1>7
  <1> HIDE DEF iter
  <1>9. FoldWithin(iter, n, A, base, step)
    BY <1>2, <1>4, <1>5, <1>8 DEF FoldWithin
  <1> HIDE DEF Solves
  <1>10. PICK p : FoldTurns(p, n, A, base, step, iter[1 .. n])
    BY <1>2, <1>4, <1>9, FoldPrefixes
  <1>11. ASSUME NEW i \in 1 .. n PROVE p[i] = Turn(p[i - 1], seq[i])
    <2>1. p[i - 1] \in A /\ p[i] = step[<<p[i - 1], i>>]
      BY <1>2, <1>10 DEF FoldTurns
    <2> QED
      BY <1>4, <2>1
  <1> QED
    BY <1>1, <1>2, <1>10, <1>11 DEF Turn, n, A, base, FoldTurns, Keeps

\* So does Sum.
LEMMA SumTurns ==
    ASSUME NEW sizes \in Seq(Int)
    PROVE  \E p \in [0 .. Len(sizes) -> Int] :
             /\ p[0] = 0 /\ p[Len(sizes)] = Sum(sizes)
             /\ \A i \in 1 .. Len(sizes) : p[i] = p[i - 1] + sizes[i]
  <1> DEFINE n == Len(sizes)
             A == Int
             base == 0
             Turn(m, d) == m + d
             Solves(g) == g = [s \in SUBSET DOMAIN sizes |->
                                 IF s = {} THEN base ELSE Turn(g[s \ {Max(s)}], sizes[Max(s)])]
             step == [a \in A \X (1 .. n) |-> Turn(a[1], sizes[a[2]])]
             iter == CHOOSE g : Solves(g)
  <1>1. Sum(sizes) = iter[DOMAIN sizes]
    BY Zenon DEF Sum, FoldLeft, MapThenFoldSet
  <1>2. n \in Nat /\ DOMAIN sizes = 1 .. n /\ base \in A
    OBVIOUS
  <1>3. \A a \in A, i \in 1 .. n : Turn(a, sizes[i]) \in A
    OBVIOUS
  <1>4. step \in [A \X (1 .. n) -> A] /\ \A a \in A, i \in 1 .. n : step[<<a, i>>] = Turn(a, sizes[i])
    <2> HIDE DEF Turn, A, n
    <2> QED
      BY <1>3
  <1> HIDE DEF n, A, base, step, Turn
  <1>5. \A s \in SUBSET (1 .. n) : s # {} => Max(s) \in 1 .. n /\ s \ {Max(s)} \in SUBSET (1 .. n)
    BY <1>2, MaxIsMember
  <1>6. PICK h \in [SUBSET (1 .. n) -> A] : FoldOf(h, n, base, step)
    BY <1>2, <1>4, FoldExists
  <1>7. Solves(h)
    BY <1>2, <1>4, <1>5, <1>6 DEF FoldOf
  <1>8. Solves(iter)
    <2> HIDE DEF Solves
    <2> QED
      BY <1>7
  <1> HIDE DEF iter
  <1>9. FoldWithin(iter, n, A, base, step)
    BY <1>2, <1>4, <1>5, <1>8 DEF FoldWithin
  <1> HIDE DEF Solves
  <1>10. PICK p : FoldTurns(p, n, A, base, step, iter[1 .. n])
    BY <1>2, <1>4, <1>9, FoldPrefixes
  <1>11. ASSUME NEW i \in 1 .. n PROVE p[i] = Turn(p[i - 1], sizes[i])
    <2>1. p[i - 1] \in A /\ p[i] = step[<<p[i - 1], i>>]
      BY <1>2, <1>10 DEF FoldTurns
    <2> QED
      BY <1>4, <2>1
  <1> QED
    BY <1>1, <1>2, <1>10, <1>11 DEF Turn, n, A, base, FoldTurns

\* The product before it wraps around.
Product(shape) == FoldLeft(LAMBDA n, d : n * d, 1, shape)

\* And the product of dimensions before it wraps around.
LEMMA ProductTurns ==
    ASSUME NEW shape \in Seq(Int)
    PROVE  \E p \in [0 .. Len(shape) -> Int] :
             /\ p[0] = 1 /\ p[Len(shape)] = Product(shape)
             /\ \A i \in 1 .. Len(shape) : p[i] = p[i - 1] * shape[i]
  <1> DEFINE n == Len(shape)
             A == Int
             base == 1
             Turn(m, d) == m * d
             Solves(g) == g = [s \in SUBSET DOMAIN shape |->
                                 IF s = {} THEN base ELSE Turn(g[s \ {Max(s)}], shape[Max(s)])]
             step == [a \in A \X (1 .. n) |-> Turn(a[1], shape[a[2]])]
             iter == CHOOSE g : Solves(g)
  <1>1. Product(shape) = iter[DOMAIN shape]
    BY Zenon DEF Product, FoldLeft, MapThenFoldSet
  <1>2. n \in Nat /\ DOMAIN shape = 1 .. n /\ base \in A
    OBVIOUS
  <1>3. \A a \in A, i \in 1 .. n : Turn(a, shape[i]) \in A
    OBVIOUS
  <1>4. step \in [A \X (1 .. n) -> A] /\ \A a \in A, i \in 1 .. n : step[<<a, i>>] = Turn(a, shape[i])
    <2> HIDE DEF Turn, A, n
    <2> QED
      BY <1>3
  <1> HIDE DEF n, A, base, step, Turn
  <1>5. \A s \in SUBSET (1 .. n) : s # {} => Max(s) \in 1 .. n /\ s \ {Max(s)} \in SUBSET (1 .. n)
    BY <1>2, MaxIsMember
  <1>6. PICK h \in [SUBSET (1 .. n) -> A] : FoldOf(h, n, base, step)
    BY <1>2, <1>4, FoldExists
  <1>7. Solves(h)
    BY <1>2, <1>4, <1>5, <1>6 DEF FoldOf
  <1>8. Solves(iter)
    <2> HIDE DEF Solves
    <2> QED
      BY <1>7
  <1> HIDE DEF iter
  <1>9. FoldWithin(iter, n, A, base, step)
    BY <1>2, <1>4, <1>5, <1>8 DEF FoldWithin
  <1> HIDE DEF Solves
  <1>10. PICK p : FoldTurns(p, n, A, base, step, iter[1 .. n])
    BY <1>2, <1>4, <1>9, FoldPrefixes
  <1>11. ASSUME NEW i \in 1 .. n PROVE p[i] = Turn(p[i - 1], shape[i])
    <2>1. p[i - 1] \in A /\ p[i] = step[<<p[i - 1], i>>]
      BY <1>2, <1>10 DEF FoldTurns
    <2> QED
      BY <1>4, <2>1
  <1> QED
    BY <1>1, <1>2, <1>10, <1>11 DEF Turn, n, A, base, FoldTurns

\* And tensorElementCount, which keeps to counts of its width.
LEMMA TensorElementCountTurns ==
    ASSUME NEW shape \in Seq(Int)
    PROVE  \E p \in [0 .. Len(shape) -> [count : Nat, overflowed : BOOLEAN]] :
             /\ p[0] = [count |-> 1, overflowed |-> FALSE] /\ p[Len(shape)] = TensorElementCount(shape)
             /\ \A i \in 1 .. Len(shape) : p[i] = Factor(p[i - 1], shape[i])
  <1> DEFINE n == Len(shape)
             A == [count : Nat, overflowed : BOOLEAN]
             base == [count |-> 1, overflowed |-> FALSE]
             Turn(acc, d) == Factor(acc, d)
             Solves(g) == g = [s \in SUBSET DOMAIN shape |->
                                 IF s = {} THEN base ELSE Turn(g[s \ {Max(s)}], shape[Max(s)])]
             step == [a \in A \X (1 .. n) |-> Turn(a[1], shape[a[2]])]
             iter == CHOOSE g : Solves(g)
  <1>1. TensorElementCount(shape) = iter[DOMAIN shape]
    BY Zenon DEF TensorElementCount, Factor, FoldLeft, MapThenFoldSet
  <1>2. n \in Nat /\ DOMAIN shape = 1 .. n /\ base \in A
    OBVIOUS
  <1>3. \A a \in A, i \in 1 .. n : Turn(a, shape[i]) \in A
    <2>1. ASSUME NEW a \in A, NEW d \in Int PROVE Turn(a, d) \in A
      <3>1. CASE a.count = 0 \/ d <= 0
        BY <3>1 DEF Factor
      <3>2. CASE ~(a.count = 0 \/ d <= 0)
        <4>1. a.count * d \in Nat
          BY <3>2
        <4> QED
          BY <4>1, <3>2 DEF Factor
      <3> QED
        BY <3>1, <3>2
    <2>2. \A i \in 1 .. n : shape[i] \in Int
      OBVIOUS
    <2> HIDE DEF Turn, A, n
    <2> QED
      BY <2>1, <2>2
  <1>4. step \in [A \X (1 .. n) -> A] /\ \A a \in A, i \in 1 .. n : step[<<a, i>>] = Turn(a, shape[i])
    <2> HIDE DEF Turn, A, n
    <2> QED
      BY <1>3
  <1> HIDE DEF n, A, base, step, Turn
  <1>5. \A s \in SUBSET (1 .. n) : s # {} => Max(s) \in 1 .. n /\ s \ {Max(s)} \in SUBSET (1 .. n)
    BY <1>2, MaxIsMember
  <1>6. PICK h \in [SUBSET (1 .. n) -> A] : FoldOf(h, n, base, step)
    BY <1>2, <1>4, FoldExists
  <1>7. Solves(h)
    BY <1>2, <1>4, <1>5, <1>6 DEF FoldOf
  <1>8. Solves(iter)
    <2> HIDE DEF Solves
    <2> QED
      BY <1>7
  <1> HIDE DEF iter
  <1>9. FoldWithin(iter, n, A, base, step)
    BY <1>2, <1>4, <1>5, <1>8 DEF FoldWithin
  <1> HIDE DEF Solves
  <1>10. PICK p : FoldTurns(p, n, A, base, step, iter[1 .. n])
    BY <1>2, <1>4, <1>9, FoldPrefixes
  <1>11. ASSUME NEW i \in 1 .. n PROVE p[i] = Turn(p[i - 1], shape[i])
    <2>1. p[i - 1] \in A /\ p[i] = step[<<p[i - 1], i>>]
      BY <1>2, <1>10 DEF FoldTurns
    <2> QED
      BY <1>4, <2>1
  <1> QED
    BY <1>1, <1>2, <1>10, <1>11 DEF Turn, n, A, base, FoldTurns

\* And elementCount of the executor.
LEMMA ElementCountTurns ==
    ASSUME NEW shape \in Seq(Int)
    PROVE  \E p \in [0 .. Len(shape) -> [ok : BOOLEAN, count : Nat]] :
             /\ p[0] = [ok |-> TRUE, count |-> 1] /\ p[Len(shape)] = ElementCount(shape)
             /\ \A i \in 1 .. Len(shape) : p[i] = Dimension(p[i - 1], shape[i])
  <1> DEFINE n == Len(shape)
             A == [ok : BOOLEAN, count : Nat]
             base == [ok |-> TRUE, count |-> 1]
             Turn(acc, d) == Dimension(acc, d)
             Solves(g) == g = [s \in SUBSET DOMAIN shape |->
                                 IF s = {} THEN base ELSE Turn(g[s \ {Max(s)}], shape[Max(s)])]
             step == [a \in A \X (1 .. n) |-> Turn(a[1], shape[a[2]])]
             iter == CHOOSE g : Solves(g)
  <1>1. ElementCount(shape) = iter[DOMAIN shape]
    BY Zenon DEF ElementCount, Dimension, FoldLeft, MapThenFoldSet
  <1>2. n \in Nat /\ DOMAIN shape = 1 .. n /\ base \in A
    OBVIOUS
  <1>3. \A a \in A, i \in 1 .. n : Turn(a, shape[i]) \in A
    <2>1. ASSUME NEW a \in A, NEW d \in Int PROVE Turn(a, d) \in A
      <3>1. CASE d < 0
        BY <3>1 DEF Dimension
      <3>2. CASE ~(d < 0)
        <4>1. a.count * d \in Nat
          BY <3>2
        <4> QED
          BY <4>1, <3>2 DEF Dimension
      <3> QED
        BY <3>1, <3>2
    <2>2. \A i \in 1 .. n : shape[i] \in Int
      OBVIOUS
    <2> HIDE DEF Turn, A, n
    <2> QED
      BY <2>1, <2>2
  <1>4. step \in [A \X (1 .. n) -> A] /\ \A a \in A, i \in 1 .. n : step[<<a, i>>] = Turn(a, shape[i])
    <2> HIDE DEF Turn, A, n
    <2> QED
      BY <1>3
  <1> HIDE DEF n, A, base, step, Turn
  <1>5. \A s \in SUBSET (1 .. n) : s # {} => Max(s) \in 1 .. n /\ s \ {Max(s)} \in SUBSET (1 .. n)
    BY <1>2, MaxIsMember
  <1>6. PICK h \in [SUBSET (1 .. n) -> A] : FoldOf(h, n, base, step)
    BY <1>2, <1>4, FoldExists
  <1>7. Solves(h)
    BY <1>2, <1>4, <1>5, <1>6 DEF FoldOf
  <1>8. Solves(iter)
    <2> HIDE DEF Solves
    <2> QED
      BY <1>7
  <1> HIDE DEF iter
  <1>9. FoldWithin(iter, n, A, base, step)
    BY <1>2, <1>4, <1>5, <1>8 DEF FoldWithin
  <1> HIDE DEF Solves
  <1>10. PICK p : FoldTurns(p, n, A, base, step, iter[1 .. n])
    BY <1>2, <1>4, <1>9, FoldPrefixes
  <1>11. ASSUME NEW i \in 1 .. n PROVE p[i] = Turn(p[i - 1], shape[i])
    <2>1. p[i - 1] \in A /\ p[i] = step[<<p[i - 1], i>>]
      BY <1>2, <1>10 DEF FoldTurns
    <2> QED
      BY <1>4, <2>1
  <1> QED
    BY <1>1, <1>2, <1>10, <1>11 DEF Turn, n, A, base, FoldTurns

-----------------------------------------------------------------------------
(* Flattened sequences.                                                    *)

\* FlattenSeq, turn by turn.
LEMMA FlattenTurns ==
    ASSUME NEW D, NEW f \in Seq(Seq(D))
    PROVE  \E p \in [0 .. Len(f) -> Seq(D)] :
             /\ p[0] = <<>> /\ p[Len(f)] = FlattenSeq(f)
             /\ \A i \in 1 .. Len(f) : p[i] = p[i - 1] \o f[i]
  <1> DEFINE n == Len(f)
             A == Seq(D)
             base == <<>>
             step == [a \in A \X (1 .. n) |-> a[1] \o f[a[2]]]
             Solves(g) == g = [i \in 1 .. n |-> IF i = 1 THEN f[i] ELSE g[i - 1] \o f[i]]
             iter == CHOOSE g : Solves(g)
  <1>1. FlattenSeq(f) = IF n = 0 THEN f ELSE iter[n]
    BY Zenon DEF FlattenSeq
  <1>2. n \in Nat /\ base \in A /\ \A i \in 1 .. n : f[i] \in A
    OBVIOUS
  <1>3. \A a \in A, i \in 1 .. n : a \o f[i] \in A
    BY <1>2
  <1>4. base = <<>> /\ \A a \in A : base \o a = a
    OBVIOUS
  <1>5. step \in [A \X (1 .. n) -> A] /\ \A a \in A, i \in 1 .. n : step[<<a, i>>] = a \o f[i]
    <2> HIDE DEF A, n
    <2> QED
      BY <1>3
  <1>6. n = 0 => f = base
    OBVIOUS
  <1> HIDE DEF n, A, base, step
  <1>7. PICK p : FoldTurns(p, n, A, base, step, p[n])
    BY <1>2, <1>5, TurnsExist
  <1>8. /\ p \in [0 .. n -> A] /\ p[0] = base
        /\ \A i \in 1 .. n : i - 1 \in 0 .. n /\ p[i] = p[i - 1] \o f[i]
    <2>1. \A i \in 1 .. n : i - 1 \in 0 .. n
      BY <1>2
    <2> QED
      BY <1>5, <1>7, <2>1 DEF FoldTurns
  <1>9. \E g : Solves(g)
    <2> DEFINE g == [i \in 1 .. n |-> p[i]]
    <2>1. ASSUME NEW i \in 1 .. n PROVE g[i] = IF i = 1 THEN f[i] ELSE g[i - 1] \o f[i]
      <3>1. CASE i = 1
        BY <1>2, <1>4, <1>8, <3>1
      <3>2. CASE i # 1
        <4>1. i - 1 \in 1 .. n
          BY <3>2, <1>2
        <4> QED
          BY <1>8, <3>2, <4>1
      <3> QED
        BY <3>1, <3>2
    <2>2. Solves(g)
      <3>1. g = [i \in 1 .. n |-> g[i]]
        OBVIOUS
      <3> HIDE DEF g
      <3> QED
        BY <2>1, <3>1
    <2> HIDE DEF g, Solves
    <2> QED
      BY <2>2
  <1>10. Solves(iter)
    <2> HIDE DEF Solves
    <2> QED
      BY <1>9
  <1> HIDE DEF iter
  <1>11. \A i \in 1 .. n : iter[i] = IF i = 1 THEN f[i] ELSE iter[i - 1] \o f[i]
    BY <1>10
  <1> HIDE DEF Solves
  <1> DEFINE good == {i \in 0 .. n : i # 0 => iter[i] = p[i]}
  <1>12. 0 \in good
    BY <1>2
  <1>13. ASSUME NEW i \in 1 .. n, i - 1 \in good PROVE i \in good
    <2>1. CASE i = 1
      <3>1. i - 1 = 0 /\ p[i] = p[i - 1] \o f[i] /\ f[i] \in A /\ p[0] = base
        <4> HIDE DEF good
        <4>1. p[i] = p[i - 1] \o f[i] /\ p[0] = base
          BY <1>8
        <4>2. f[i] \in A
          BY <1>2
        <4> QED
          BY <2>1, <4>1, <4>2
      <3>2. p[i] = base \o f[i]
        BY <3>1
      <3>3. iter[i] = f[i]
        BY <1>11, <2>1
      <3>4. iter[i] = p[i]
        BY <1>4, <3>1, <3>2, <3>3
      <3> QED
        BY <1>2, <3>4
    <2>2. CASE i # 1
      <3>1. iter[i - 1] = p[i - 1]
        BY <1>13, <2>2
      <3>2. iter[i] = p[i - 1] \o f[i]
        BY <1>11, <2>2, <3>1
      <3>3. iter[i] = p[i]
        BY <1>8, <3>2
      <3> QED
        BY <1>2, <3>3
    <2> QED
      BY <2>1, <2>2
  <1>14. \A i \in 0 .. n : i \in good
    <2> HIDE DEF good
    <2> QED
      BY <1>2, <1>12, <1>13, UpTo
  <1>15. FlattenSeq(f) = p[n]
    BY <1>1, <1>2, <1>6, <1>8, <1>14
  <1> QED
    BY <1>8, <1>15 DEF n, A, base

\* The i-th part of f begins behind the first o[i - 1] elements of the whole.
PartsAt(o, D, f) ==
    /\ o \in [0 .. Len(f) -> Nat] /\ o[0] = 0
    /\ \A i \in 1 .. Len(f) : o[i] = o[i - 1] + Len(f[i]) /\ o[i] <= o[Len(f)]
    /\ FlattenSeq(f) \in Seq(D) /\ Len(FlattenSeq(f)) = o[Len(f)]
    /\ \A i \in 1 .. Len(f) : \A k \in 1 .. Len(f[i]) : FlattenSeq(f)[o[i - 1] + k] = f[i][k]

\* Where the parts of a flattened sequence begin, and that each of them is there.
LEMMA FlattenParts ==
    ASSUME NEW D, NEW f \in Seq(Seq(D))
    PROVE  \E o : PartsAt(o, D, f)
  <1> DEFINE n == Len(f)
  <1>1. PICK p \in [0 .. n -> Seq(D)] :
             /\ p[0] = <<>> /\ p[n] = FlattenSeq(f)
             /\ \A i \in 1 .. n : p[i] = p[i - 1] \o f[i]
    BY FlattenTurns
  <1> DEFINE o == [i \in 0 .. n |-> Len(p[i])]
             good == {j \in 0 .. n : \A i \in 1 .. j : o[i] <= o[j] /\ \A k \in 1 .. Len(f[i]) : p[j][o[i - 1] + k] = f[i][k]}
  <1>2. n \in Nat /\ o \in [0 .. n -> Nat] /\ o[0] = 0
    BY <1>1
  <1>3. ASSUME NEW i \in 1 .. n
        PROVE  /\ i - 1 \in 0 .. n /\ p[i - 1] \in Seq(D) /\ f[i] \in Seq(D)
               /\ o[i] = o[i - 1] + Len(f[i]) /\ o[i - 1] = Len(p[i - 1])
               /\ \A k \in 1 .. Len(f[i]) : p[i][o[i - 1] + k] = f[i][k]
               /\ \A k \in 1 .. o[i - 1] : p[i][k] = p[i - 1][k]
    <2>1. i - 1 \in 0 .. n /\ f[i] \in Seq(D)
      OBVIOUS
    <2>2. p[i - 1] \in Seq(D) /\ p[i] = p[i - 1] \o f[i]
      BY <1>1, <2>1
    <2>3. o[i - 1] = Len(p[i - 1]) /\ o[i] = Len(p[i])
      BY <2>1
    <2> HIDE DEF o, n
    <2> QED
      BY <2>1, <2>2, <2>3
  <1> HIDE DEF o, n
  <1>4. 0 \in good
    BY <1>2
  <1>5. ASSUME NEW j \in 1 .. n, j - 1 \in good PROVE j \in good
    <2>1. ASSUME NEW i \in 1 .. j
          PROVE  o[i] <= o[j] /\ \A k \in 1 .. Len(f[i]) : p[j][o[i - 1] + k] = f[i][k]
      <3>1. CASE i = j
        <4>1. j \in 1 .. n /\ o[j] \in Nat
          BY <1>2
        <4> QED
          BY <1>3, <3>1, <4>1
      <3>2. CASE i # j
        <4>1. i \in 1 .. j - 1 /\ i \in 1 .. n
          BY <3>2, <1>2
        <4>2. o[i] <= o[j - 1] /\ \A k \in 1 .. Len(f[i]) : p[j - 1][o[i - 1] + k] = f[i][k]
          BY <1>5, <4>1
        <4> HIDE DEF good
        <4>3. /\ o[i] \in Nat /\ o[i - 1] \in Nat /\ o[j] \in Nat /\ o[j - 1] \in Nat
              /\ Len(f[i]) \in Nat /\ Len(f[j]) \in Nat
          <5>1. i \in 0 .. n /\ i - 1 \in 0 .. n /\ j \in 0 .. n /\ j - 1 \in 0 .. n
            BY <1>2, <4>1
          <5>2. f[i] \in Seq(D) /\ f[j] \in Seq(D)
            BY <1>3, <4>1
          <5>3. Len(f[i]) \in Nat /\ Len(f[j]) \in Nat
            BY <5>2
          <5>4. o[i] \in Nat /\ o[i - 1] \in Nat /\ o[j] \in Nat /\ o[j - 1] \in Nat
            BY <1>2, <5>1
          <5> QED
            BY <5>3, <5>4
        <4>4. o[i] = o[i - 1] + Len(f[i]) /\ o[j] = o[j - 1] + Len(f[j])
          BY <1>3, <4>1
        <4>5. ASSUME NEW k \in 1 .. Len(f[i]) PROVE p[j][o[i - 1] + k] = f[i][k]
          <5>1. o[i - 1] + k \in 1 .. o[j - 1]
            <6>1. k \in Nat /\ 1 <= k /\ k <= Len(f[i]) /\ o[i] <= o[j - 1]
              BY <4>2, <4>3
            <6>2. \A a, b, c, l \in Nat : a = b + l /\ a <= c /\ k <= l => b + k \in 1 .. c
              BY <6>1
            <6> QED
              BY <4>3, <4>4, <6>1, <6>2
          <5> QED
            BY <1>3, <4>2, <5>1
        <4> QED
          BY <4>2, <4>3, <4>4, <4>5
      <3> QED
        BY <3>1, <3>2
    <2> QED
      BY <2>1
  <1>6. \A i \in 0 .. n : i \in good
    <2> HIDE DEF good
    <2> QED
      BY <1>2, <1>4, <1>5, UpTo
  <1>7. o[n] = Len(FlattenSeq(f)) /\ FlattenSeq(f) \in Seq(D)
    BY <1>1, <1>2 DEF o
  <1>8. /\ \A i \in 1 .. n : o[i] <= o[n] /\ o[i] = o[i - 1] + Len(f[i])
        /\ \A i \in 1 .. n : \A k \in 1 .. Len(f[i]) : FlattenSeq(f)[o[i - 1] + k] = f[i][k]
    <2>1. n \in 0 .. n
      BY <1>2
    <2>2. \A i \in 1 .. n : o[i] <= o[n] /\ \A k \in 1 .. Len(f[i]) : p[n][o[i - 1] + k] = f[i][k]
      BY <1>6, <2>1
    <2> HIDE DEF good
    <2> QED
      BY <1>1, <1>3, <2>2
  <1> QED
    BY <1>2, <1>7, <1>8 DEF n, PartsAt

-----------------------------------------------------------------------------
(* Requests in sequences.                                                  *)

\* No element occurs twice.
Distinct(s) == \A i, j \in DOMAIN s : s[i] = s[j] => i = j

\* What Those keeps: the elements that are in S and no others, in a sequence without
\* repetition if there was none; the first element stays the first.
LEMMA ThoseFacts ==
    ASSUME NEW D, NEW seq \in Seq(D), NEW S
    PROVE  /\ Those(seq, S) \in Seq(D)
           /\ \A e : e \in ToSet(Those(seq, S)) <=> e \in ToSet(seq) /\ e \in S
           /\ Distinct(seq) => Distinct(Those(seq, S))
           /\ seq # <<>> /\ seq[1] \in S => Those(seq, S) # <<>> /\ Those(seq, S)[1] = seq[1]
  <1> DEFINE n == Len(seq)
  <1>0. PICK p : Keeps(p, D, seq, S)
    BY ThoseTurns
  <1>1. /\ p \in [0 .. n -> Seq(D)] /\ p[0] = <<>> /\ p[n] = Those(seq, S)
        /\ \A i \in 1 .. n : p[i] = IF seq[i] \in S THEN Append(p[i - 1], seq[i]) ELSE p[i - 1]
    BY <1>0 DEF Keeps
  <1> DEFINE kept(i) == /\ \A k \in 1 .. Len(p[i]) : \E j \in 1 .. i : p[i][k] = seq[j] /\ seq[j] \in S
                        /\ \A j \in 1 .. i : seq[j] \in S => \E k \in 1 .. Len(p[i]) : p[i][k] = seq[j]
             single(i) == Distinct(seq) => Distinct(p[i])
             front(i) == i # 0 /\ seq[1] \in S => Len(p[i]) # 0 /\ p[i][1] = seq[1]
             good == {i \in 0 .. n : kept(i) /\ single(i) /\ front(i)}
  <1>2. n \in Nat /\ DOMAIN seq = 1 .. n /\ \A i \in 1 .. n : i - 1 \in 0 .. n /\ i \in 0 .. n /\ seq[i] \in D
    OBVIOUS
  <1>3. 0 \in good
    BY <1>1, <1>2 DEF Distinct
  <1>4. ASSUME NEW i \in 1 .. n, i - 1 \in good PROVE i \in good
    <2> DEFINE q == p[i - 1]
               r == p[i]
    <2>1. q \in Seq(D) /\ r \in Seq(D) /\ i - 1 \in 0 .. n /\ i \in 0 .. n /\ seq[i] \in D
      BY <1>1, <1>2
    <2>2. kept(i - 1) /\ single(i - 1) /\ front(i - 1)
      BY <1>4
    <2>3. i # 1 => i - 1 # 0
      BY <1>2
    <2>a. 1 .. i = (1 .. i - 1) \cup {i} /\ 1 .. i - 1 \subseteq 1 .. n /\ i \notin 1 .. i - 1
      BY <1>2
    <2>4. CASE seq[i] \notin S
      <3>1. r = q
        BY <1>1, <2>4
      <3>2. kept(i)
        BY <2>a, <2>2, <2>4, <3>1
      <3>3. single(i) /\ front(i)
        <4>1. i = 1 => seq[1] \notin S
          BY <2>4
        <4> QED
          BY <2>2, <2>3, <3>1, <4>1
      <3> QED
        BY <2>1, <3>2, <3>3
    <2>5. CASE seq[i] \in S
      <3>1. r = Append(q, seq[i])
        BY <1>1, <2>5
      <3>2. /\ Len(r) = Len(q) + 1 /\ Len(q) \in Nat /\ r[Len(r)] = seq[i]
            /\ \A k \in 1 .. Len(q) : r[k] = q[k]
            /\ DOMAIN r = 1 .. Len(r) /\ DOMAIN q = 1 .. Len(q)
            /\ 1 .. Len(r) = (1 .. Len(q)) \cup {Len(r)}
        BY <2>1, <3>1
      <3> HIDE DEF q, r
      <3>3. kept(i)
        <4>0. kept(i - 1) <=> /\ \A k \in 1 .. Len(q) : \E j \in 1 .. i - 1 : q[k] = seq[j] /\ seq[j] \in S
                              /\ \A j \in 1 .. i - 1 : seq[j] \in S => \E k \in 1 .. Len(q) : q[k] = seq[j]
          BY DEF q
        <4>1. \A k \in 1 .. Len(r) : \E j \in 1 .. i : r[k] = seq[j] /\ seq[j] \in S
          <5>1. ASSUME NEW k \in 1 .. Len(r) PROVE \E j \in 1 .. i : r[k] = seq[j] /\ seq[j] \in S
            <6>1. CASE k = Len(r)
              BY <2>5, <3>2, <6>1
            <6>2. CASE k \in 1 .. Len(q)
              <7>1. PICK j \in 1 .. i - 1 : q[k] = seq[j] /\ seq[j] \in S
                BY <2>2, <4>0, <6>2
              <7> QED
                BY <2>a, <3>2, <6>2, <7>1
            <6> QED
              BY <3>2, <6>1, <6>2
          <5> QED
            BY <5>1
        <4>2. \A j \in 1 .. i : seq[j] \in S => \E k \in 1 .. Len(r) : r[k] = seq[j]
          <5>1. Len(r) \in 1 .. Len(r)
            BY <3>2
          <5> QED
            BY <2>a, <2>2, <3>2, <4>0, <5>1
        <4> QED
          BY <4>1, <4>2 DEF r
      <3>4. ASSUME Distinct(seq) PROVE Distinct(r)
        <4>1. \A k \in 1 .. Len(q) : r[k] # seq[i]
          <5>1. \A k \in 1 .. Len(q) : \E j \in 1 .. i - 1 : q[k] = seq[j]
            BY <2>2 DEF q
          <5> QED
            <6>1. ASSUME NEW k \in 1 .. Len(q), r[k] = seq[i] PROVE FALSE
              <7>1. PICK j \in 1 .. i - 1 : q[k] = seq[j]
                BY <5>1
              <7>2. j \in DOMAIN seq /\ i \in DOMAIN seq /\ seq[i] = seq[j]
                BY <1>2, <2>a, <3>2, <6>1, <7>1
              <7>3. i = j
                BY <3>4, <7>2 DEF Distinct
              <7> QED
                BY <2>a, <7>3
            <6> QED
              BY <6>1
        <4>2. Distinct(q)
          BY <2>2, <3>4 DEF q
        <4> QED
          BY <3>2, <4>1, <4>2 DEF Distinct
      <3>5. ASSUME seq[1] \in S PROVE Len(r) # 0 /\ r[1] = seq[1]
        <4>1. CASE i = 1
          <5>1. Len(q) = 0
            BY <1>1, <4>1 DEF q
          <5> QED
            BY <3>2, <4>1, <5>1
        <4>2. CASE i # 1
          <5>1. Len(q) # 0 /\ q[1] = seq[1]
            BY <2>2, <2>3, <4>2, <3>5 DEF q
          <5>2. 1 \in 1 .. Len(q)
            BY <3>2, <5>1
          <5> QED
            BY <3>2, <5>1, <5>2
        <4> QED
          BY <4>1, <4>2
      <3>6. single(i) /\ front(i)
        BY <3>4, <3>5 DEF r
      <3> QED
        BY <2>1, <3>3, <3>6
    <2> QED
      BY <2>4, <2>5
  <1>5. \A i \in 0 .. n : i \in good
    <2> HIDE DEF good
    <2> QED
      BY <1>2, <1>3, <1>4, UpTo
  <1>6. kept(n) /\ single(n) /\ front(n)
    <2>1. n \in 0 .. n
      BY <1>2
    <2>2. n \in good
      <3> HIDE DEF good
      <3> QED
        BY <1>5, <2>1
    <2> HIDE DEF kept, single, front
    <2> QED
      BY <2>2
  <1> DEFINE t == Those(seq, S)
  <1>7. t = p[n] /\ t \in Seq(D) /\ DOMAIN t = 1 .. Len(t)
    BY <1>1, <1>2
  <1>8. \A e : e \in ToSet(t) <=> e \in ToSet(seq) /\ e \in S
    <2>1. /\ \A k \in 1 .. Len(t) : \E j \in 1 .. n : t[k] = seq[j] /\ seq[j] \in S
          /\ \A j \in 1 .. n : seq[j] \in S => \E k \in 1 .. Len(t) : t[k] = seq[j]
      BY <1>6, <1>7
    <2> HIDE DEF t
    <2> QED
      <3>1. ToSet(t) = {t[k] : k \in 1 .. Len(t)} /\ ToSet(seq) = {seq[j] : j \in 1 .. n}
        BY <1>2, <1>7 DEF ToSet
      <3> HIDE DEF n
      <3>2. ASSUME NEW e \in ToSet(t) PROVE e \in ToSet(seq) /\ e \in S
        BY <2>1, <3>1
      <3>3. ASSUME NEW e \in ToSet(seq), e \in S PROVE e \in ToSet(t)
        BY <2>1, <3>1, <3>3
      <3> QED
        BY <3>2, <3>3
  <1>9. seq # <<>> => n # 0
    BY <1>2
  <1> QED
    BY <1>6, <1>7, <1>8, <1>9

-----------------------------------------------------------------------------
(* Where the requests are.                                                 *)

\* Where a request may be.
Places == {"idle", "decode", "queued", "taken", "answered"}

\* What the body of a client decodes to.
Decoded(c) == IF body[c].transport = "http" THEN ParseInferenceRequest(c, body[c])
              ELSE ConvertInferRequest(c, body[c])

\* The variables that are functions of the clients, and the two sequences of them.
PathShapes ==
    /\ place \in [Clients -> Places] /\ body \in [Clients -> Bodies \cup {NoBody}]
    /\ execution = [c \in Clients |-> execution[c]]
    /\ answer = [c \in Clients |-> answer[c]]
    /\ queue \in Seq(Clients) /\ members \in Seq(Clients)
    /\ Distinct(queue) /\ Distinct(members)

\* Where a request is says what there is of it.
PathPlaces ==
    /\ \A c \in ToSet(queue) : place[c] = "queued"
    /\ \A c \in ToSet(members) : place[c] \in {"taken", "answered"}
    /\ \A c \in Clients :
         /\ place[c] \in {"idle", "decode"} => execution[c] = NoExecution
         /\ place[c] \in {"queued", "taken"} => execution[c].ok
         /\ place[c] # "answered" => answer[c] = NoAnswer
         /\ place[c] = "decode" => body[c] \in Bodies
         /\ execution[c] = NoExecution \/ (execution[c].ok /\ body[c] \in Bodies /\ execution[c] = Decoded(c))

\* The invariant the others rest on.
PathInv == PathShapes /\ PathPlaces

\* What a client has at first is neither admitted nor answered.
LEMMA NothingExecuted == ~NoExecution.ok /\ NoAnswer.status = -1
  BY DEF NoExecution, NoAnswer

\* The first state.
LEMMA PathInitInv == PathInit => PathInv
  <1> SUFFICES ASSUME PathInit PROVE PathInv
    OBVIOUS
  <1> USE DEF PathInit
  <1>1. PathShapes
    BY DEF PathShapes, Places, Distinct
  <1>2. PathPlaces
    BY DEF PathPlaces, ToSet
  <1> QED
    BY <1>1, <1>2 DEF PathInv

\* A client that is idle is in no sequence, so that its body may change.
LEMMA ReceivePath ==
    ASSUME PathInv, NEW c \in Clients, Receive(c)
    PROVE  PathInv'
  <1> USE DEF PathInv, Receive, GoTo
  <1>1. PathShapes'
    BY DEF PathShapes, Places, Distinct
  <1>2. /\ \A d \in Clients : place'[d] = IF d = c THEN "decode" ELSE place[d]
        /\ \A d \in Clients : d # c => body'[d] = body[d]
        /\ body'[c] \in Bodies /\ place[c] = "idle"
    BY DEF PathShapes
  <1>3. execution[c] = NoExecution /\ ~execution[c].ok /\ answer[c] = NoAnswer
    BY <1>2, NothingExecuted DEF PathPlaces
  <1>4. \A d \in Clients : d # c => Decoded(d)' = Decoded(d)
    BY <1>2 DEF Decoded
  <1>5. ToSet(queue) \subseteq Clients /\ ToSet(members) \subseteq Clients
    BY DEF PathShapes, ToSet
  <1>6. c \notin ToSet(queue) /\ c \notin ToSet(members)
    BY <1>2 DEF PathPlaces
  <1>7. PathPlaces'
    <2> HIDE DEF Receive, GoTo
    <2>1. UNCHANGED <<execution, queue, members, answer>>
      BY DEF Receive
    <2> QED
      BY <1>2, <1>3, <1>4, <1>5, <1>6, <2>1 DEF PathPlaces
  <1> QED
    BY <1>1, <1>7

\* What is admitted is what its body decodes to, and is queued once.
LEMMA DecodePath ==
    ASSUME PathInv, NEW c \in Clients, Decode(c)
    PROVE  PathInv'
  <1> DEFINE r == Decoded(c)
  <1>1. /\ place[c] = "decode" /\ UNCHANGED <<body, members>>
        /\ \/ /\ ~r.ok /\ answer' = [answer EXCEPT ![c].status = 400]
              /\ place' = [place EXCEPT ![c] = "answered"] /\ UNCHANGED <<execution, queue>>
           \/ /\ r.ok /\ execution' = [execution EXCEPT ![c] = r]
              /\ queue' = Append(queue, c)
              /\ place' = [place EXCEPT ![c] = "queued"] /\ UNCHANGED answer
    BY DEF Decode, GoTo, Decoded
  <1> HIDE DEF r
  <1>2. c \notin ToSet(queue) /\ c \notin ToSet(members) /\ ToSet(queue) \subseteq Clients
        /\ ToSet(members) \subseteq Clients
    BY SMTT(30), <1>1 DEF PathInv, PathShapes, PathPlaces, ToSet
  <1>3. \A d \in Clients : Decoded(d)' = Decoded(d)
    BY <1>1 DEF Decoded
  <1>4. execution[c] = NoExecution /\ answer[c] = NoAnswer
    BY <1>1 DEF PathInv, PathPlaces
  <1>5. CASE ~r.ok
    <2>1. /\ answer' = [answer EXCEPT ![c].status = 400]
          /\ place' = [place EXCEPT ![c] = "answered"] /\ UNCHANGED <<execution, queue, body, members>>
      BY <1>1, <1>5
    <2>2. PathShapes'
      BY <2>1 DEF PathInv, PathShapes, Places, Distinct
    <2>3. PathPlaces'
      <3>1. /\ place'[c] = "answered" /\ \A d \in Clients : d # c => place'[d] = place[d]
            /\ \A d \in Clients : d # c => answer'[d] = answer[d]
        BY <2>1 DEF PathInv, PathShapes
      <3> QED
        BY <1>2, <1>3, <1>4, <2>1, <3>1, NothingExecuted DEF PathInv, PathPlaces
    <2> QED
      BY <2>2, <2>3 DEF PathInv
  <1>6. CASE r.ok
    <2>1. /\ execution' = [execution EXCEPT ![c] = r]
          /\ queue' = Append(queue, c)
          /\ place' = [place EXCEPT ![c] = "queued"] /\ UNCHANGED <<answer, body, members>>
      BY <1>1, <1>6
    <2>2. PathShapes'
      <3>1. Distinct(queue')
        <4>1. queue \in Seq(Clients) /\ Distinct(queue) /\ \A i \in DOMAIN queue : queue[i] # c
          BY <1>2 DEF PathInv, PathShapes, ToSet
        <4>2. /\ DOMAIN queue = 1 .. Len(queue) /\ Len(queue) \in Nat
              /\ DOMAIN Append(queue, c) = (1 .. Len(queue)) \cup {Len(queue) + 1}
              /\ Append(queue, c)[Len(queue) + 1] = c
              /\ \A i \in 1 .. Len(queue) : Append(queue, c)[i] = queue[i]
          BY <4>1
        <4> QED
          BY <2>1, <4>1, <4>2 DEF Distinct
      <3>2. Distinct(members)'
        BY <2>1 DEF PathInv, PathShapes, Distinct
      <3>3. queue' \in Seq(Clients) /\ members' \in Seq(Clients)
        BY <2>1 DEF PathInv, PathShapes
      <3>4. /\ place' \in [Clients -> Places] /\ body' \in [Clients -> Bodies \cup {NoBody}]
            /\ execution' = [d \in Clients |-> execution'[d]]
            /\ answer' = [d \in Clients |-> answer'[d]]
        BY <2>1 DEF PathInv, PathShapes, Places
      <3> QED
        BY <3>1, <3>2, <3>3, <3>4 DEF PathShapes, Distinct
    <2>3. PathPlaces'
      <3>1. /\ place'[c] = "queued" /\ \A d \in Clients : d # c => place'[d] = place[d]
            /\ execution'[c] = r /\ \A d \in Clients : d # c => execution'[d] = execution[d]
        BY <2>1 DEF PathInv, PathShapes
      <3>2. ToSet(queue') = ToSet(queue) \cup {c}
        <4>1. queue \in Seq(Clients)
          BY DEF PathInv, PathShapes
        <4>2. /\ DOMAIN queue = 1 .. Len(queue) /\ Len(queue) \in Nat
              /\ DOMAIN Append(queue, c) = (1 .. Len(queue)) \cup {Len(queue) + 1}
              /\ Append(queue, c)[Len(queue) + 1] = c
              /\ \A i \in 1 .. Len(queue) : Append(queue, c)[i] = queue[i]
          BY <4>1
        <4> QED
          BY <2>1, <4>2 DEF ToSet
      <3>3. body[c] \in Bodies
        BY <1>1 DEF PathInv, PathPlaces
      <3>4. r = Decoded(c)'
        BY <1>3 DEF r
      <3> QED
        BY <1>2, <1>3, <1>4, <1>6, <2>1, <3>1, <3>2, <3>3, <3>4, NothingExecuted DEF PathInv, PathPlaces
    <2> QED
      BY <2>2, <2>3 DEF PathInv
  <1> QED
    BY <1>1, <1>5, <1>6

\* A refused request leaves the queue, and stays in a batch that has it.
LEMMA RefusePath ==
    ASSUME PathInv, NEW c \in Clients, Refuse(c)
    PROVE  PathInv'
  <1>1. /\ place[c] \in {"queued", "taken"}
        /\ queue' = Those(queue, Clients \ {c})
        /\ place' = [place EXCEPT ![c] = "answered"]
        /\ UNCHANGED <<body, execution, members, response>>
    BY DEF Refuse, GoTo
  <1>2. PICK status : answer' = [answer EXCEPT ![c].status = status]
    BY DEF Refuse
  <1>3. /\ queue' \in Seq(Clients) /\ Distinct(queue')
        /\ \A d : d \in ToSet(queue') <=> d \in ToSet(queue) /\ d \in Clients \ {c}
    BY <1>1, ThoseFacts DEF PathInv, PathShapes
  <1>4. PathShapes'
    BY <1>1, <1>2, <1>3 DEF PathInv, PathShapes, Places, Distinct
  <1>5. PathPlaces'
    <2>1. /\ place'[c] = "answered" /\ \A d \in Clients : d # c => place'[d] = place[d]
          /\ \A d \in Clients : d # c => answer'[d] = answer[d]
      BY <1>1, <1>2 DEF PathInv, PathShapes
    <2>2. \A d \in Clients : Decoded(d)' = Decoded(d)
      BY <1>1 DEF Decoded
    <2>3. ToSet(members) \subseteq Clients
      BY DEF PathInv, PathShapes, ToSet
    <2> QED
      BY ZenonT(60), <1>1, <1>3, <2>1, <2>2, <2>3 DEF PathInv, PathPlaces
  <1> QED
    BY <1>4, <1>5 DEF PathInv

\* A batch is part of the queue and is taken out of it.
LEMMA FormBatchPath ==
    ASSUME PathInv, FormBatch
    PROVE  PathInv'
  <1>1. PICK others \in SUBSET ToSet(Tail(queue)) :
           /\ members' = Those(queue, others \cup {Head(queue)})
           /\ queue' = Those(queue, Clients \ ToSet(members'))
           /\ place' = [c \in Clients |-> IF c \in ToSet(members') THEN "taken" ELSE place[c]]
    BY DEF FormBatch
  <1>2. UNCHANGED <<body, execution, answer>>
    BY DEF FormBatch
  <1>3. /\ members' \in Seq(Clients) /\ Distinct(members')
        /\ \A d : d \in ToSet(members') => d \in ToSet(queue)
    BY <1>1, ThoseFacts DEF PathInv, PathShapes
  <1>4. /\ queue' \in Seq(Clients) /\ Distinct(queue')
        /\ \A d : d \in ToSet(queue') <=> d \in ToSet(queue) /\ d \in Clients \ ToSet(members')
    BY <1>1, ThoseFacts DEF PathInv, PathShapes
  <1>5. PathShapes'
    BY <1>1, <1>2, <1>3, <1>4 DEF PathInv, PathShapes, Places, Distinct
  <1>6. PathPlaces'
    <2>1. \A d \in Clients : Decoded(d)' = Decoded(d)
      BY <1>2 DEF Decoded
    <2>2. ToSet(queue) \subseteq Clients
      BY DEF PathInv, PathShapes, ToSet
    <2>3. \A d \in Clients : place'[d] = IF d \in ToSet(members') THEN "taken" ELSE place[d]
      BY <1>1
    <2>4. \A d \in ToSet(members') : place[d] = "queued"
      BY <1>3 DEF PathInv, PathPlaces
    <2> QED
      BY <1>2, <1>3, <1>4, <2>1, <2>2, <2>3, <2>4 DEF PathInv, PathPlaces
  <1> QED
    BY <1>5, <1>6 DEF PathInv

\* The members that still wait.
Waiting == {c \in ToSet(members) : place[c] = "taken"}

\* Those of a batch who still wait are answered, and only they.
LEMMA DeliverPath ==
    ASSUME PathInv, Deliver
    PROVE  PathInv'
  <1>1. /\ members' = <<>> /\ UNCHANGED <<body, execution, queue>>
        /\ place' = [c \in Clients |-> IF c \in Waiting THEN "answered" ELSE place[c]]
    BY DEF Deliver, Waiting
  <1>2. answer' = [c \in Clients |-> answer'[c]] /\ \A c \in Clients \ Waiting : answer'[c] = answer[c]
    BY DEF Deliver, Waiting
  <1>3. PathShapes'
    BY <1>1, <1>2 DEF PathInv, PathShapes, Places, Distinct
  <1>4. PathPlaces'
    <2>1. \A d \in Clients : Decoded(d)' = Decoded(d)
      BY <1>1 DEF Decoded
    <2>2. ToSet(queue) \subseteq Clients /\ ToSet(members') = {}
      BY <1>1 DEF PathInv, PathShapes, ToSet
    <2>3. \A d \in Clients : place'[d] = IF d \in Waiting THEN "answered" ELSE place[d]
      BY <1>1
    <2>4. \A d \in Waiting : place[d] = "taken"
      BY DEF Waiting
    <2>5. \A d \in ToSet(queue) : d \notin Waiting
      BY <2>4 DEF PathInv, PathPlaces
    <2> QED
      BY <1>1, <1>2, <2>1, <2>2, <2>3, <2>4, <2>5 DEF PathInv, PathPlaces
  <1> QED
    BY <1>3, <1>4 DEF PathInv

\* Every step.
LEMMA PathStep == PathInv /\ [PathNext]_pathVars => PathInv'
  <1> SUFFICES ASSUME PathInv, [PathNext]_pathVars PROVE PathInv'
    OBVIOUS
  <1>1. ASSUME UNCHANGED <<place, body, execution, queue, members, answer>> PROVE PathInv'
    <2>1. \A d \in Clients : Decoded(d)' = Decoded(d)
      BY <1>1 DEF Decoded
    <2> QED
      BY <1>1, <2>1 DEF PathInv, PathShapes, PathPlaces, Distinct, ToSet
  <1>2. CASE UNCHANGED pathVars
    BY <1>1, <1>2 DEF pathVars
  <1>3. ASSUME Infer PROVE PathInv'
    BY <1>1, <1>3 DEF Infer
  <1> QED
    BY <1>2, <1>3, ReceivePath, DecodePath, RefusePath, FormBatchPath, DeliverPath DEF PathNext

-----------------------------------------------------------------------------
(* The counters.                                                           *)

\* Who was admitted and has been answered, and whom of them with a success.
Admitted == {c \in Clients : place[c] = "answered" /\ execution[c].ok}

Successes == {c \in Admitted : answer[c].status = 200}

\* The counters count them.
PathCounted ==
    /\ IsFiniteSet(Admitted)
    /\ counted.total = Cardinality(Admitted) /\ counted.success = Cardinality(Successes)
    /\ counted.failure = counted.total - counted.success

\* The elements of a sequence are finitely many.
LEMMA ToSetFinite ==
    ASSUME NEW D, NEW s \in Seq(D)
    PROVE  IsFiniteSet(ToSet(s))
  <1>1. Len(s) \in Nat /\ DOMAIN s = 1 .. Len(s) /\ IsFiniteSet(1 .. Len(s))
    BY FS_Interval
  <1>2. s \in Surjection(1 .. Len(s), ToSet(s))
    BY <1>1 DEF Surjection, ToSet
  <1> QED
    BY <1>1, <1>2, FS_Surjection

\* No response but one that is a success has a status that counts as one.
LEMMA SuccessCodes ==
    ASSUME NEW transport, NEW r
    PROVE  ResponseStatus(transport, r) \in 200 .. 299 <=> ResponseStatus(transport, r) = 200
  BY DEF ResponseStatus, HttpStatusForCode, GrpcStatusForCode

\* Nor has a refusal.
LEMMA RefusalCodes ==
    ASSUME NEW code
    PROVE  HttpStatusForCode(code) \notin 200 .. 299 /\ GrpcStatusForCode(code) \notin 200 .. 299
  BY DEF HttpStatusForCode, GrpcStatusForCode

\* A finite set of clients is counted as a whole.
LEMMA CountedTogether ==
    ASSUME PathCounted, NEW told, IsFiniteSet(told), told \cap Admitted = {},
           NEW status, DOMAIN status = told,
           Admitted' = Admitted \cup told,
           Successes' = Successes \cup {c \in told : status[c] \in 200 .. 299},
           RecordInferRequest(status)
    PROVE  PathCounted'
  <1> DEFINE new == {c \in told : status[c] \in 200 .. 299}
  <1>1. IsFiniteSet(Admitted) /\ IsFiniteSet(Successes) /\ IsFiniteSet(new)
    BY FS_Subset DEF PathCounted, Successes
  <1>2. /\ Cardinality(told) \in Nat /\ Cardinality(new) \in Nat /\ Cardinality(Admitted) \in Nat
        /\ Cardinality(Successes) \in Nat
    BY <1>1, FS_CardinalityType
  <1>3. Successes \cap new = {}
    BY DEF Successes
  <1> HIDE DEF new
  <1>4. /\ IsFiniteSet(Admitted \cup told)
        /\ Cardinality(Admitted \cup told) = Cardinality(Admitted) + Cardinality(told)
    <2>1. Admitted \cap told = {}
      OBVIOUS
    <2>4. Cardinality(Admitted \cap told) = 0
      BY <2>1, FS_EmptySet
    <2>2. Cardinality(Admitted \cup told) = Cardinality(Admitted) + Cardinality(told) - Cardinality(Admitted \cap told)
      BY <1>1, FS_Union
    <2>3. IsFiniteSet(Admitted \cup told)
      BY <1>1, FS_Union
    <2> QED
      BY <1>2, <2>2, <2>3, <2>4
  <1>5. Cardinality(Successes \cup new) = Cardinality(Successes) + Cardinality(new)
    <2>1. Cardinality(Successes \cap new) = 0
      BY <1>3, FS_EmptySet
    <2>2. Cardinality(Successes \cup new) = Cardinality(Successes) + Cardinality(new) - Cardinality(Successes \cap new)
      BY <1>1, FS_Union
    <2> QED
      BY <1>2, <2>1, <2>2
  <1>6. /\ counted'.total = counted.total + Cardinality(told)
        /\ counted'.success = counted.success + Cardinality(new)
        /\ counted'.failure = counted.failure + Cardinality(told) - Cardinality(new)
    BY DEF RecordInferRequest, new
  <1>7. Admitted' = Admitted \cup told /\ Successes' = Successes \cup new
    BY DEF new
  <1>8. /\ IsFiniteSet(Admitted')
        /\ Cardinality(Admitted') = Cardinality(Admitted) + Cardinality(told)
        /\ Cardinality(Successes') = Cardinality(Successes) + Cardinality(new)
    BY <1>4, <1>5, <1>7
  <1>9. /\ counted.total = Cardinality(Admitted) /\ counted.success = Cardinality(Successes)
        /\ counted.failure = counted.total - counted.success
    BY DEF PathCounted
  <1> QED
    BY <1>2, <1>6, <1>8, <1>9 DEF PathCounted

\* A step that changes neither set.
LEMMA CountedSame ==
    ASSUME PathCounted, UNCHANGED counted, Admitted' = Admitted, Successes' = Successes
    PROVE  PathCounted'
  BY DEF PathCounted

\* A request that is refused was admitted and had not been counted.
LEMMA RefuseCounted ==
    ASSUME PathInv, PathCounted, NEW c \in Clients, Refuse(c)
    PROVE  PathCounted'
  <1>1. PICK status :
           /\ status \notin 200 .. 299
           /\ answer' = [answer EXCEPT ![c].status = status]
           /\ RecordInferRequest([d \in {c} |-> status])
    BY RefusalCodes DEF Refuse
  <1>2. /\ place[c] \in {"queued", "taken"} /\ place' = [place EXCEPT ![c] = "answered"]
        /\ UNCHANGED execution
    BY DEF Refuse, GoTo
  <1>3. /\ place'[c] = "answered" /\ \A d \in Clients : d # c => place'[d] = place[d]
        /\ answer'[c].status = status /\ \A d \in Clients : d # c => answer'[d] = answer[d]
    <2>1. answer'[c] = [answer[c] EXCEPT !.status = status] /\ answer[c] = NoAnswer
      BY <1>1, <1>2 DEF PathInv, PathShapes, PathPlaces
    <2> QED
      BY <1>1, <1>2, <2>1 DEF PathInv, PathShapes, NoAnswer
  <1>4. c \notin Admitted /\ execution[c].ok
    BY <1>2 DEF Admitted, PathInv, PathPlaces
  <1>5. Admitted' = Admitted \cup {c}
    BY <1>2, <1>3, <1>4 DEF Admitted
  <1> DEFINE s == [d \in {c} |-> status]
  <1>6. {d \in {c} : s[d] \in 200 .. 299} = {}
    BY <1>1
  <1>7. Successes' = Successes
    <2>1. status # 200
      BY <1>1
    <2>2. \A d \in Admitted : d # c /\ d \in Clients
      BY <1>4 DEF Admitted
    <2> QED
      BY <1>3, <1>5, <2>1, <2>2 DEF Successes
  <1>8. IsFiniteSet({c}) /\ {c} \cap Admitted = {} /\ DOMAIN s = {c} /\ RecordInferRequest(s)
    BY ZenonT(60), <1>1, <1>4, FS_Singleton
  <1> HIDE DEF s
  <1> QED
    BY <1>5, <1>6, <1>7, <1>8, CountedTogether

\* Nor had those who still wait for a batch, and each of them is counted once.
LEMMA DeliverCounted ==
    ASSUME PathInv, PathCounted, Deliver
    PROVE  PathCounted'
  <1> DEFINE Reply(c) == ResponseFor(CHOOSE i \in DOMAIN members : members[i] = c)
             Status(c) == ResponseStatus(body[c].transport, Reply(c))
             s == [c \in Waiting |-> Status(c)]
  <1>1. /\ UNCHANGED execution /\ RecordInferRequest(s)
        /\ answer' = [c \in Clients |->
                         IF c \in Waiting
                         THEN [status |-> Status(c), bytes |-> Reply(c).bytes, fault |-> response.fault]
                         ELSE answer[c]]
        /\ place' = [c \in Clients |-> IF c \in Waiting THEN "answered" ELSE place[c]]
    BY Zenon DEF Deliver, Waiting
  <1>2. Waiting \subseteq Clients /\ IsFiniteSet(Waiting)
    <2>1. members \in Seq(Clients) /\ IsFiniteSet(ToSet(members))
      BY ToSetFinite DEF PathInv, PathShapes
    <2> QED
      BY <2>1, FS_Subset DEF Waiting, ToSet
  <1>3. DOMAIN s = Waiting /\ \A c \in Waiting : s[c] = Status(c) /\ (Status(c) \in 200 .. 299 <=> Status(c) = 200)
    BY SuccessCodes
  <1> HIDE DEF Reply, Status, s
  <1>4. /\ \A c \in Waiting : place'[c] = "answered" /\ answer'[c].status = s[c]
        /\ \A c \in Clients \ Waiting : place'[c] = place[c] /\ answer'[c] = answer[c]
    BY <1>1, <1>2, <1>3
  <1>5. \A c \in Waiting : c \notin Admitted /\ execution[c].ok
    BY <1>2 DEF Admitted, Waiting, PathInv, PathPlaces
  <1>6. Admitted' = Admitted \cup Waiting
    BY <1>1, <1>2, <1>4, <1>5 DEF Admitted
  <1>7. Successes' = Successes \cup {c \in Waiting : s[c] \in 200 .. 299}
    <2>1. \A d \in Admitted : d \in Clients \ Waiting
      BY <1>5 DEF Admitted
    <2> QED
      BY <1>3, <1>4, <1>6, <2>1 DEF Successes
  <1>8. Waiting \cap Admitted = {}
    BY <1>5
  <1> QED
    BY <1>1, <1>2, <1>3, <1>6, <1>7, <1>8, CountedTogether

\* Every step.
LEMMA CountedStep ==
    ASSUME PathInv, PathCounted, [PathNext]_pathVars
    PROVE  PathCounted'
  <1>1. ASSUME UNCHANGED <<place, execution, answer, counted>> PROVE PathCounted'
    BY <1>1 DEF PathCounted, Admitted, Successes
  <1>2. CASE UNCHANGED pathVars
    BY <1>1, <1>2 DEF pathVars
  <1>3. ASSUME NEW c \in Clients, Receive(c) PROVE PathCounted'
    <2>1. /\ place[c] = "idle" /\ place' = [place EXCEPT ![c] = "decode"]
          /\ UNCHANGED <<execution, answer, counted>>
      BY <1>3 DEF Receive, GoTo
    <2>2. Admitted' = Admitted
      BY <2>1 DEF Admitted, PathInv, PathShapes
    <2>3. Successes' = Successes
      BY <2>1, <2>2 DEF Successes
    <2> QED
      BY <2>1, <2>2, <2>3, CountedSame
  <1>4. ASSUME NEW c \in Clients, Decode(c) PROVE PathCounted'
    <2>1. /\ place[c] = "decode" /\ UNCHANGED counted
          /\ \/ place' = [place EXCEPT ![c] = "answered"] /\ UNCHANGED execution
             \/ place' = [place EXCEPT ![c] = "queued"] /\ \E r : execution' = [execution EXCEPT ![c] = r]
          /\ \A d \in Clients : d # c => answer'[d] = answer[d]
      BY <1>4 DEF Decode, GoTo, PathInv, PathShapes
    <2>2. execution[c] = NoExecution /\ c \notin Admitted
      BY <2>1 DEF PathInv, PathPlaces, Admitted
    <2>3. Admitted' = Admitted
      BY <2>1, <2>2, NothingExecuted DEF Admitted, PathInv, PathShapes
    <2>4. Successes' = Successes
      BY <2>1, <2>2, <2>3 DEF Successes, Admitted
    <2> QED
      BY <2>1, <2>3, <2>4, CountedSame
  <1>5. ASSUME FormBatch PROVE PathCounted'
    <2>1. PICK batch : /\ place' = [c \in Clients |-> IF c \in ToSet(batch) THEN "taken" ELSE place[c]]
                       /\ \A d : d \in ToSet(batch) => d \in ToSet(queue)
      <3>1. queue \in Seq(Clients)
        BY DEF PathInv, PathShapes
      <3> QED
        BY ZenonT(60), <1>5, <3>1, ThoseFacts DEF FormBatch
    <2>2. UNCHANGED <<execution, answer, counted>>
      BY <1>5 DEF FormBatch
    <2>3. \A d \in ToSet(batch) : place[d] = "queued"
      BY <2>1 DEF PathInv, PathPlaces
    <2>4. Admitted' = Admitted
      BY <2>1, <2>2, <2>3 DEF Admitted
    <2>5. Successes' = Successes
      BY <2>2, <2>4 DEF Successes
    <2> QED
      BY <2>2, <2>4, <2>5, CountedSame
  <1>6. ASSUME Infer PROVE PathCounted'
    BY <1>1, <1>6 DEF Infer
  <1> QED
    BY <1>2, <1>3, <1>4, <1>5, <1>6, RefuseCounted, DeliverCounted DEF PathNext

\* The requests of InferencePath are where the model says they are: nobody is
\* queued or taken twice, and what waits for an executor is what its body decodes to.
THEOREM PathInvariant == PathSpec => []PathInv
  BY PathInitInv, PathStep, PTL DEF PathSpec

\* recordInferRequest counts every admitted request exactly once, for any number of
\* clients, whichever of refusal and answer comes first, and none that failed as a
\* success.
THEOREM AdmittedCountedAlways == PathSpec => []AdmittedCounted
  <1>1. PathInit => PathCounted
    <2> SUFFICES ASSUME PathInit PROVE PathCounted
      OBVIOUS
    <2>1. \A c \in Clients : place[c] = "idle"
      BY DEF PathInit
    <2>2. Admitted = {}
      BY <2>1 DEF Admitted
    <2>3. Successes = {}
      BY <2>2 DEF Successes
    <2>4. counted.total = 0 /\ counted.success = 0 /\ counted.failure = 0
      BY DEF PathInit
    <2>5. IsFiniteSet({}) /\ Cardinality({}) = 0
      BY FS_EmptySet
    <2> QED
      BY <2>2, <2>3, <2>4, <2>5 DEF PathCounted
  <1>2. PathInv /\ PathCounted /\ [PathNext]_pathVars => PathCounted'
    BY CountedStep
  <1>3. PathCounted => AdmittedCounted
    <2> SUFFICES ASSUME PathCounted PROVE AdmittedCounted
      OBVIOUS
    <2> DEFINE told == {c \in Admitted : answer[c].status \in {0, 200}}
    <2>1. IsFiniteSet(told) /\ Successes \subseteq told /\ IsFiniteSet(Successes)
      BY FS_Subset DEF PathCounted, Successes
    <2>2. Cardinality(Successes) <= Cardinality(told)
      BY <2>1, FS_Subset
    <2>3. Cardinality(Successes) \in Nat /\ Cardinality(Admitted) \in Nat
      BY <2>1, FS_CardinalityType DEF PathCounted
    <2> QED
      BY <2>2, <2>3 DEF PathCounted, AdmittedCounted, Admitted
  <1> QED
    BY <1>1, <1>2, <1>3, PathInvariant, PTL DEF PathSpec

-----------------------------------------------------------------------------
(* The loop over the inputs of a body.                                     *)

\* The tensors the codec may make of a body.
TensorsOf(c, b) ==
    {NewTensor(input, InlineBytes(c, input)) : input \in ToSet(b.inputs)}
    \cup {NewTensor(input, SliceBlob(Blob(c, b), o, input.size)) : input \in ToSet(b.inputs), o \in Nat}

\* What the loop over the inputs holds, what it begins with and what it ends with.
Parses(c, b) == [ok : BOOLEAN, offset : Nat, inputs : Seq(TensorsOf(c, b))]
NothingParsed(b) == [ok |-> b.inputs # <<>>, offset |-> 0, inputs |-> <<>>]
Parsed(c, b) == FoldLeft(LAMBDA got, input : ParseInput(got, c, b, input), NothingParsed(b), b.inputs)

\* p is what the loop over the inputs has after each of them.
ParsesInto(p, c, b) ==
    /\ p \in [0 .. Len(b.inputs) -> Parses(c, b)]
    /\ p[0] = NothingParsed(b) /\ p[Len(b.inputs)] = Parsed(c, b)
    /\ \A i \in 1 .. Len(b.inputs) : p[i] = ParseInput(p[i - 1], c, b, b.inputs[i])

\* The loop over the inputs is taken turn by turn.
LEMMA ParseTurns ==
    ASSUME NEW c, NEW b, b.inputs \in Seq(ToSet(b.inputs)),
           \A input \in ToSet(b.inputs) : input.size \in Nat
    PROVE  \E p : ParsesInto(p, c, b)
  <1> DEFINE n == Len(b.inputs)
             A == [ok : BOOLEAN, offset : Nat, inputs : Seq(TensorsOf(c, b))]
             base == [ok |-> b.inputs # <<>>, offset |-> 0, inputs |-> <<>>]
             Turn(got, input) == ParseInput(got, c, b, input)
             Solves(g) == g = [s \in SUBSET DOMAIN b.inputs |->
                                 IF s = {} THEN base ELSE Turn(g[s \ {Max(s)}], b.inputs[Max(s)])]
             step == [a \in A \X (1 .. n) |-> Turn(a[1], b.inputs[a[2]])]
             iter == CHOOSE g : Solves(g)
  <1>1. Parsed(c, b) = iter[DOMAIN b.inputs]
    BY Zenon DEF Parsed, NothingParsed, FoldLeft, MapThenFoldSet
  <1>2. n \in Nat /\ DOMAIN b.inputs = 1 .. n /\ base \in A
    OBVIOUS
  <1>3. \A a \in A, i \in 1 .. n : Turn(a, b.inputs[i]) \in A
    <2>1. ASSUME NEW a \in A, NEW input \in ToSet(b.inputs) PROVE Turn(a, input) \in A
      <3> DEFINE bytes == IF input.form = "data" THEN InlineBytes(c, input)
                          ELSE SliceBlob(Blob(c, b), a.offset, input.size)
      <3>1. NewTensor(input, bytes) \in TensorsOf(c, b)
        BY DEF TensorsOf
      <3>2. CASE ~a.ok \/ Refuses(a, c, b, input)
        BY <3>2 DEF ParseInput
      <3>3. CASE ~(~a.ok \/ Refuses(a, c, b, input))
        <4>1. Turn(a, input) = [ok |-> TRUE, offset |-> AfterSlice(a.offset, input),
                                inputs |-> Append(a.inputs, NewTensor(input, bytes))]
          BY <3>3 DEF ParseInput
        <4>2. AfterSlice(a.offset, input) \in Nat
          BY DEF AfterSlice
        <4>3. Append(a.inputs, NewTensor(input, bytes)) \in Seq(TensorsOf(c, b))
          <5> HIDE DEF bytes
          <5> QED
            BY <3>1
        <4> HIDE DEF bytes, Turn
        <4> QED
          BY <4>1, <4>2, <4>3
      <3> QED
        BY <3>2, <3>3
    <2>2. \A i \in 1 .. n : b.inputs[i] \in ToSet(b.inputs)
      OBVIOUS
    <2> HIDE DEF Turn, A, n
    <2> QED
      BY <2>1, <2>2
  <1>4. step \in [A \X (1 .. n) -> A] /\ \A a \in A, i \in 1 .. n : step[<<a, i>>] = Turn(a, b.inputs[i])
    <2> HIDE DEF Turn, A, n
    <2> QED
      BY <1>3
  <1> HIDE DEF n, A, base, step, Turn
  <1>5. \A s \in SUBSET (1 .. n) : s # {} => Max(s) \in 1 .. n /\ s \ {Max(s)} \in SUBSET (1 .. n)
    BY <1>2, MaxIsMember
  <1>6. PICK h \in [SUBSET (1 .. n) -> A] : FoldOf(h, n, base, step)
    BY <1>2, <1>4, FoldExists
  <1>7. Solves(h)
    BY <1>2, <1>4, <1>5, <1>6 DEF FoldOf
  <1>8. Solves(iter)
    <2> HIDE DEF Solves
    <2> QED
      BY <1>7
  <1> HIDE DEF iter
  <1>9. FoldWithin(iter, n, A, base, step)
    BY <1>2, <1>4, <1>5, <1>8 DEF FoldWithin
  <1> HIDE DEF Solves
  <1>10. PICK p : FoldTurns(p, n, A, base, step, iter[1 .. n])
    BY <1>2, <1>4, <1>9, FoldPrefixes
  <1>11. ASSUME NEW i \in 1 .. n PROVE p[i] = Turn(p[i - 1], b.inputs[i])
    <2>1. p[i - 1] \in A /\ p[i] = step[<<p[i - 1], i>>]
      BY <1>2, <1>10 DEF FoldTurns
    <2> QED
      BY <1>4, <2>1
  <1>12. p \in [0 .. n -> A] /\ p[0] = base /\ p[n] = iter[1 .. n]
    BY <1>10 DEF FoldTurns
  <1>13. p[n] = Parsed(c, b)
    BY <1>1, <1>2, <1>12 DEF n
  <1>14. ParsesInto(p, c, b)
    BY <1>11, <1>12, <1>13 DEF Turn, n, A, base, ParsesInto, Parses, NothingParsed
  <1> QED
    BY <1>14

-----------------------------------------------------------------------------
(* The bytes behind the header.                                            *)

\* m elements behind the first ones.
LEMMA Slice ==
    ASSUME NEW D, NEW s, NEW start \in Nat, NEW m \in Nat, \A k \in 1 .. m : s[start + k] \in D
    PROVE  /\ SubSeq(s, start + 1, start + m) = [k \in 1 .. m |-> s[start + k]]
           /\ SubSeq(s, start + 1, start + m) \in Seq(D)
  <1> DEFINE t == SubSeq(s, start + 1, start + m)
  <1>1. \A i \in (start + 1) .. (start + m) : s[i] \in D
    <2>1. \A i \in (start + 1) .. (start + m) : i - start \in 1 .. m /\ start + (i - start) = i
      OBVIOUS
    <2> QED
      BY <2>1
  <1>2. /\ t \in Seq(D) /\ Len(t) = IF start + 1 <= start + m THEN (start + m) - (start + 1) + 1 ELSE 0
        /\ \A i \in 1 .. (start + m) - (start + 1) + 1 : t[i] = s[(start + 1) + i - 1]
    BY <1>1, SubSeqProperties
  <1> HIDE DEF t
  <1>3. Len(t) = m /\ \A i \in 1 .. m : t[i] = s[start + i]
    <2>1. (start + m) - (start + 1) + 1 = m /\ \A i \in 1 .. m : (start + 1) + i - 1 = start + i
      OBVIOUS
    <2>2. m # 0 => start + 1 <= start + m
      OBVIOUS
    <2> QED
      BY <1>2, <2>1, <2>2
  <1>4. t = [k \in 1 .. m |-> s[start + k]]
    BY <1>2, <1>3
  <1> QED
    BY <1>2, <1>4 DEF t

\* What PathAssumption says of a body.
WellFormed(b) ==
    /\ b.inputs \in Seq(ToSet(b.inputs)) /\ b.blob \in Nat
    /\ \A input \in ToSet(b.inputs) :
         input.shape \in Seq(Int) /\ input.size \in Nat /\ input.form \in {"data", "binary"}

\* What a client sends is well formed.
LEMMA BodiesWellFormed == \A b \in Bodies : WellFormed(b)
  BY PathAssumption DEF WellFormed

\* What the client sent for an input.
OwnBytes(c, input) == IF input.form = "data" THEN InlineBytes(c, input) ELSE Sent(c, input, input.size)

\* What the loop asks of an input by itself.
Acceptable(b, input) ==
    LET metadata == Find(Inputs, input.name)
        expected == TensorElementCount(input.shape)
    IN
    /\ input.name \in NamesOf(Inputs) /\ input.datatype = metadata.datatype
    /\ ShapeMatches(input.shape, metadata) /\ ~expected.overflowed
    /\ input.form = "binary" => ~IsBytes(input)
    /\ expected.count # 0 /\ input.form = "binary" => input.size \div ElementSize = expected.count
    /\ expected.count # 0 /\ input.form = "data" => input.size \in {0, expected.count}

\* What the loop does not refuse.
LEMMA NotRefused ==
    ASSUME NEW got, NEW c, NEW b, NEW input, ~Refuses(got, c, b, input)
    PROVE  /\ Acceptable(b, input) /\ input.name \notin NamesOf(got.inputs)
           /\ input.form = "binary" => ~(got.offset + input.size > b.blob)
  BY DEF Refuses, Acceptable

\* The bytes a client sends are numbered.
LEMMA SentFacts ==
    ASSUME NEW c, NEW input, NEW n \in Nat
    PROVE  /\ Len(Sent(c, input, n)) = n /\ DOMAIN Sent(c, input, n) = 1 .. n
           /\ \A i \in 1 .. n : Sent(c, input, n)[i] = <<c, input.name, i>>
           /\ Sent(c, input, n) \in Seq({<<c, input.name, i>> : i \in Nat})
  BY DEF Sent

\* o is the offset behind each input.
Offsets(o, c, b) ==
    /\ o \in [0 .. Len(b.inputs) -> Nat] /\ o[0] = 0
    /\ \A i \in 1 .. Len(b.inputs) :
         LET input == b.inputs[i]
         IN /\ o[i] = AfterSlice(o[i - 1], input)
            /\ input.form = "binary" /\ ~(o[i - 1] + input.size > b.blob) =>
                 SliceBlob(Blob(c, b), o[i - 1], input.size) = Sent(c, input, input.size)

\* The part of the blob that belongs to an input: where the declared parts before it end.
LEMMA SliceIsOwn ==
    ASSUME NEW c, NEW b, WellFormed(b)
    PROVE  \E o : Offsets(o, c, b)
  <1> DEFINE n == Len(b.inputs)
             D == {<<c, input.name, i>> : input \in ToSet(b.inputs), i \in Nat}
             f == [k \in DOMAIN b.inputs |-> Behind(c, b.inputs[k])]
             size(k) == IF b.inputs[k].form = "binary" THEN b.inputs[k].size ELSE 0
  <1>1. n \in Nat /\ DOMAIN b.inputs = 1 .. n /\ \A k \in 1 .. n : b.inputs[k] \in ToSet(b.inputs)
    BY DEF WellFormed
  <1>2. \A k \in 1 .. n : size(k) \in Nat
    BY <1>1 DEF WellFormed
  <1>3. ASSUME NEW k \in 1 .. n
        PROVE  f[k] = Sent(c, b.inputs[k], size(k)) /\ f[k] \in Seq(D) /\ Len(f[k]) = size(k)
    <2>1. f[k] = Sent(c, b.inputs[k], size(k))
      BY <1>1 DEF Behind
    <2>2. /\ Len(Sent(c, b.inputs[k], size(k))) = size(k)
          /\ Sent(c, b.inputs[k], size(k)) \in Seq({<<c, b.inputs[k].name, i>> : i \in Nat})
      <3> DEFINE m == size(k)
      <3>1. m \in Nat
        BY <1>2
      <3> HIDE DEF m
      <3>2. /\ Len(Sent(c, b.inputs[k], m)) = m
            /\ Sent(c, b.inputs[k], m) \in Seq({<<c, b.inputs[k].name, i>> : i \in Nat})
        BY <3>1, SentFacts
      <3> QED
        BY <3>2 DEF m
    <2>3. {<<c, b.inputs[k].name, i>> : i \in Nat} \subseteq D
      BY <1>1
    <2> HIDE DEF D, f, size
    <2> QED
      BY <2>1, <2>2, <2>3
  <1>4. f \in Seq(Seq(D)) /\ Len(f) = n
    <2>1. f = [k \in 1 .. n |-> f[k]]
      BY <1>1
    <2> HIDE DEF f, D
    <2> QED
      BY <1>1, <1>3, <2>1
  <1>5. Blob(c, b) = [i \in 1 .. b.blob |-> IF i <= Len(FlattenSeq(f)) THEN FlattenSeq(f)[i] ELSE <<c, "stray", i>>]
    BY DEF Blob
  <1> HIDE DEF f, D, n
  <1>0. PICK o : PartsAt(o, D, f)
    BY <1>4, FlattenParts
  <1>6. /\ o \in [0 .. n -> Nat] /\ o[0] = 0 /\ \A i \in 1 .. n : o[i] = o[i - 1] + Len(f[i]) /\ o[i] <= o[n]
        /\ FlattenSeq(f) \in Seq(D) /\ Len(FlattenSeq(f)) = o[n]
        /\ \A i \in 1 .. n : \A k \in 1 .. Len(f[i]) : FlattenSeq(f)[o[i - 1] + k] = f[i][k]
    BY <1>0, <1>4 DEF PartsAt
  <1>7. ASSUME NEW i \in 1 .. n
        PROVE  LET input == b.inputs[i]
               IN /\ o[i] = AfterSlice(o[i - 1], input)
                  /\ input.form = "binary" /\ ~(o[i - 1] + input.size > b.blob) =>
                       SliceBlob(Blob(c, b), o[i - 1], input.size) = Sent(c, input, input.size)
    <2> DEFINE input == b.inputs[i]
    <2>1. i - 1 \in 0 .. n /\ i \in 0 .. n /\ n \in 0 .. n
      BY <1>1
    <2>2. /\ o[i] = o[i - 1] + size(i) /\ o[i - 1] \in Nat /\ o[i] \in Nat /\ o[n] \in Nat /\ size(i) \in Nat
          /\ o[i] <= o[n]
      BY <1>2, <1>3, <1>6, <2>1
    <2>3. o[i] = AfterSlice(o[i - 1], input)
      BY <2>2 DEF AfterSlice
    <2>4. ASSUME input.form = "binary", ~(o[i - 1] + input.size > b.blob)
          PROVE  SliceBlob(Blob(c, b), o[i - 1], input.size) = Sent(c, input, input.size)
      <3> DEFINE start == o[i - 1]
                 m == input.size
                 whole == Blob(c, b)
      <3>1. m \in Nat /\ start \in Nat /\ start + m <= o[n] /\ start + m <= b.blob /\ b.blob \in Nat /\ m = size(i)
        BY <2>2, <2>4 DEF WellFormed
      <3>2. /\ Len(Sent(c, input, m)) = m /\ DOMAIN Sent(c, input, m) = 1 .. m
            /\ Sent(c, input, m) = [k \in 1 .. m |-> Sent(c, input, m)[k]]
        BY <3>1, SentFacts DEF Sent
      <3>3. ASSUME NEW k \in 1 .. m PROVE whole[start + k] = Sent(c, input, m)[k]
        <4>1. start + k \in 1 .. b.blob /\ start + k <= Len(FlattenSeq(f))
          BY SMTT(30), <1>6, <3>1
        <4>2. whole[start + k] = FlattenSeq(f)[start + k]
          BY <1>5, <4>1
        <4>3. k \in 1 .. Len(f[i]) /\ f[i] = Sent(c, input, m)
          BY <1>3, <3>1, <3>2
        <4> QED
          BY <1>6, <4>2, <4>3
      <3>4. ASSUME NEW k \in 1 .. m PROVE Sent(c, input, m)[k] \in D
        <4>1. Sent(c, input, m)[k] = <<c, input.name, k>>
          <5> HIDE DEF m, input, start, whole
          <5> QED
            BY ZenonT(60), <3>1, SentFacts
        <4> QED
          BY <1>1, <4>1 DEF D
      <3> HIDE DEF whole, start, m, input
      <3>5. SliceBlob(whole, start, m) = Sent(c, input, m)
        <4>1. \A k \in 1 .. m : whole[start + k] \in D
          BY <3>3, <3>4
        <4>2. SubSeq(whole, start + 1, start + m) = [k \in 1 .. m |-> whole[start + k]]
          BY <3>1, <4>1, Slice
        <4> QED
          BY <3>2, <3>3, <4>2 DEF SliceBlob
      <3> QED
        BY <3>5 DEF whole, start, m, input
    <2> QED
      BY <2>3, <2>4
  <1> QED
    BY <1>6, <1>7 DEF n, Offsets

-----------------------------------------------------------------------------
(* What an accepted body is.                                               *)

\* A body the loop accepts: every input as the client sent it, no name twice, and
\* nothing wrong with any of them.
Accepts(c, b) ==
    LET r == Parsed(c, b) IN
    /\ r.inputs = [k \in DOMAIN b.inputs |-> NewTensor(b.inputs[k], OwnBytes(c, b.inputs[k]))]
    /\ b.inputs # <<>>
    /\ \A k \in DOMAIN b.inputs : Acceptable(b, b.inputs[k])
    /\ \A j, k \in DOMAIN b.inputs : b.inputs[j].name = b.inputs[k].name => j = k

\* A tensor is what its input says.
LEMMA NewTensorFacts ==
    ASSUME NEW input, NEW bytes
    PROVE  LET t == NewTensor(input, bytes)
           IN /\ t.name = input.name /\ t.datatype = input.datatype
              /\ t.shape = input.shape /\ t.bytes = bytes
  BY DEF NewTensor

\* A body that is parsed has passed every test of the loop, at every input.
LEMMA ParseAccepts ==
    ASSUME NEW c, NEW b, WellFormed(b), Parsed(c, b).ok
    PROVE  Accepts(c, b)
  <1> DEFINE n == Len(b.inputs)
             own(k) == NewTensor(b.inputs[k], OwnBytes(c, b.inputs[k]))
  <1>1. n \in Nat /\ DOMAIN b.inputs = 1 .. n /\ \A k \in 1 .. n : b.inputs[k] \in ToSet(b.inputs)
    BY DEF WellFormed
  <1>2. PICK p : ParsesInto(p, c, b)
    BY ParseTurns DEF WellFormed
  <1>a. PICK o : Offsets(o, c, b)
    BY SliceIsOwn
  <1>3.      /\ o \in [0 .. n -> Nat] /\ o[0] = 0
             /\ \A i \in 1 .. n :
                  LET input == b.inputs[i]
                  IN /\ o[i] = AfterSlice(o[i - 1], input)
                     /\ input.form = "binary" /\ ~(o[i - 1] + input.size > b.blob) =>
                          SliceBlob(Blob(c, b), o[i - 1], input.size) = Sent(c, input, input.size)
    BY <1>a DEF Offsets
  <1> DEFINE fine(i) == p[i].ok =>
                /\ p[i].offset = o[i] /\ Len(p[i].inputs) = i
                /\ \A k \in 1 .. i : p[i].inputs[k] = own(k) /\ Acceptable(b, b.inputs[k])
                /\ \A j, k \in 1 .. i : b.inputs[j].name = b.inputs[k].name => j = k
             good == {i \in 0 .. n : fine(i)}
  <1>4. /\ p \in [0 .. n -> Parses(c, b)]
        /\ p[0] = NothingParsed(b) /\ p[n] = Parsed(c, b)
        /\ \A i \in 1 .. n : p[i] = ParseInput(p[i - 1], c, b, b.inputs[i])
    BY <1>2 DEF ParsesInto
  <1>5. 0 \in good
    <2>1. p[0].offset = 0 /\ Len(p[0].inputs) = 0
      BY <1>4 DEF NothingParsed
    <2>2. fine(0)
      BY <1>3, <2>1
    <2> HIDE DEF fine
    <2> QED
      BY <1>1, <2>2
  <1>6. ASSUME NEW i \in 1 .. n, i - 1 \in good PROVE i \in good
    <2> DEFINE q == p[i - 1]
               input == b.inputs[i]
               bytes == IF input.form = "data" THEN InlineBytes(c, input)
                        ELSE SliceBlob(Blob(c, b), q.offset, input.size)
    <2>1. i - 1 \in 0 .. n /\ i \in 0 .. n /\ fine(i - 1) /\ q \in Parses(c, b) /\ q.inputs \in Seq(TensorsOf(c, b))
      <3>1. i - 1 \in 0 .. n /\ i \in 0 .. n /\ fine(i - 1)
        BY SMTT(30), <1>1, <1>6
      <3> HIDE DEF fine
      <3> QED
        BY <1>4, <3>1 DEF Parses
    <2>2. ASSUME p[i].ok PROVE ~(~q.ok \/ Refuses(q, c, b, input))
      <3>1. p[i] = ParseInput(q, c, b, input)
        BY <1>4
      <3> HIDE DEF q, input, bytes
      <3>2. ASSUME ~q.ok \/ Refuses(q, c, b, input) PROVE FALSE
        <4>1. p[i] = [q EXCEPT !.ok = FALSE]
          BY <3>1, <3>2 DEF ParseInput
        <4>2. ~p[i].ok
          BY <2>1, <4>1 DEF Parses
        <4> QED
          BY <2>2, <4>2
      <3> QED
        BY <3>2
    <2>3. ASSUME p[i].ok
          PROVE  p[i] = [ok |-> TRUE, offset |-> AfterSlice(q.offset, input),
                         inputs |-> Append(q.inputs, NewTensor(input, bytes))]
      BY <1>4, <2>2, <2>3 DEF ParseInput
    <2>4. ASSUME p[i].ok PROVE fine(i)
      <3> HIDE DEF q, input, bytes
      <3>1. q.ok /\ ~Refuses(q, c, b, input)
        BY <2>2, <2>4
      <3>2. /\ q.offset = o[i - 1] /\ Len(q.inputs) = i - 1
            /\ \A k \in 1 .. i - 1 : q.inputs[k] = own(k) /\ Acceptable(b, b.inputs[k])
            /\ \A j, k \in 1 .. i - 1 : b.inputs[j].name = b.inputs[k].name => j = k
        BY <2>1, <3>1 DEF q
      <3>3. /\ Acceptable(b, input) /\ input.name \notin NamesOf(q.inputs)
            /\ input.form = "binary" => ~(q.offset + input.size > b.blob)
        BY <3>1, NotRefused
      <3>4. p[i].offset = AfterSlice(q.offset, input) /\ p[i].inputs = Append(q.inputs, NewTensor(input, bytes))
        BY <2>3, <2>4
      <3>5. p[i].offset = o[i]
        BY <1>3, <3>2, <3>4 DEF input
      <3>6. bytes = OwnBytes(c, input)
        <4>1. CASE input.form = "data"
          BY <4>1 DEF bytes, OwnBytes
        <4>2. CASE input.form # "data"
          <5>1. input.form = "binary"
            BY <1>1, <4>2 DEF WellFormed, input
          <5>2. ~(o[i - 1] + input.size > b.blob)
            BY <3>2, <3>3, <5>1
          <5>3. SliceBlob(Blob(c, b), o[i - 1], input.size) = Sent(c, input, input.size)
            BY <1>3, <5>1, <5>2 DEF input
          <5> QED
            BY <3>2, <4>2, <5>3 DEF bytes, OwnBytes
        <4> QED
          BY <4>1, <4>2
      <3>7. NewTensor(input, bytes) = own(i)
        BY <3>6 DEF input
      <3> DEFINE r == p[i].inputs
      <3>8. r = Append(q.inputs, own(i)) /\ i \in Nat /\ i # 0
        BY <1>1, <3>4, <3>7
      <3> HIDE DEF own, r
      <3>9. Len(r) = i /\ r[i] = own(i) /\ \A k \in 1 .. i - 1 : r[k] = own(k)
        <4>1. Len(q.inputs) = i - 1 /\ q.inputs \in Seq(TensorsOf(c, b))
          BY <2>1, <3>2
        <4>2. Len(Append(q.inputs, own(i))) = i /\ Append(q.inputs, own(i))[i] = own(i)
              /\ \A k \in 1 .. i - 1 : Append(q.inputs, own(i))[k] = q.inputs[k]
          BY <3>8, <4>1
        <4> QED
          BY <3>2, <3>8, <4>2
      <3>10. 1 .. i = (1 .. i - 1) \cup {i}
        BY <3>8
      <3>11. \A k \in 1 .. i : r[k] = own(k) /\ Acceptable(b, b.inputs[k])
        BY <3>2, <3>3, <3>9, <3>10 DEF input
      <3>12. \A k \in 1 .. i - 1 : b.inputs[k].name # b.inputs[i].name
        <4>1. ASSUME NEW k \in 1 .. i - 1 PROVE b.inputs[k].name \in NamesOf(q.inputs)
          <5>1. q.inputs[k].name = b.inputs[k].name
            BY <3>2, NewTensorFacts DEF own
          <5>2. k \in DOMAIN q.inputs
            BY <2>1, <3>2
          <5> QED
            BY <5>1, <5>2 DEF NamesOf
        <4> QED
          BY <3>3, <4>1 DEF input
      <3>13. \A j, k \in 1 .. i : b.inputs[j].name = b.inputs[k].name => j = k
        BY <3>2, <3>10, <3>12
      <3> QED
        BY <3>5, <3>9, <3>11, <3>13 DEF r
    <2>5. fine(i)
      <3> HIDE DEF fine
      <3>1. CASE p[i].ok
        BY <2>4, <3>1
      <3>2. CASE ~p[i].ok
        BY <3>2 DEF fine
      <3> QED
        BY <3>1, <3>2
    <2> HIDE DEF fine
    <2> QED
      BY <2>1, <2>5
  <1>7. n \in 0 .. n /\ \A i \in 0 .. n : i \in good
    <2> HIDE DEF good
    <2>1. \A i \in 0 .. n : i \in good
      BY <1>1, <1>5, <1>6, UpTo
    <2>2. n \in 0 .. n
      BY <1>1
    <2> QED
      BY <2>1, <2>2
  <1>8. fine(n)
    <2> HIDE DEF fine
    <2> QED
      BY <1>7
  <1>9. /\ Len(Parsed(c, b).inputs) = n /\ Parsed(c, b).inputs \in Seq(TensorsOf(c, b))
        /\ \A k \in 1 .. n : Parsed(c, b).inputs[k] = own(k) /\ Acceptable(b, b.inputs[k])
        /\ \A j, k \in 1 .. n : b.inputs[j].name = b.inputs[k].name => j = k
    <2>1. p[n] \in Parses(c, b)
      BY <1>4, <1>7
    <2> HIDE DEF n, own
    <2> QED
      BY <1>4, <1>8, <2>1 DEF Parses
  <1>10. b.inputs # <<>>
    <2>1. CASE n = 0
      <3>1. Parsed(c, b) = NothingParsed(b)
        BY <1>4, <2>1
      <3> QED
        <4>1. NothingParsed(b).ok = (b.inputs # <<>>)
          BY DEF NothingParsed
        <4>2. NothingParsed(b).ok
          BY <3>1
        <4> QED
          BY <4>1, <4>2, Zenon
    <2>2. CASE n # 0
      BY <2>2
    <2> QED
      BY <2>1, <2>2
  <1>11. Parsed(c, b).inputs = [k \in 1 .. n |-> own(k)]
    <2> HIDE DEF n, own
    <2> QED
      BY <1>9
  <1> HIDE DEF own
  <1> QED
    BY <1>1, <1>9, <1>10, <1>11 DEF Accepts, own

-----------------------------------------------------------------------------
(* What was admitted.                                                      *)

\* Products of positive numbers are positive.
LEMMA ProductPositive ==
    ASSUME NEW x \in Nat, NEW y \in Nat
    PROVE  x * y \in Nat /\ (x > 0 /\ y > 0 => x * y > 0)
  OBVIOUS

\* Dividing the bytes by the size of an element gives the elements.
LEMMA QuotientOfProduct ==
    ASSUME NEW x \in Nat, NEW y \in Nat, y > 0
    PROVE  (x * y) \div y = x
  OBVIOUS

\* Without a zero, the codec and the executor count alike.
LEMMA CountsAgree ==
    ASSUME NEW shape \in Seq(Int), \A i \in DOMAIN shape : shape[i] > 0,
           ~TensorElementCount(shape).overflowed
    PROVE  /\ ElementCount(shape).ok /\ TensorElementCount(shape).count = ElementCount(shape).count
           /\ TensorElementCount(shape).count # 0
  <1> DEFINE n == Len(shape)
  <1>1. PICK p \in [0 .. n -> [count : Nat, overflowed : BOOLEAN]] :
             /\ p[0] = [count |-> 1, overflowed |-> FALSE] /\ p[n] = TensorElementCount(shape)
             /\ \A i \in 1 .. n : p[i] = Factor(p[i - 1], shape[i])
    BY TensorElementCountTurns
  <1>2. PICK q \in [0 .. n -> [ok : BOOLEAN, count : Nat]] :
             /\ q[0] = [ok |-> TRUE, count |-> 1] /\ q[n] = ElementCount(shape)
             /\ \A i \in 1 .. n : q[i] = Dimension(q[i - 1], shape[i])
    BY ElementCountTurns
  <1> DEFINE alike(i) == /\ ~p[i].overflowed => q[i].ok /\ p[i].count = q[i].count /\ p[i].count > 0
                         /\ p[i].overflowed => p[i].count = 0
             good == {i \in 0 .. n : alike(i)}
  <1>3. n \in Nat /\ DOMAIN shape = 1 .. n /\ \A i \in 1 .. n : shape[i] \in Nat /\ shape[i] > 0
    OBVIOUS
  <1>4. 0 \in good
    BY <1>1, <1>2, <1>3
  <1>5. ASSUME NEW i \in 1 .. n, i - 1 \in good PROVE i \in good
    <2> DEFINE a == p[i - 1]
               e == q[i - 1]
               d == shape[i]
    <2>1. i - 1 \in 0 .. n /\ i \in 0 .. n /\ alike(i - 1)
      BY <1>3, <1>5
    <2>2. a \in [count : Nat, overflowed : BOOLEAN] /\ e \in [ok : BOOLEAN, count : Nat] /\ d \in Nat /\ d > 0
      BY <1>3, <2>1
    <2>3. p[i] = Factor(a, d) /\ q[i] = Dimension(e, d)
      BY <1>1, <1>2
    <2>4. /\ ~a.overflowed => e.ok /\ a.count = e.count /\ a.count > 0
          /\ a.overflowed => a.count = 0
      BY <2>1
    <2> HIDE DEF a, e, d
    <2>5. CASE a.count = 0
      <3>1. a.overflowed /\ p[i] = [a EXCEPT !.count = 0]
        BY <2>2, <2>3, <2>4, <2>5 DEF Factor
      <3>2. p[i].overflowed /\ p[i].count = 0
        BY <2>2, <3>1
      <3> QED
        BY <2>1, <3>2
    <2>6. CASE a.count # 0 /\ a.count > SizeMax \div d
      <3>1. p[i] = [count |-> 0, overflowed |-> TRUE]
        BY <2>2, <2>3, <2>6 DEF Factor
      <3> QED
        BY <2>1, <3>1
    <2>7. CASE a.count # 0 /\ ~(a.count > SizeMax \div d)
      <3>1. ~a.overflowed /\ e.ok /\ a.count = e.count /\ a.count > 0
        BY <2>2, <2>4, <2>7
      <3>2. p[i] = [a EXCEPT !.count = a.count * d]
        BY <2>2, <2>3, <2>7 DEF Factor
      <3>3. q[i] = [ok |-> TRUE, count |-> e.count * d]
        <4>1. ~(~e.ok \/ d < 0 \/ (d # 0 /\ e.count > SizeMax \div d))
          BY <2>2, <2>7, <3>1
        <4> QED
          BY <2>3, <4>1 DEF Dimension
      <3>4. a.count * d > 0
        BY <2>2, <3>1, ProductPositive
      <3>5. p[i].count = a.count * d /\ p[i].overflowed = a.overflowed
        BY <2>2, <3>2
      <3> QED
        BY <2>1, <3>1, <3>3, <3>4, <3>5
    <2> QED
      BY <2>5, <2>6, <2>7
  <1>6. n \in 0 .. n /\ \A i \in 0 .. n : i \in good
    <2> HIDE DEF good
    <2>1. \A i \in 0 .. n : i \in good
      BY <1>3, <1>4, <1>5, UpTo
    <2>2. n \in 0 .. n
      BY <1>3
    <2> QED
      BY <2>1, <2>2
  <1>7. alike(n)
    BY <1>6
  <1> QED
    BY <1>1, <1>2, <1>7

\* Different names, as many as there are inputs.
LEMMA NamesCounted ==
    ASSUME NEW D, NEW tensors \in Seq(D),
           \A j, k \in DOMAIN tensors : tensors[j].name = tensors[k].name => j = k
    PROVE  IsFiniteSet(NamesOf(tensors)) /\ Cardinality(NamesOf(tensors)) = Len(tensors)
  <1> DEFINE n == Len(tensors)
             f == [i \in 1 .. n |-> tensors[i].name]
  <1>1. n \in Nat /\ DOMAIN tensors = 1 .. n /\ IsFiniteSet(1 .. n) /\ Cardinality(1 .. n) = n
    <2>1. n \in Nat /\ DOMAIN tensors = 1 .. n
      OBVIOUS
    <2> HIDE DEF n
    <2>2. IsFiniteSet(1 .. n) /\ Cardinality(1 .. n) = IF 1 > n THEN 0 ELSE n - 1 + 1
      BY <2>1, FS_Interval
    <2> QED
      BY <2>1, <2>2
  <1>2. f \in Bijection(1 .. n, NamesOf(tensors))
    <2>1. NamesOf(tensors) = {tensors[i].name : i \in 1 .. n}
      BY <1>1 DEF NamesOf
    <2>2. \A j, k \in 1 .. n : f[j] = f[k] => j = k
      BY <1>1
    <2>3. f \in [1 .. n -> NamesOf(tensors)] /\ \A name \in NamesOf(tensors) : \E i \in 1 .. n : f[i] = name
      BY <2>1
    <2> HIDE DEF f, n
    <2> QED
      BY <2>2, <2>3 DEF Bijection, Injection, Surjection, IsInjective
  <1>3. ExistsBijection(1 .. n, NamesOf(tensors))
    <2> HIDE DEF f, n
    <2> QED
      BY <1>2 DEF ExistsBijection
  <1> QED
    BY <1>1, <1>3, FS_Bijection

\* What is known of a request the codec has admitted.
LEMMA AdmittedOverHttp ==
    ASSUME PathInv, NEW c \in Clients, body[c].transport = "http", execution[c].ok
    PROVE  /\ WellFormed(body[c]) /\ Accepts(c, body[c])
           /\ execution[c].inputs = [k \in DOMAIN body[c].inputs |->
                                       NewTensor(body[c].inputs[k], OwnBytes(c, body[c].inputs[k]))]
           /\ NamesOf(execution[c].inputs) = NamesOf(Inputs)
           /\ Len(execution[c].inputs) = Cardinality(NamesOf(Inputs))
  <1> DEFINE b == body[c]
             r == execution[c]
             got == Parsed(c, b)
             n == Len(b.inputs)
             fine == got.ok /\ Complete(got, b) /\ \A i \in DOMAIN b.outputs : b.outputs[i] \in ToSet(Outputs)
  <1>1. b \in Bodies /\ r = ParseInferenceRequest(c, b)
    BY NothingExecuted DEF PathInv, PathPlaces, Decoded
  <1>2. WellFormed(b)
    BY <1>1, BodiesWellFormed
  <1>3. r = [ok |-> fine, inputs |-> got.inputs,
             outputs |-> IF b.outputs = <<>> THEN Outputs ELSE b.outputs]
    BY <1>1, Zenon DEF ParseInferenceRequest, Parsed, NothingParsed
  <1>4. got.ok /\ Complete(got, b) /\ r.inputs = got.inputs
    <2> HIDE DEF got, b, r, fine
    <2>1. r.inputs = got.inputs /\ r.ok = fine
      BY <1>3
    <2>2. r.ok
      BY DEF r
    <2>3. fine
      BY <2>1, <2>2
    <2> QED
      BY <2>1, <2>3 DEF fine
  <1>5. Accepts(c, b)
    BY <1>2, <1>4, ParseAccepts
  <1>6. r.inputs = [k \in DOMAIN b.inputs |-> NewTensor(b.inputs[k], OwnBytes(c, b.inputs[k]))]
    BY <1>4, <1>5 DEF Accepts
  <1> HIDE DEF r, b, got
  <1>7. DOMAIN b.inputs = 1 .. n /\ n \in Nat /\ \A k \in DOMAIN b.inputs : b.inputs[k] \in ToSet(b.inputs)
    BY <1>2 DEF WellFormed
  <1>8. DOMAIN r.inputs = DOMAIN b.inputs /\ \A k \in DOMAIN b.inputs : r.inputs[k].name = b.inputs[k].name
    BY <1>6, NewTensorFacts
  <1>9. NamesOf(r.inputs) = NamesOf(Inputs)
    <2>2. \A k \in DOMAIN b.inputs : b.inputs[k].name \in NamesOf(Inputs)
      BY <1>5 DEF Accepts, Acceptable
    <2>3. NamesOf(r.inputs) = {b.inputs[k].name : k \in DOMAIN b.inputs}
      BY <1>8 DEF NamesOf
    <2>4. \A m \in NamesOf(r.inputs) : m \in NamesOf(Inputs)
      BY <2>2, <2>3
    <2>5. \A m \in NamesOf(Inputs) : m \in NamesOf(r.inputs)
      BY <1>4 DEF Complete
    <2> QED
      BY <2>4, <2>5
  <1>10. Len(r.inputs) = Cardinality(NamesOf(Inputs))
    <2>1. \E D : r.inputs \in Seq(D)
      <3>1. r.inputs \in Seq({r.inputs[k] : k \in 1 .. n})
        <4>1. r.inputs = [k \in 1 .. n |-> r.inputs[k]]
          BY <1>6, <1>7
        <4> QED
          BY <1>7, <4>1
      <3> QED
        BY <3>1
    <2>2. \A j, k \in DOMAIN r.inputs : r.inputs[j].name = r.inputs[k].name => j = k
      BY <1>5, <1>8 DEF Accepts
    <2>3. Cardinality(NamesOf(r.inputs)) = Len(r.inputs)
      BY <2>1, <2>2, NamesCounted
    <2> QED
      BY <1>9, <2>3
  <1> QED
    BY <1>2, <1>5, <1>6, <1>9, <1>10 DEF b, r

\* What was decoded over HTTP has the inputs of the model and the bytes that were sent.
LEMMA OwnInputs == PathInv => InputsAreTheirOwn
  <1> SUFFICES ASSUME PathInv, NEW c \in Clients, body[c].transport = "http", execution[c].ok
               PROVE  /\ NamesOf(execution[c].inputs) = NamesOf(Inputs)
                      /\ Len(execution[c].inputs) = Cardinality(NamesOf(Inputs))
                      /\ \A i \in DOMAIN execution[c].inputs :
                           execution[c].inputs[i].bytes = OwnBytes(c, body[c].inputs[i])
    BY DEF InputsAreTheirOwn, OwnBytes
  <1>1. /\ NamesOf(execution[c].inputs) = NamesOf(Inputs)
        /\ Len(execution[c].inputs) = Cardinality(NamesOf(Inputs))
        /\ execution[c].inputs = [k \in DOMAIN body[c].inputs |->
                                    NewTensor(body[c].inputs[k], OwnBytes(c, body[c].inputs[k]))]
    BY AdmittedOverHttp
  <1>2. \A i \in DOMAIN execution[c].inputs :
           execution[c].inputs[i].bytes = OwnBytes(c, body[c].inputs[i])
    BY <1>1, NewTensorFacts
  <1> QED
    BY <1>1, <1>2

\* However many binary inputs a body of HTTP interleaves with inline ones,
\* parseInferenceRequest gives each input the bytes that were sent for it.
THEOREM InputsAreTheirOwnAlways == PathSpec => []InputsAreTheirOwn
  BY OwnInputs, PathInvariant, PTL

\* An inline tensor that is not BYTES has a fixed size for each element.
LEMMA InlineLength ==
    ASSUME NEW c, NEW input, input.size \in Nat, ~IsBytes(input)
    PROVE  Len(InlineBytes(c, input)) = input.size * ElementSize
  <1> DEFINE m == input.size * ElementSize
  <1>1. m \in Nat
    BY PathAssumption, ProductPositive
  <1>2. InlineBytes(c, input) = Sent(c, input, m)
    BY DEF InlineBytes
  <1> HIDE DEF m
  <1>3. Len(Sent(c, input, m)) = m
    BY <1>1, SentFacts
  <1> QED
    BY <1>2, <1>3 DEF m

\* What the codec has tested is what the executor tests.
LEMMA ExecutableInputs == PathInv => AdmittedIsExecutable
  <1> SUFFICES ASSUME PathInv, NEW c \in Clients, body[c].transport = "http", execution[c].ok,
                      \A i \in DOMAIN body[c].inputs :
                         LET input == body[c].inputs[i]
                         IN ~(input.datatype = "BYTES" \/ input.size = 0 \/ 0 \in ToSet(input.shape))
               PROVE  Executable(execution[c])
    BY DEF AdmittedIsExecutable
  <1> DEFINE b == body[c]
             r == execution[c]
  <1>1. /\ WellFormed(b) /\ Accepts(c, b)
        /\ r.inputs = [k \in DOMAIN b.inputs |-> NewTensor(b.inputs[k], OwnBytes(c, b.inputs[k]))]
        /\ NamesOf(r.inputs) = NamesOf(Inputs) /\ Len(r.inputs) = Cardinality(NamesOf(Inputs))
    BY AdmittedOverHttp
  <1>2. ASSUME NEW i \in DOMAIN r.inputs
        PROVE  LET tensor == r.inputs[i]
                   metadata == Find(Inputs, tensor.name)
                   expected == ElementCount(tensor.shape)
               IN /\ tensor.datatype = metadata.datatype /\ ~IsBytes(tensor)
                  /\ ShapeMatches(tensor.shape, metadata)
                  /\ expected.ok /\ Len(tensor.bytes) \div ElementSize = expected.count
    <2> DEFINE input == b.inputs[i]
               tensor == r.inputs[i]
               metadata == Find(Inputs, input.name)
    <2>1. i \in DOMAIN b.inputs
      BY <1>1
    <2>2. /\ tensor.name = input.name /\ tensor.datatype = input.datatype /\ tensor.shape = input.shape
          /\ tensor.bytes = OwnBytes(c, input)
      BY <1>1, NewTensorFacts
    <2>3. input.datatype # "BYTES" /\ input.size # 0 /\ 0 \notin ToSet(input.shape)
      BY <2>1
    <2>4. input \in ToSet(b.inputs) /\ input.shape \in Seq(Int) /\ input.size \in Nat /\ input.form \in {"data", "binary"}
      BY <1>1, <2>1 DEF WellFormed
    <2>5. Acceptable(b, input)
      BY <1>1, <2>1 DEF Accepts
    <2> HIDE DEF input, tensor
    <2>6. input.datatype = metadata.datatype /\ ShapeMatches(input.shape, metadata) /\ ~TensorElementCount(input.shape).overflowed
      BY <2>5 DEF Acceptable
    <2>7. \A k \in DOMAIN input.shape : input.shape[k] > 0
      <3>1. \A k \in DOMAIN input.shape : input.shape[k] >= 0
        BY <2>6 DEF ShapeMatches
      <3>2. \A k \in DOMAIN input.shape : input.shape[k] # 0 /\ input.shape[k] \in Int
        BY <2>3, <2>4 DEF ToSet
      <3> QED
        BY <3>1, <3>2
    <2>8. /\ ElementCount(input.shape).ok /\ TensorElementCount(input.shape).count = ElementCount(input.shape).count
          /\ TensorElementCount(input.shape).count # 0
      BY <2>4, <2>6, <2>7, CountsAgree
    <2>9. ~IsBytes(input) /\ ~IsBytes(tensor)
      BY <2>2, <2>3 DEF IsBytes
    <2>10. Len(tensor.bytes) \div ElementSize = TensorElementCount(input.shape).count
      <3>1. CASE input.form = "data"
        <4>1. input.size = TensorElementCount(input.shape).count
          BY <2>3, <2>5, <2>8, <3>1 DEF Acceptable
        <4>2. Len(tensor.bytes) = input.size * ElementSize
          BY <2>2, <2>4, <2>9, <3>1, InlineLength DEF OwnBytes
        <4>3. (input.size * ElementSize) \div ElementSize = input.size
          BY <2>4, PathAssumption, QuotientOfProduct
        <4> QED
          BY <4>1, <4>2, <4>3
      <3>2. CASE input.form = "binary"
        <4>1. input.size \div ElementSize = TensorElementCount(input.shape).count
          BY <2>5, <2>8, <3>2 DEF Acceptable
        <4> DEFINE m == input.size
        <4>2. Len(Sent(c, input, m)) = m
          <5>1. m \in Nat
            BY <2>4
          <5> HIDE DEF m
          <5> QED
            BY <5>1, SentFacts
        <4> QED
          BY <2>2, <3>2, <4>1, <4>2 DEF OwnBytes
      <3> QED
        BY <2>4, <3>1, <3>2
    <2> QED
      BY <2>2, <2>6, <2>8, <2>9, <2>10 DEF tensor, input
  <1> QED
    BY <1>1, <1>2 DEF Executable

\* What parseInferenceRequest admits, NeuriploExecutor executes: for all shapes and any
\* width of size_t, tensorElementCount of the one agrees with elementCount of the other.
THEOREM AdmittedIsExecutableAlways == PathSpec => []AdmittedIsExecutable
  BY ExecutableInputs, PathInvariant, PTL

-----------------------------------------------------------------------------
(* More about flattened sequences.                                         *)

\* The offsets are the only function that grows by the lengths of the parts.
Grows(h, f) == h[0] = 0 /\ \A i \in 1 .. Len(f) : h[i] = h[i - 1] + Len(f[i])

\* Offsets that grow by the lengths are the only ones.
LEMMA OffsetsUnique ==
    ASSUME NEW D, NEW f \in Seq(Seq(D)), NEW o, PartsAt(o, D, f), NEW h, Grows(h, f)
    PROVE  \A i \in 0 .. Len(f) : o[i] = h[i]
  <1> DEFINE n == Len(f)
             good == {i \in 0 .. n : o[i] = h[i]}
  <1>1. n \in Nat /\ o[0] = 0 /\ \A i \in 1 .. n : o[i] = o[i - 1] + Len(f[i])
    BY DEF PartsAt
  <1>0. h[0] = 0 /\ \A i \in 1 .. Len(f) : h[i] = h[i - 1] + Len(f[i])
    BY DEF Grows
  <1>2. 0 \in good
    BY <1>0, <1>1
  <1>3. ASSUME NEW i \in 1 .. n, i - 1 \in good PROVE i \in good
    <2>1. i \in 0 .. n /\ o[i - 1] = h[i - 1]
      BY <1>1, <1>3
    <2>2. o[i] = h[i]
      BY <1>0, <1>1, <2>1
    <2> QED
      BY <2>1, <2>2
  <1>4. \A i \in 0 .. n : i \in good
    <2> HIDE DEF good
    <2> QED
      BY <1>1, <1>2, <1>3, UpTo
  <1> QED
    BY <1>4

\* A computation that concatenates the parts, from the a-th on.
Concats(p, n, f, D) ==
    p \in [0 .. n -> Seq(D)] /\ \A i \in 1 .. n : f[i] \in Seq(D) /\ p[i] = p[i - 1] \o f[i]
\* q concatenates what f has behind position a.
ConcatsBehind(q, m, a, f, D) ==
    q \in [0 .. m -> Seq(D)] /\ q[0] = <<>> /\ \A i \in 1 .. m : q[i] = q[i - 1] \o f[a + i]

\* q goes on where p has come to.
Continues(p, q, a, m) == p[a + m] = p[a] \o q[m]
\* m positions from a on, of n.
Within(a, m, n) == a \in Nat /\ m \in Nat /\ n \in Nat /\ a + m <= n

\* Concatenating on from a position is appending what is behind it.
LEMMA ConcatFrom ==
    ASSUME NEW D, NEW n, NEW a, NEW m, Within(a, m, n),
           NEW f, NEW p, Concats(p, n, f, D), NEW q, ConcatsBehind(q, m, a, f, D)
    PROVE  Continues(p, q, a, m)
  <1> USE DEF Within
  <1>0. /\ p \in [0 .. n -> Seq(D)] /\ \A i \in 1 .. n : f[i] \in Seq(D) /\ p[i] = p[i - 1] \o f[i]
        /\ q \in [0 .. m -> Seq(D)] /\ q[0] = <<>> /\ \A i \in 1 .. m : q[i] = q[i - 1] \o f[a + i]
    BY DEF Concats, ConcatsBehind
  <1> DEFINE good == {i \in 0 .. m : p[a + i] = p[a] \o q[i]}
  <1>1. 0 \in good
    <2>1. p[a] \in Seq(D) /\ a + 0 = a
      BY <1>0
    <2>2. p[a] \o <<>> = p[a]
      BY <2>1, ConcatEmptySeq
    <2>3. p[a + 0] = p[a] \o q[0]
      BY <1>0, <2>1, <2>2
    <2>4. 0 \in 0 .. m
      OBVIOUS
    <2> QED
      BY <2>3, <2>4
  <1>2. ASSUME NEW i \in 1 .. m, i - 1 \in good PROVE i \in good
    <2>1. a + i \in 1 .. n /\ (a + i) - 1 = a + (i - 1) /\ i - 1 \in 0 .. m /\ i \in 0 .. m /\ a \in 0 .. n
      OBVIOUS
    <2>2. p[a + (i - 1)] = p[a] \o q[i - 1]
      BY <1>0, <1>2
    <2> HIDE DEF good
    <2>3. p[a] \in Seq(D) /\ q[i - 1] \in Seq(D) /\ f[a + i] \in Seq(D)
      BY <1>0, <2>1
    <2>4. p[a + i] = p[a + (i - 1)] \o f[a + i]
      <3>1. p[a + i] = p[(a + i) - 1] \o f[a + i]
        BY <1>0, <2>1
      <3> QED
        BY <2>1, <3>1
    <2>5. q[i] = q[i - 1] \o f[a + i]
      BY <1>0
    <2>6. (p[a] \o q[i - 1]) \o f[a + i] = p[a] \o (q[i - 1] \o f[a + i])
      <3> DEFINE x == p[a]
                 y == q[i - 1]
                 z == f[a + i]
      <3>1. x \in Seq(D) /\ y \in Seq(D) /\ z \in Seq(D)
        BY <2>3
      <3> HIDE DEF x, y, z
      <3>2. (x \o y) \o z = x \o (y \o z)
        BY SMTT(30), <3>1, ConcatAssociative
      <3> QED
        BY <3>2 DEF x, y, z
    <2>7. p[a + i] = p[a] \o q[i]
      BY <2>2, <2>4, <2>5, <2>6
    <2> QED
      BY <2>1, <2>7 DEF good
  <1>3. \A i \in 0 .. m : i \in good
    <2> HIDE DEF good
    <2> QED
      BY <1>1, <1>2, UpTo
  <1>4. m \in 0 .. m
    OBVIOUS
  <1> QED
    BY <1>3, <1>4 DEF Continues

\* Concatenating something behind a sequence leaves what it had.
LEMMA ConcatStays ==
    ASSUME NEW D, NEW s \in Seq(D), NEW t \in Seq(D)
    PROVE  /\ s \o t \in Seq(D) /\ Len(s \o t) = Len(s) + Len(t)
           /\ \A x \in 1 .. Len(s) : (s \o t)[x] = s[x]
           /\ \A x \in 1 .. Len(t) : (s \o t)[Len(s) + x] = t[x] /\ t[x] \in D
  OBVIOUS

\* The flattened parts a + 1 to a + m are where they should be in the whole.
SliceFlattens(f, o, a, m) == SubSeq(FlattenSeq(f), o[a] + 1, o[a + m]) = FlattenSeq([i \in 1 .. m |-> f[a + i]])

\* Cutting between the offsets of two parts gives the parts in between.
LEMMA FlattenSlice ==
    ASSUME NEW D, NEW f \in Seq(Seq(D)), NEW a, NEW m, Within(a, m, Len(f)),
           NEW o, PartsAt(o, D, f)
    PROVE  SliceFlattens(f, o, a, m)
  <1> DEFINE n == Len(f)
             b == n - a - m
             g == [i \in 1 .. m |-> f[a + i]]
             h == [i \in 1 .. b |-> f[a + m + i]]
  <1> USE DEF Within
  <1>1. /\ n \in Nat /\ b \in Nat /\ a \in 0 .. n /\ a + m \in 0 .. n /\ a + m \in Nat /\ n = (a + m) + b
        /\ \A i \in 1 .. n : f[i] \in Seq(D)
    OBVIOUS
  <1>2. g \in Seq(Seq(D)) /\ Len(g) = m /\ \A i \in 1 .. m : g[i] = f[a + i]
    <2>1. \A i \in 1 .. m : a + i \in 1 .. n
      OBVIOUS
    <2>2. \A i \in 1 .. m : f[a + i] \in Seq(D)
      BY <1>1, <2>1
    <2> HIDE DEF n, b, h
    <2> QED
      BY <2>2
  <1>3. h \in Seq(Seq(D)) /\ Len(h) = b /\ \A i \in 1 .. b : h[i] = f[a + m + i]
    <2> HIDE DEF b, n
    <2>1. \A i \in 1 .. b : a + m + i \in 1 .. n
      BY <1>1
    <2>2. \A i \in 1 .. b : f[a + m + i] \in Seq(D)
      BY <1>1, <2>1
    <2> QED
      BY <1>1, <2>2
  <1>4. PICK p \in [0 .. n -> Seq(D)] :
             /\ p[0] = <<>> /\ p[n] = FlattenSeq(f)
             /\ \A i \in 1 .. n : p[i] = p[i - 1] \o f[i]
    BY FlattenTurns
  <1>5. PICK q \in [0 .. m -> Seq(D)] :
             /\ q[0] = <<>> /\ q[m] = FlattenSeq(g)
             /\ \A i \in 1 .. m : q[i] = q[i - 1] \o f[a + i]
    <2> HIDE DEF g, h, n, b
    <2>1. PICK q \in [0 .. Len(g) -> Seq(D)] :
             /\ q[0] = <<>> /\ q[Len(g)] = FlattenSeq(g)
             /\ \A i \in 1 .. Len(g) : q[i] = q[i - 1] \o g[i]
      BY <1>2, FlattenTurns
    <2> QED
      BY <1>2, <2>1
  <1>6. PICK r \in [0 .. b -> Seq(D)] :
             /\ r[0] = <<>> /\ \A i \in 1 .. b : r[i] = r[i - 1] \o f[(a + m) + i]
    <2> HIDE DEF g, h, n, b
    <2>1. PICK r \in [0 .. Len(h) -> Seq(D)] :
             /\ r[0] = <<>> /\ r[Len(h)] = FlattenSeq(h)
             /\ \A i \in 1 .. Len(h) : r[i] = r[i - 1] \o h[i]
      BY <1>3, FlattenTurns
    <2> QED
      BY <1>3, <2>1
  <1> HIDE DEF g, h, n, b
  <1>7. p[a + m] = p[a] \o q[m]
    <2>1. a + m <= n
      BY <1>1
    <2>2. Concats(p, n, f, D)
      BY <1>1, <1>4 DEF Concats
    <2>3. ConcatsBehind(q, m, a, f, D)
      BY <1>5 DEF ConcatsBehind
    <2>4. Within(a, m, n)
      BY <1>1, <2>1 DEF Within
    <2>5. Continues(p, q, a, m)
      BY <2>2, <2>3, <2>4, ConcatFrom
    <2> QED
      BY <2>5 DEF Continues
  <1>8. p[n] = p[a + m] \o r[b]
    <2> DEFINE am == a + m
    <2>1. am \in Nat /\ am + b <= n /\ n = am + b
      BY <1>1
    <2>2. \A i \in 1 .. b : r[i] = r[i - 1] \o f[am + i]
      BY <1>6
    <2> HIDE DEF am
    <2>4. Concats(p, n, f, D)
      BY <1>1, <1>4 DEF Concats
    <2>5. ConcatsBehind(r, b, am, f, D)
      BY <1>6, <2>2 DEF ConcatsBehind
    <2>3. p[am + b] = p[am] \o r[b]
      <3>1. Within(am, b, n)
        BY <1>1, <2>1 DEF Within
      <3>2. Continues(p, r, am, b)
        BY <2>4, <2>5, <3>1, ConcatFrom
      <3> QED
        BY <3>2 DEF Continues
    <2> QED
      BY <2>1, <2>3 DEF am
  <1> DEFINE k == [i \in 0 .. n |-> Len(p[i])]
  <1>9. \A i \in 0 .. n : o[i] = k[i]
    <2>1. k[0] = 0
      BY <1>1, <1>4
    <2>2. ASSUME NEW i \in 1 .. n PROVE k[i] = k[i - 1] + Len(f[i])
      <3>1. i \in 0 .. n /\ i - 1 \in 0 .. n
        BY <1>1
      <3>2. p[i - 1] \in Seq(D) /\ f[i] \in Seq(D) /\ p[i] = p[i - 1] \o f[i]
        BY <1>1, <1>4, <3>1
      <3>3. Len(p[i]) = Len(p[i - 1]) + Len(f[i])
        BY <3>2, ConcatStays
      <3> QED
        BY <3>1, <3>3
    <2> HIDE DEF k
    <2>3. Grows(k, f)
      BY <2>1, <2>2 DEF Grows, n
    <2>4. \A i \in 0 .. Len(f) : o[i] = k[i]
      BY <2>3, OffsetsUnique
    <2> QED
      BY <2>4 DEF n
  <1>10. o[a] = Len(p[a]) /\ o[a + m] = Len(p[a + m])
    BY <1>1, <1>9
  <1> DEFINE s == p[a]
             t == q[m]
             u == r[b]
  <1>11. s \in Seq(D) /\ t \in Seq(D) /\ u \in Seq(D)
    BY <1>1, <1>4, <1>5, <1>6
  <1>12. FlattenSeq(f) = (s \o t) \o u /\ o[a] = Len(s) /\ o[a + m] = Len(s \o t)
    BY <1>4, <1>7, <1>8, <1>10
  <1> HIDE DEF s, t, u, k
  <1>13. o[a + m] = Len(s) + Len(t) /\ Len(s) \in Nat /\ Len(t) \in Nat
    BY <1>11, <1>12, ConcatStays
  <1>14. ASSUME NEW x \in 1 .. Len(t) PROVE FlattenSeq(f)[Len(s) + x] = t[x] /\ t[x] \in D
    <2>1. s \o t \in Seq(D)
      BY <1>11
    <2>2. Len(s) + x \in 1 .. Len(s \o t)
      BY <1>12, <1>13
    <2>3. ((s \o t) \o u)[Len(s) + x] = (s \o t)[Len(s) + x]
      BY <1>11, <2>1, <2>2, ConcatStays
    <2>4. (s \o t)[Len(s) + x] = t[x] /\ t[x] \in D
      BY SMTT(30), <1>11, ConcatStays
    <2> QED
      BY <1>12, <2>3, <2>4
  <1>15. SubSeq(FlattenSeq(f), Len(s) + 1, Len(s) + Len(t)) = [x \in 1 .. Len(t) |-> FlattenSeq(f)[Len(s) + x]]
    <2>1. \A x \in 1 .. Len(t) : FlattenSeq(f)[Len(s) + x] \in D
      BY <1>14
    <2> QED
      BY <1>13, <2>1, Slice
  <1>16. t = [x \in 1 .. Len(t) |-> t[x]]
    BY <1>11
  <1>17. [x \in 1 .. Len(t) |-> FlattenSeq(f)[Len(s) + x]] = [x \in 1 .. Len(t) |-> t[x]]
    BY <1>14
  <1> QED
    BY <1>5, <1>12, <1>13, <1>15, <1>16, <1>17 DEF t, g, SliceFlattens

-----------------------------------------------------------------------------
(* Arithmetic.                                                             *)

\* Facts about products the solver has to be told.
LEMMA Distributes ==
    ASSUME NEW a \in Int, NEW b \in Int, NEW c \in Int
    PROVE  (a + b) * c = a * c + b * c /\ (a - b) * c = a * c - b * c /\ a * c \in Int
  OBVIOUS

\* Products associate.
LEMMA Associates ==
    ASSUME NEW a \in Int, NEW b \in Int, NEW c \in Int
    PROVE  (a * b) * c = a * (b * c)
  OBVIOUS

\* A product grows with its factor.
LEMMA Monotone ==
    ASSUME NEW a \in Nat, NEW b \in Nat, NEW c \in Nat, a <= b
    PROVE  a * c <= b * c /\ a * c \in Nat /\ b * c \in Nat
  OBVIOUS

\* The test against a quotient is one against the product.
LEMMA UnderQuotient ==
    ASSUME NEW x \in Nat, NEW d \in Nat, d > 0, NEW s \in Nat, x <= s \div d
    PROVE  x * d <= s
  <1> DEFINE q == s \div d
  <1>1. q \in Nat /\ q * d <= s
    OBVIOUS
  <1> HIDE DEF q
  <1>2. x * d <= q * d /\ x * d \in Nat /\ q * d \in Nat
    BY <1>1, Monotone DEF q
  <1> QED
    BY <1>1, <1>2

-----------------------------------------------------------------------------
(* The tensor of a name.                                                   *)

\* The first tensor of a name is at i.
FindsAt(tensors, n, i) ==
    i \in DOMAIN tensors /\ tensors[i].name = n /\ \A j \in 1 .. i - 1 : tensors[j].name # n

\* Find finds it.
LEMMA FindIs ==
    ASSUME NEW D, NEW tensors \in Seq(D), NEW n, NEW i, FindsAt(tensors, n, i)
    PROVE  Find(tensors, n) = tensors[i]
  <1> DEFINE P(k) == k \in DOMAIN tensors /\ tensors[k].name = n /\ \A j \in 1 .. k - 1 : tensors[j].name # n
             k == CHOOSE k \in DOMAIN tensors : tensors[k].name = n /\ \A j \in 1 .. k - 1 : tensors[j].name # n
  <1>1. P(k)
    BY DEF FindsAt
  <1>2. i \in Nat /\ k \in Nat /\ 1 <= i /\ 1 <= k
    BY <1>1 DEF FindsAt
  <1>3. i = k
    <2>1. ~(i < k)
      <3> HIDE DEF k
      <3> QED
        BY <1>1, <1>2 DEF FindsAt
    <2>2. ~(k < i)
      <3> HIDE DEF k
      <3> QED
        BY <1>1, <1>2 DEF FindsAt
    <2> QED
      BY <1>2, <2>1, <2>2
  <1> QED
    BY <1>3 DEF Find

\* A name that is there is found, by the least index.
LEMMA FindsSomewhere ==
    ASSUME NEW D, NEW tensors \in Seq(D), NEW n \in NamesOf(tensors)
    PROVE  \E i : FindsAt(tensors, n, i)
  <1> DEFINE bad == {i \in DOMAIN tensors : tensors[i].name = n}
  <1>1. bad \subseteq Nat /\ bad # {}
    BY DEF NamesOf
  <1> HIDE DEF bad
  <1>2. PICK i \in bad : \A j \in bad : i <= j
    BY <1>1, LeastNatural
  <1>3. FindsAt(tensors, n, i)
    <2>1. i \in DOMAIN tensors /\ tensors[i].name = n /\ i \in 1 .. Len(tensors)
      BY <1>2 DEF bad
    <2>2. ASSUME NEW j \in 1 .. i - 1 PROVE tensors[j].name # n
      <3>1. j \in 1 .. Len(tensors) /\ ~(i <= j)
        BY <2>1
      <3>2. j \notin bad
        BY <1>2, <3>1
      <3> QED
        BY <3>1, <3>2 DEF bad
    <2> QED
      BY <2>1, <2>2 DEF FindsAt
  <1> QED
    BY <1>3

-----------------------------------------------------------------------------
(* Shapes.                                                                 *)

\* p has the product of the first dimensions.
Multiplies(p, shape) ==
    /\ p \in [0 .. Len(shape) -> Int] /\ p[0] = 1 /\ p[Len(shape)] = Product(shape)
    /\ \A i \in 1 .. Len(shape) : p[i] = p[i - 1] * shape[i]

\* There are partial products.
LEMMA MultipliesExist ==
    ASSUME NEW shape \in Seq(Int)
    PROVE  \E p : Multiplies(p, shape)
  BY ProductTurns DEF Multiplies

\* The first dimension can be taken out of the product.
LEMMA ProductHead ==
    ASSUME NEW shape \in Seq(Int), shape # <<>>
    PROVE  Product(shape) = shape[1] * Product(Tail(shape)) /\ Product(Tail(shape)) \in Int
  <1> DEFINE n == Len(shape)
             tail == Tail(shape)
  <1>1. /\ n \in Nat /\ n >= 1 /\ tail \in Seq(Int) /\ Len(tail) = n - 1 /\ shape[1] \in Int
        /\ \A i \in 1 .. n - 1 : tail[i] = shape[i + 1] /\ tail[i] \in Int
    OBVIOUS
  <1> HIDE DEF tail, n
  <1>2. PICK p : Multiplies(p, shape)
    BY MultipliesExist
  <1>3. PICK q : Multiplies(q, tail)
    BY <1>1, MultipliesExist
  <1>4. p \in [0 .. n -> Int] /\ p[0] = 1 /\ p[n] = Product(shape) /\ \A i \in 1 .. n : p[i] = p[i - 1] * shape[i]
    BY <1>2 DEF Multiplies, n
  <1>5. /\ q \in [0 .. n - 1 -> Int] /\ q[0] = 1 /\ q[n - 1] = Product(tail)
        /\ \A i \in 1 .. n - 1 : q[i] = q[i - 1] * tail[i]
    BY <1>1, <1>3 DEF Multiplies
  <1> DEFINE good == {i \in 0 .. n - 1 : p[i + 1] = shape[1] * q[i]}
  <1>6. 0 \in good
    <2>1. p[1] = p[1 - 1] * shape[1] /\ 1 - 1 = 0 /\ 0 + 1 = 1
      BY <1>1, <1>4
    <2>2. p[0 + 1] = shape[1] * q[0]
      BY <1>1, <1>4, <1>5, <2>1
    <2> QED
      BY <1>1, <2>2
  <1>7. ASSUME NEW i \in 1 .. n - 1, i - 1 \in good PROVE i \in good
    <2>1. i - 1 \in 0 .. n - 1 /\ i \in 0 .. n - 1 /\ i + 1 \in 1 .. n /\ (i + 1) - 1 = i /\ (i - 1) + 1 = i
      BY <1>1
    <2>2. p[i] = shape[1] * q[i - 1]
      <3>1. p[(i - 1) + 1] = shape[1] * q[i - 1]
        BY <1>7
      <3> QED
        BY <2>1, <3>1
    <2>3. p[i + 1] = p[i] * tail[i]
      <3>1. p[i + 1] = p[(i + 1) - 1] * shape[i + 1]
        BY <1>4, <2>1
      <3> QED
        BY <1>1, <2>1, <3>1
    <2>4. q[i] = q[i - 1] * tail[i] /\ q[i - 1] \in Int /\ tail[i] \in Int
      BY <1>1, <1>5, <2>1
    <2> HIDE DEF good
    <2>5. p[i + 1] = shape[1] * q[i]
      <3> DEFINE x == shape[1]
                 y == q[i - 1]
                 z == tail[i]
      <3>1. x \in Int /\ y \in Int /\ z \in Int
        BY <1>1, <2>4
      <3>2. p[i + 1] = (x * y) * z /\ q[i] = y * z
        BY <2>2, <2>3, <2>4
      <3> HIDE DEF x, y, z
      <3>3. p[i + 1] = x * q[i]
        BY <3>1, <3>2, Associates
      <3> QED
        BY <3>3 DEF x
    <2> QED
      BY <2>1, <2>5 DEF good
  <1>8. n - 1 \in good
    <2> DEFINE m == n - 1
    <2>1. m \in Nat
      BY <1>1
    <2>2. \A i \in 1 .. m : i - 1 \in good => i \in good
      BY <1>7
    <2> HIDE DEF good, m
    <2>3. \A i \in 0 .. m : i \in good
      BY <1>6, <2>1, <2>2, UpTo
    <2>4. m \in 0 .. m
      BY <2>1
    <2> QED
      BY <2>3, <2>4 DEF m
  <1>9. p[n] = shape[1] * q[n - 1] /\ q[n - 1] \in Int
    <2>1. (n - 1) + 1 = n
      BY <1>1
    <2> QED
      BY <1>1, <1>5, <1>8, <2>1
  <1> QED
    BY <1>4, <1>5, <1>9 DEF tail

\* The product of one dimension.
LEMMA OneDimension ==
    ASSUME NEW d \in Int
    PROVE  Product(<<d>>) = d
  <1> DEFINE shape == <<d>>
  <1>1. shape \in Seq(Int) /\ Len(shape) = 1 /\ shape[1] = d
    OBVIOUS
  <1> HIDE DEF shape
  <1>2. PICK p : Multiplies(p, shape)
    BY <1>1, MultipliesExist
  <1>3. p[1] = p[1 - 1] * shape[1] /\ p[0] = 1 /\ p[1] = Product(shape)
    BY <1>1, <1>2 DEF Multiplies
  <1>4. Product(shape) = d
    BY <1>1, <1>3
  <1> QED
    BY <1>4 DEF shape

\* What fits a size_t is not changed by its width.
LEMMA Unwrapped ==
    ASSUME NEW x \in Nat, x <= SizeMax
    PROVE  x % (SizeMax + 1) = x
  <1>1. SizeMax \in Nat
    BY PathAssumption
  <1> QED
    BY <1>1

\* And whatever is computed in one fits it.
LEMMA Wrapped ==
    ASSUME NEW x \in Int
    PROVE  x % (SizeMax + 1) \in Nat /\ x % (SizeMax + 1) <= SizeMax
  <1> DEFINE m == SizeMax + 1
  <1>1. m \in Nat /\ m > 0 /\ m - 1 = SizeMax
    BY PathAssumption
  <1> HIDE DEF m
  <1>2. x % m \in 0 .. (m - 1)
    BY <1>1
  <1> QED
    BY <1>1, <1>2 DEF m

\* p has the product of the first dimensions; nothing is lost up to i.
LEMMA CountIsProduct ==
    ASSUME NEW shape \in Seq(Int), ElementCount(shape).ok
    PROVE  /\ ElementCount(shape).count = Product(shape) /\ Product(shape) \in Nat
           /\ Product(shape) <= SizeMax /\ \A i \in DOMAIN shape : shape[i] >= 0
  <1> DEFINE n == Len(shape)
  <1>1. PICK e \in [0 .. n -> [ok : BOOLEAN, count : Nat]] :
             /\ e[0] = [ok |-> TRUE, count |-> 1] /\ e[n] = ElementCount(shape)
             /\ \A i \in 1 .. n : e[i] = Dimension(e[i - 1], shape[i])
    BY ElementCountTurns
  <1>2. PICK p : Multiplies(p, shape)
    BY MultipliesExist
  <1>3. p \in [0 .. n -> Int] /\ p[0] = 1 /\ p[n] = Product(shape) /\ \A i \in 1 .. n : p[i] = p[i - 1] * shape[i]
    BY <1>2 DEF Multiplies
  <1>4. n \in Nat /\ \A i \in 1 .. n : shape[i] \in Int
    OBVIOUS
  <1> DEFINE good == {i \in 0 .. n : e[i].ok => /\ e[i].count = p[i] /\ p[i] \in Nat /\ p[i] <= SizeMax
                                                /\ \A j \in 1 .. i : shape[j] >= 0}
  <1> HIDE DEF n
  <1>5. 0 \in good
    BY <1>1, <1>3, <1>4, PathAssumption
  <1>6. ASSUME NEW i \in 1 .. n, i - 1 \in good PROVE i \in good
    <2>1. SUFFICES ASSUME e[i].ok
                   PROVE  /\ e[i].count = p[i] /\ p[i] \in Nat /\ p[i] <= SizeMax
                          /\ \A j \in 1 .. i : shape[j] >= 0
      BY <1>4
    <2> DEFINE d == shape[i]
               x == e[i - 1].count
    <2>2. /\ i - 1 \in 0 .. n /\ e[i - 1] \in [ok : BOOLEAN, count : Nat] /\ d \in Int /\ x \in Nat
          /\ e[i] = Dimension(e[i - 1], d) /\ p[i] = p[i - 1] * d
      BY <1>1, <1>3, <1>4
    <2>3. /\ e[i - 1].ok /\ d >= 0 /\ (d # 0 => x <= SizeMax \div d) /\ e[i].count = x * d
      BY <2>1, <2>2, PathAssumption DEF Dimension
    <2>4. x = p[i - 1] /\ \A j \in 1 .. i - 1 : shape[j] >= 0
      BY <1>6, <2>3
    <2> HIDE DEF good, x, d
    <2>5. SizeMax \in Nat
      BY PathAssumption
    <2>6. e[i].count = p[i] /\ p[i] = x * d
      BY <2>2, <2>3, <2>4
    <2>7. x * d \in Nat /\ x * d <= SizeMax
      <3>1. CASE d = 0
        BY <2>2, <2>5, <3>1
      <3>2. CASE d # 0
        <4>1. d \in Nat /\ d > 0 /\ x <= SizeMax \div d
          BY <2>2, <2>3, <3>2
        <4>2. x * d <= SizeMax
          BY <2>2, <2>5, <4>1, UnderQuotient
        <4> QED
          BY <2>2, <4>1, <4>2, ProductPositive
      <3> QED
        BY <3>1, <3>2
    <2>8. \A j \in 1 .. i : shape[j] >= 0
      BY <2>2, <2>3, <2>4 DEF d
    <2> QED
      BY <2>6, <2>7, <2>8
  <1>7. n \in good
    <2> HIDE DEF good
    <2>1. \A i \in 0 .. n : i \in good
      BY <1>4, <1>5, <1>6, UpTo
    <2>2. n \in 0 .. n
      BY <1>4
    <2> QED
      BY <2>1, <2>2
  <1>8. DOMAIN shape = 1 .. n
    BY DEF n
  <1> QED
    BY <1>1, <1>3, <1>7, <1>8

\* What is counted as a whole is the batch size times what is counted of a slice, which
\* has then not wrapped around, or counts for nothing.
LEMMA SliceExact ==
    ASSUME NEW shape \in Seq(Int), shape # <<>>, ElementCount(shape).ok
    PROVE  /\ shape[1] \in Nat /\ SliceElementCount(shape) \in Nat
           /\ ElementCount(shape).count = shape[1] * SliceElementCount(shape)
  <1> DEFINE b == shape[1]
             t == Product(Tail(shape))
             s == SliceElementCount(shape)
  <1>1. b \in Nat /\ t \in Int
    <2>1. 1 \in DOMAIN shape /\ shape[1] \in Int
      OBVIOUS
    <2> QED
      BY <2>1, CountIsProduct, ProductHead
  <1>2. s = t % (SizeMax + 1)
    BY DEF SliceElementCount, ShapeElementCount, Product
  <1>3. s \in Nat
    <2> HIDE DEF s, t
    <2> QED
      BY <1>1, <1>2, Wrapped
  <1>4. ElementCount(shape).count = b * t /\ b * t \in Nat /\ b * t <= SizeMax
    BY CountIsProduct, ProductHead
  <1> HIDE DEF b, t, s
  <1>5. b * t = b * s
    <2>1. CASE b = 0
      BY <1>1, <1>3, <2>1
    <2>2. CASE b # 0
      <3>1. t >= 0
        BY <1>1, <1>4, <2>2
      <3>2. t <= b * t
        <4>1. 1 * t <= b * t /\ 1 * t = t
          BY <1>1, <2>2, <3>1, Monotone
        <4> QED
          BY <4>1
      <3>3. t \in Nat /\ t <= SizeMax
        <4> DEFINE bt == b * t
        <4>1. bt \in Nat /\ bt <= SizeMax /\ t <= bt
          BY <1>4, <3>2
        <4>2. SizeMax \in Nat
          BY PathAssumption
        <4> HIDE DEF bt
        <4> QED
          BY <1>1, <3>1, <4>1, <4>2
      <3> QED
        BY <1>2, <3>3, Unwrapped
    <2> QED
      BY <2>1, <2>2
  <1> QED
    BY <1>1, <1>3, <1>4, <1>5 DEF b, s

-----------------------------------------------------------------------------
(* Sums of batch sizes, and where the members of a batch begin.            *)

\* p has the sums of the first sizes.
Adds(p, sizes) ==
    /\ p \in [0 .. Len(sizes) -> Nat] /\ p[0] = 0 /\ p[Len(sizes)] = Sum(sizes)
    /\ \A i \in 1 .. Len(sizes) : p[i] = p[i - 1] + sizes[i]

\* There are partial sums.
LEMMA AddsExist ==
    ASSUME NEW sizes \in Seq(Nat)
    PROVE  \E p : Adds(p, sizes)
  <1> DEFINE n == Len(sizes)
  <1>1. sizes \in Seq(Int)
    OBVIOUS
  <1>2. PICK p \in [0 .. Len(sizes) -> Int] :
             /\ p[0] = 0 /\ p[Len(sizes)] = Sum(sizes)
             /\ \A i \in 1 .. Len(sizes) : p[i] = p[i - 1] + sizes[i]
    BY <1>1, SumTurns
  <1>3. n \in Nat /\ \A i \in 1 .. n : sizes[i] \in Nat
    OBVIOUS
  <1> DEFINE good == {i \in 0 .. n : p[i] \in Nat}
  <1>4. 0 \in good
    BY <1>2, <1>3
  <1>5. ASSUME NEW i \in 1 .. n, i - 1 \in good PROVE i \in good
    <2>1. p[i - 1] \in Nat /\ sizes[i] \in Nat /\ p[i] = p[i - 1] + sizes[i]
      BY <1>2, <1>3, <1>5
    <2>2. p[i] \in Nat /\ i \in 0 .. n
      BY <1>3, <2>1
    <2> QED
      BY <2>2
  <1>6. \A i \in 0 .. n : i \in good
    <2> HIDE DEF good, n
    <2> QED
      BY <1>3, <1>4, <1>5, UpTo
  <1>7. p \in [0 .. n -> Nat]
    <2> HIDE DEF n
    <2>1. p \in [0 .. n -> Int]
      BY <1>2 DEF n
    <2> QED
      BY <1>6, <2>1
  <1> QED
    BY <1>2, <1>7 DEF Adds

\* The sum is the only function that grows by the sizes.
AddsUp(h, sizes) == h[0] = 0 /\ \A i \in 1 .. Len(sizes) : h[i] = h[i - 1] + sizes[i]

\* Whatever adds up by the sizes ends in their sum.
LEMMA SumUnique ==
    ASSUME NEW sizes \in Seq(Nat), NEW h, AddsUp(h, sizes)
    PROVE  Sum(sizes) = h[Len(sizes)]
  <1> DEFINE n == Len(sizes)
  <1>1. PICK p : Adds(p, sizes)
    BY AddsExist
  <1>2. p[0] = 0 /\ p[n] = Sum(sizes) /\ \A i \in 1 .. n : p[i] = p[i - 1] + sizes[i]
    BY <1>1 DEF Adds
  <1>3. n \in Nat /\ h[0] = 0 /\ \A i \in 1 .. n : h[i] = h[i - 1] + sizes[i]
    BY DEF AddsUp
  <1> DEFINE good == {i \in 0 .. n : p[i] = h[i]}
  <1> HIDE DEF n
  <1>4. 0 \in good
    BY <1>2, <1>3
  <1>5. ASSUME NEW i \in 1 .. n, i - 1 \in good PROVE i \in good
    <2>1. p[i - 1] = h[i - 1] /\ i \in 0 .. n
      BY <1>3, <1>5
    <2>2. p[i] = h[i]
      BY <1>2, <1>3, <2>1
    <2> QED
      BY <2>1, <2>2
  <1>6. n \in good
    <2> HIDE DEF good
    <2>1. \A i \in 0 .. n : i \in good
      BY <1>3, <1>4, <1>5, UpTo
    <2>2. n \in 0 .. n
      BY <1>3
    <2> QED
      BY <2>1, <2>2
  <1> QED
    BY <1>2, <1>6 DEF n

\* Sums never decrease.
LEMMA AddsMonotone ==
    ASSUME NEW sizes \in Seq(Nat), NEW p, Adds(p, sizes)
    PROVE  \A i \in 0 .. Len(sizes) : p[i] <= p[Len(sizes)] /\ p[i] \in Nat
  <1> DEFINE n == Len(sizes)
             good == {i \in 0 .. n : \A j \in 0 .. i : p[j] <= p[i]}
  <1>1. /\ n \in Nat /\ \A i \in 0 .. n : p[i] \in Nat
        /\ \A i \in 1 .. n : p[i] = p[i - 1] + sizes[i] /\ sizes[i] \in Nat
    <2>1. n \in Nat /\ p \in [0 .. n -> Nat]
      BY DEF Adds
    <2>2. \A i \in 1 .. n : p[i] = p[i - 1] + sizes[i] /\ sizes[i] \in Nat
      BY DEF Adds
    <2> QED
      BY <2>1, <2>2
  <1> HIDE DEF n
  <1>2. 0 \in good
    <2>1. \A j \in 0 .. 0 : j = 0 /\ 0 \in 0 .. n
      BY <1>1
    <2> QED
      BY <1>1, <2>1
  <1>3. ASSUME NEW i \in 1 .. n, i - 1 \in good PROVE i \in good
    <2>1. i \in 0 .. n /\ i - 1 \in 0 .. n
      BY <1>1
    <2>2. p[i] = p[i - 1] + sizes[i] /\ sizes[i] \in Nat /\ p[i - 1] \in Nat /\ p[i] \in Nat
      BY <1>1, <2>1
    <2>3. ASSUME NEW j \in 0 .. i PROVE p[j] <= p[i]
      <3>1. CASE j = i
        BY <2>2, <3>1
      <3>2. CASE j # i
        <4>1. j \in 0 .. i - 1 /\ j \in 0 .. n
          BY <2>1, <3>2, <1>1
        <4>2. p[j] <= p[i - 1] /\ p[j] \in Nat
          BY <1>1, <1>3, <4>1
        <4> QED
          BY <2>2, <4>2
      <3> QED
        BY <3>1, <3>2
    <2> QED
      BY <2>1, <2>3
  <1>4. n \in good
    <2> HIDE DEF good
    <2>1. \A i \in 0 .. n : i \in good
      BY <1>1, <1>2, <1>3, UpTo
    <2>2. n \in 0 .. n
      BY <1>1
    <2> QED
      BY <2>1, <2>2
  <1> QED
    BY <1>1, <1>4 DEF n

\* Where a member begins: behind the rows of the members before it.
LEMMA OffsetIsPrefixSum ==
    ASSUME NEW sizes \in Seq(Nat), NEW p, Adds(p, sizes), NEW j \in 1 .. Len(sizes)
    PROVE  BatchOffset(sizes, j) = p[j - 1]
  <1> DEFINE front == SubSeq(sizes, 1, j - 1)
             n == Len(sizes)
             m == j - 1
  <1>1. n \in Nat /\ m \in Nat /\ m <= n /\ \A i \in 1 .. m : i \in 1 .. n
    OBVIOUS
  <1>2. front \in Seq(Nat) /\ Len(front) = m /\ \A i \in 1 .. m : front[i] = sizes[i]
    OBVIOUS
  <1>3. p[0] = 0 /\ \A i \in 1 .. n : p[i] = p[i - 1] + sizes[i]
    BY DEF Adds
  <1> HIDE DEF front, m, n
  <1>4. AddsUp(p, front)
    <2>1. \A i \in 1 .. Len(front) : p[i] = p[i - 1] + front[i]
      BY <1>1, <1>2, <1>3
    <2> QED
      BY <1>3, <2>1 DEF AddsUp
  <1>5. Sum(front) = p[Len(front)]
    BY <1>2, <1>4, SumUnique
  <1>6. Sum(front) = p[m]
    BY <1>2, <1>5
  <1>7. BatchOffset(sizes, j) = Sum(front)
    BY Zenon DEF BatchOffset, front
  <1> QED
    BY <1>6, <1>7 DEF m

\* Parts as long as the rows they hold begin where their rows begin.
Scaled(f, sizes, w) ==
    /\ sizes \in Seq(Nat) /\ w \in Nat /\ Len(sizes) = Len(f)
    /\ \A i \in 1 .. Len(f) : Len(f[i]) = sizes[i] * w

\* If every part has w times the size, so have the offsets.
LEMMA ScaledOffsets ==
    ASSUME NEW D, NEW f \in Seq(Seq(D)), NEW o, PartsAt(o, D, f),
           NEW sizes, NEW w, Scaled(f, sizes, w), NEW p, Adds(p, sizes)
    PROVE  \A i \in 0 .. Len(f) : o[i] = p[i] * w
  <1> USE DEF Scaled
  <1> DEFINE n == Len(f)
             h == [i \in 0 .. n |-> p[i] * w]
  <1>1. /\ n \in Nat /\ p[0] = 0 /\ \A i \in 0 .. n : p[i] \in Nat
        /\ \A i \in 1 .. n : p[i] = p[i - 1] + sizes[i] /\ sizes[i] \in Nat
    <2>1. n \in Nat /\ n = Len(sizes) /\ p \in [0 .. n -> Nat] /\ p[0] = 0
      BY DEF Adds
    <2>2. \A i \in 1 .. n : p[i] = p[i - 1] + sizes[i] /\ sizes[i] \in Nat
      <3>1. \A i \in 1 .. n : p[i] = p[i - 1] + sizes[i]
        BY <2>1 DEF Adds
      <3>2. \A i \in 1 .. n : sizes[i] \in Nat
        BY <2>1
      <3> QED
        BY <3>1, <3>2
    <2> QED
      BY <2>1, <2>2
  <1>2. h[0] = 0
    BY <1>1
  <1>3. ASSUME NEW i \in 1 .. n PROVE h[i] = h[i - 1] + Len(f[i])
    <2>1. i \in 0 .. n /\ i - 1 \in 0 .. n
      BY <1>1
    <2>2. h[i] = p[i] * w /\ h[i - 1] = p[i - 1] * w /\ Len(f[i]) = sizes[i] * w
      BY <2>1
    <2> HIDE DEF h, n
    <2>3. p[i] = p[i - 1] + sizes[i] /\ p[i - 1] \in Int /\ sizes[i] \in Int
      BY <1>1, <2>1
    <2>4. (p[i - 1] + sizes[i]) * w = p[i - 1] * w + sizes[i] * w
      <3> DEFINE x == p[i - 1]
                 y == sizes[i]
      <3>1. x \in Int /\ y \in Int
        BY <2>3
      <3> HIDE DEF x, y
      <3>2. (x + y) * w = x * w + y * w
        BY <3>1, Distributes
      <3> QED
        BY <3>2 DEF x, y
    <2> QED
      BY <2>2, <2>3, <2>4
  <1>4. Grows(h, f)
    <2> HIDE DEF h
    <2> QED
      BY <1>2, <1>3 DEF Grows
  <1>5. \A i \in 0 .. n : o[i] = h[i]
    <2> HIDE DEF h
    <2> QED
      BY <1>4, OffsetsUnique
  <1> QED
    BY <1>5

\* Parts of the same length.
Uniform(f, w) == w \in Nat /\ \A i \in 1 .. Len(f) : Len(f[i]) = w

\* If all parts have one length, the offsets are its multiples.
LEMMA UniformOffsets ==
    ASSUME NEW D, NEW f \in Seq(Seq(D)), NEW o, PartsAt(o, D, f), NEW w, Uniform(f, w)
    PROVE  \A i \in 0 .. Len(f) : o[i] = i * w
  <1> USE DEF Uniform
  <1> DEFINE n == Len(f)
             h == [i \in 0 .. n |-> i * w]
  <1>1. n \in Nat
    OBVIOUS
  <1>2. h[0] = 0
    BY <1>1
  <1>3. ASSUME NEW i \in 1 .. n PROVE h[i] = h[i - 1] + Len(f[i])
    <2>1. i \in 0 .. n /\ i - 1 \in 0 .. n
      BY <1>1
    <2>2. h[i] = i * w /\ h[i - 1] = (i - 1) * w /\ Len(f[i]) = w
      BY <2>1
    <2> HIDE DEF h, n
    <2>3. (i - 1) * w = i * w - 1 * w /\ i * w \in Int
      BY <2>1, Distributes
    <2> QED
      BY <2>2, <2>3
  <1>4. Grows(h, f)
    <2> HIDE DEF h
    <2> QED
      BY <1>2, <1>3 DEF Grows
  <1>5. \A i \in 0 .. n : o[i] = h[i]
    <2> HIDE DEF h
    <2> QED
      BY <1>4, OffsetsUnique
  <1> QED
    BY <1>5

-----------------------------------------------------------------------------
(* Rows.                                                                   *)

\* What a row consists of: the tensor of an input, the bytes and elements it has for one row, and the pieces of row i.
TensorFor(r, k) == Find(r.inputs, Inputs[k].name)
SliceBytes(r, k) == SliceElementCount(TensorFor(r, k).shape) * ElementSize
Counts(r) == [k \in DOMAIN Inputs |-> SliceElementCount(TensorFor(r, k).shape)]
Piece(r, k, i) ==
    SubSeq(TensorFor(r, k).bytes, (i - 1) * SliceBytes(r, k) + 1, i * SliceBytes(r, k))

Pieces(r, i) == [k \in DOMAIN Inputs |-> Piece(r, k, i)]

\* Every input of r has n slices.
RowsFit(r, n, D) ==
    \A k \in DOMAIN Inputs :
       /\ TensorFor(r, k).bytes \in Seq(D) /\ SliceElementCount(TensorFor(r, k).shape) \in Nat
       /\ Len(TensorFor(r, k).bytes) = n * SliceBytes(r, k)

\* A row is flattened from its pieces, and its width is the sum of theirs.
LEMMA RowIs ==
    ASSUME NEW r, NEW i
    PROVE  /\ Row(r, i) = FlattenSeq(Pieces(r, i))
           /\ Width(r) = Sum(Counts(r))
  BY Zenon DEF Row, Pieces, Piece, SliceBytes, TensorFor, Width, Counts

\* A slice within a sequence of them.
IsSlice(t, s, w, i, D) ==
    /\ t = [x \in 1 .. w |-> s[(i - 1) * w + x]] /\ t \in Seq(D) /\ Len(t) = w
    /\ \A x \in 1 .. w : (i - 1) * w + x \in 1 .. Len(s)

\* What SubSeq cuts out of a tensor.
LEMMA SliceOf ==
    ASSUME NEW D, NEW s \in Seq(D), NEW n \in Nat, NEW w \in Nat, Len(s) = n * w, NEW i \in 1 .. n
    PROVE  IsSlice(SubSeq(s, (i - 1) * w + 1, i * w), s, w, i, D)
  <1> DEFINE start == (i - 1) * w
             end == i * w
  <1>1. start \in Nat /\ end = start + w /\ end <= Len(s) /\ Len(s) \in Nat
    <2>1. i \in Nat /\ i - 1 \in Nat /\ i <= n
      OBVIOUS
    <2>2. start \in Nat
      BY <2>1, Monotone
    <2>3. ((i - 1) + 1) * w = (i - 1) * w + 1 * w
      BY <2>1, Distributes
    <2>4. (i - 1) + 1 = i /\ 1 * w = w
      BY <2>1
    <2>5. i * w <= n * w
      BY <2>1, Monotone
    <2> QED
      BY <2>2, <2>3, <2>4, <2>5
  <1> HIDE DEF start, end
  <1>2. \A x \in 1 .. w : start + x \in 1 .. Len(s)
    BY <1>1
  <1>3. \A x \in 1 .. w : s[start + x] \in D
    BY <1>2
  <1>4. /\ SubSeq(s, start + 1, start + w) = [x \in 1 .. w |-> s[start + x]]
        /\ SubSeq(s, start + 1, start + w) \in Seq(D)
    BY <1>1, <1>3, Slice
  <1>5. Len(SubSeq(s, start + 1, start + w)) = w
    BY <1>4
  <1> QED
    BY <1>1, <1>2, <1>4, <1>5 DEF start, end, IsSlice

\* The lengths of the pieces of a row.
LEMMA CountsFacts ==
    ASSUME NEW D, NEW r, NEW n, RowsFit(r, n, D)
    PROVE  /\ Counts(r) \in Seq(Nat) /\ Len(Counts(r)) = Len(Inputs) /\ DOMAIN Inputs = 1 .. Len(Inputs)
           /\ \A k \in DOMAIN Inputs : Counts(r)[k] \in Nat /\ SliceBytes(r, k) = Counts(r)[k] * ElementSize
                                       /\ SliceBytes(r, k) \in Nat
           /\ Len(Inputs) \in Nat
  <1>1. DOMAIN Inputs = 1 .. Len(Inputs) /\ Len(Inputs) \in Nat
    BY PathAssumption
  <1>2. \A k \in DOMAIN Inputs : Counts(r)[k] = SliceElementCount(TensorFor(r, k).shape) /\ Counts(r)[k] \in Nat
    BY DEF Counts, RowsFit
  <1>3. Counts(r) = [k \in 1 .. Len(Inputs) |-> Counts(r)[k]]
    BY <1>1 DEF Counts
  <1>4. Counts(r) \in Seq(Nat) /\ Len(Counts(r)) = Len(Inputs)
    BY <1>1, <1>2, <1>3
  <1>5. ASSUME NEW k \in DOMAIN Inputs
        PROVE  SliceBytes(r, k) = Counts(r)[k] * ElementSize /\ SliceBytes(r, k) \in Nat
    <2>1. SliceBytes(r, k) = Counts(r)[k] * ElementSize
      BY <1>2 DEF SliceBytes
    <2> DEFINE x == Counts(r)[k]
    <2>2. x \in Nat /\ ElementSize \in Nat
      BY <1>2, PathAssumption
    <2> HIDE DEF x
    <2>3. x * ElementSize \in Nat
      BY <2>2, ProductPositive
    <2> QED
      BY <2>1, <2>3 DEF x
  <1> QED
    BY <1>1, <1>2, <1>4, <1>5

\* Every row is as long as the sum of the slices.
LEMMA RowLength ==
    ASSUME NEW D, NEW r, NEW n \in Nat, RowsFit(r, n, D), NEW i \in 1 .. n
    PROVE  Row(r, i) \in Seq(D) /\ Len(Row(r, i)) = Width(r) * ElementSize /\ Width(r) \in Nat
  <1> DEFINE m == Len(Inputs)
             f == Pieces(r, i)
             sizes == Counts(r)
  <1>1. /\ m \in Nat /\ DOMAIN Inputs = 1 .. m /\ sizes \in Seq(Nat) /\ Len(sizes) = m
        /\ \A k \in 1 .. m : SliceBytes(r, k) = sizes[k] * ElementSize /\ SliceBytes(r, k) \in Nat
    BY CountsFacts
  <1>2. \A k \in 1 .. m : Piece(r, k, i) \in Seq(D) /\ Len(Piece(r, k, i)) = sizes[k] * ElementSize
    <2> SUFFICES ASSUME NEW k \in 1 .. m
                 PROVE  Piece(r, k, i) \in Seq(D) /\ Len(Piece(r, k, i)) = sizes[k] * ElementSize
      OBVIOUS
    <2> DEFINE s == TensorFor(r, k).bytes
               w == SliceBytes(r, k)
    <2>1. s \in Seq(D) /\ w \in Nat /\ Len(s) = n * w
      BY <1>1 DEF RowsFit
    <2>2. w = sizes[k] * ElementSize
      BY <1>1
    <2> HIDE DEF s, w
    <2>3. SubSeq(s, (i - 1) * w + 1, i * w) \in Seq(D) /\ Len(SubSeq(s, (i - 1) * w + 1, i * w)) = w
      BY <2>1, SliceOf DEF IsSlice
    <2>4. Piece(r, k, i) = SubSeq(s, (i - 1) * w + 1, i * w)
      BY Zenon DEF Piece, s, w
    <2> QED
      BY <2>2, <2>3, <2>4
  <1>3. f \in Seq(Seq(D)) /\ Len(f) = m /\ \A k \in 1 .. m : Len(f[k]) = sizes[k] * ElementSize
    <2>1. f = [k \in 1 .. m |-> Piece(r, k, i)]
      BY <1>1 DEF Pieces
    <2> HIDE DEF f, m, sizes
    <2>2. \A k \in 1 .. m : f[k] = Piece(r, k, i)
      BY <2>1
    <2>3. f \in Seq(Seq(D)) /\ Len(f) = m
      BY <1>1, <1>2, <2>1
    <2> QED
      BY <1>2, <2>2, <2>3
  <1>4. ElementSize \in Nat
    BY PathAssumption
  <1> HIDE DEF f, m, sizes
  <1>5. PICK o : PartsAt(o, D, f)
    BY <1>3, FlattenParts
  <1>6. PICK p : Adds(p, sizes)
    BY <1>1, AddsExist
  <1>7. \A k \in 0 .. Len(f) : o[k] = p[k] * ElementSize
    <2>1. \A k \in 1 .. Len(f) : Len(f[k]) = sizes[k] * ElementSize
      BY <1>3
    <2>2. Scaled(f, sizes, ElementSize)
      BY <1>1, <1>3, <1>4, <2>1 DEF Scaled
    <2>3. f \in Seq(Seq(D))
      BY <1>3
    <2> QED
      BY <1>5, <1>6, <2>2, <2>3, ScaledOffsets
  <1>8. FlattenSeq(f) \in Seq(D) /\ Len(FlattenSeq(f)) = o[m]
    BY <1>3, <1>5 DEF PartsAt
  <1>9. p[m] = Sum(sizes) /\ p[m] \in Nat
    BY <1>1, <1>6 DEF Adds
  <1>10. o[m] = Sum(sizes) * ElementSize
    <2>1. m \in 0 .. Len(f)
      BY <1>1, <1>3
    <2> QED
      BY <1>7, <1>9, <2>1
  <1> QED
    BY <1>8, <1>9, <1>10, RowIs DEF f, sizes

\* The rows of a request, and any of them that follow each other.
IsRows(s, r, a, m) == s = FlattenSeq([i \in 1 .. m |-> Row(r, a + i)])

\* Cutting whole rows out of all of them.
LEMMA RowsSlice ==
    ASSUME NEW D, NEW r, NEW n, RowsFit(r, n, D), n = RequestBatchSize(r),
           NEW a, NEW m, Within(a, m, n), Width(r) \in Nat
    PROVE  LET w == Width(r) * ElementSize
           IN /\ IsRows(SubSeq(Rows(r), a * w + 1, (a + m) * w), r, a, m)
              /\ Len(Rows(r)) = n * w
  <1> DEFINE w == Width(r) * ElementSize
             f == [i \in 1 .. n |-> Row(r, i)]
  <1>0. n \in Nat /\ a \in Nat /\ m \in Nat /\ a + m <= n
    BY DEF Within
  <1>1. w \in Nat
    BY PathAssumption, ProductPositive
  <1>2. f \in Seq(Seq(D)) /\ Len(f) = n /\ \A i \in 1 .. n : f[i] = Row(r, i) /\ Len(f[i]) = w
    <2>1. \A i \in 1 .. n : Row(r, i) \in Seq(D) /\ Len(Row(r, i)) = w
      BY <1>0, RowLength
    <2> HIDE DEF w
    <2> QED
      BY <1>0, <2>1
  <1>3. Rows(r) = FlattenSeq(f)
    BY DEF Rows
  <1> HIDE DEF w, f
  <1>4. PICK o : PartsAt(o, D, f)
    BY <1>2, FlattenParts
  <1>5. \A i \in 0 .. n : o[i] = i * w
    <2>1. Uniform(f, w)
      BY <1>1, <1>2 DEF Uniform
    <2>3. f \in Seq(Seq(D))
      BY <1>2
    <2>2. \A i \in 0 .. Len(f) : o[i] = i * w
      BY <1>4, <2>1, <2>3, UniformOffsets
    <2> QED
      BY <1>2, <2>2
  <1>6. o[a] = a * w /\ o[a + m] = (a + m) * w /\ o[n] = n * w
    <2>1. a \in 0 .. n /\ a + m \in 0 .. n /\ n \in 0 .. n
      BY <1>0
    <2> QED
      BY <1>5, <2>1
  <1>7. SubSeq(FlattenSeq(f), o[a] + 1, o[a + m]) = FlattenSeq([i \in 1 .. m |-> f[a + i]])
    <2>1. Within(a, m, Len(f))
      BY <1>0, <1>2 DEF Within
    <2>2. f \in Seq(Seq(D))
      BY <1>2
    <2>3. SliceFlattens(f, o, a, m)
      BY <1>4, <2>1, <2>2, FlattenSlice
    <2> QED
      BY <2>3 DEF SliceFlattens
  <1>8. [i \in 1 .. m |-> f[a + i]] = [i \in 1 .. m |-> Row(r, a + i)]
    <2>1. \A i \in 1 .. m : a + i \in 1 .. n
      BY <1>0
    <2> QED
      BY <1>2, <2>1
  <1>9. Len(FlattenSeq(f)) = n * w
    BY <1>0, <1>2, <1>4, <1>6 DEF PartsAt
  <1>10. SubSeq(Rows(r), a * w + 1, (a + m) * w) = FlattenSeq([i \in 1 .. m |-> Row(r, a + i)])
    <2>1. SubSeq(Rows(r), a * w + 1, (a + m) * w) = SubSeq(FlattenSeq(f), o[a] + 1, o[a + m])
      BY <1>3, <1>6
    <2> QED
      BY <1>7, <1>8, <2>1
  <1>11. Len(Rows(r)) = n * w
    BY <1>3, <1>9
  <1> QED
    BY <1>10, <1>11 DEF w, IsRows

-----------------------------------------------------------------------------
(* Merged requests.                                                        *)

\* A tensor of bytes of D, and a request of such tensors.
TypedTensor(t, D) ==
    /\ t = [name |-> t.name, datatype |-> t.datatype, shape |-> t.shape, bytes |-> t.bytes]
    /\ t.shape \in Seq(Int) /\ t.bytes \in Seq(D)

Typed(r, D) ==
    /\ r = [ok |-> r.ok, inputs |-> r.inputs, outputs |-> r.outputs]
    /\ r.inputs \in Seq(ToSet(r.inputs))
    /\ \A i \in DOMAIN r.inputs : TypedTensor(r.inputs[i], D)

\* Everybody in a batch is compatible with its first member.
Compatible(batch) ==
    \A i \in DOMAIN batch : i # 1 => AreBatchCompatible(execution[batch[1]], execution[batch[i]])

\* A batch of several exact requests that fit each other and the model.
Mergeable(batch, D) ==
    /\ batch \in Seq(Clients) /\ Len(batch) > 1 /\ Inputs # <<>>
    /\ \A i \in DOMAIN batch : Typed(execution[batch[i]], D) /\ Exact(execution[batch[i]])
    /\ Compatible(batch)
    /\ NamesOf(Merged(batch).inputs) = NamesOf(Inputs)

\* Changing the first dimension leaves the others.
LEMMA TailOfExcept ==
    ASSUME NEW s \in Seq(Int), s # <<>>, NEW x \in Int
    PROVE  LET u == [s EXCEPT ![1] = x]
           IN u \in Seq(Int) /\ u # <<>> /\ u[1] = x /\ Tail(u) = Tail(s)
  <1> DEFINE u == [s EXCEPT ![1] = x]
             n == Len(s)
  <1>1. n \in Nat /\ n > 0 /\ s = [i \in 1 .. n |-> s[i]] /\ \A i \in 1 .. n : s[i] \in Int
    OBVIOUS
  <1>2. u = [i \in 1 .. n |-> IF i = 1 THEN x ELSE s[i]]
    BY <1>1
  <1>3. u \in Seq(Int) /\ Len(u) = n /\ u[1] = x
    <2> HIDE DEF n, u
    <2> QED
      BY <1>1, <1>2
  <1>4. Tail(u) = Tail(s)
    <2>1. Len(Tail(u)) = n - 1 /\ Len(Tail(s)) = n - 1 /\ Tail(u) \in Seq(Int) /\ Tail(s) \in Seq(Int)
      BY <1>1, <1>3
    <2>2. \A i \in 1 .. n - 1 : Tail(u)[i] = Tail(s)[i]
      <3> HIDE DEF u
      <3>1. \A i \in 1 .. n - 1 : Tail(u)[i] = u[i + 1] /\ Tail(s)[i] = s[i + 1]
        BY <1>1, <1>3
      <3>2. \A i \in 1 .. n - 1 : u[i + 1] = s[i + 1]
        BY <1>1, <1>2
      <3> QED
        BY <3>1, <3>2
    <2> HIDE DEF u, n
    <2> QED
      BY <2>1, <2>2
  <1> QED
    BY <1>1, <1>3, <1>4

\* What an exact tensor is.
LEMMA ExactTensor ==
    ASSUME NEW D, NEW r, Typed(r, D), Exact(r), NEW i \in DOMAIN r.inputs
    PROVE  LET t == r.inputs[i]
               slice == SliceElementCount(t.shape)
           IN /\ TypedTensor(t, D) /\ t.shape # <<>> /\ t.shape[1] = RequestBatchSize(r)
              /\ RequestBatchSize(r) \in Nat /\ slice \in Nat
              /\ Len(t.bytes) = RequestBatchSize(r) * (slice * ElementSize)
  <1> DEFINE t == r.inputs[i]
             slice == SliceElementCount(t.shape)
             b == RequestBatchSize(r)
  <1>1. /\ TypedTensor(t, D) /\ t.shape # <<>> /\ t.shape[1] = b /\ ElementCount(t.shape).ok
        /\ Len(t.bytes) = ElementCount(t.shape).count * ElementSize
    BY DEF Typed, Exact
  <1> HIDE DEF t, b
  <1>2. t.shape \in Seq(Int)
    BY <1>1 DEF TypedTensor
  <1>3. b \in Nat /\ slice \in Nat /\ ElementCount(t.shape).count = b * slice
    BY <1>1, <1>2, SliceExact
  <1> HIDE DEF slice
  <1>4. ElementSize \in Nat
    BY PathAssumption
  <1>5. (b * slice) * ElementSize = b * (slice * ElementSize)
    BY <1>3, <1>4, Associates
  <1> QED
    BY <1>1, <1>3, <1>5 DEF t, b, slice

\* The tensor of an input in a member of the batch.
LEMMA MemberTensor ==
    ASSUME NEW D, NEW r, Typed(r, D), Exact(r), NEW k \in DOMAIN Inputs,
           Inputs[k].name \in NamesOf(r.inputs)
    PROVE  \E i \in DOMAIN r.inputs :
              FindsAt(r.inputs, Inputs[k].name, i) /\ TensorFor(r, k) = r.inputs[i]
  <1> DEFINE n == Inputs[k].name
  <1>1. r.inputs \in Seq(ToSet(r.inputs))
    BY DEF Typed
  <1> HIDE DEF n
  <1>2. PICK i : FindsAt(r.inputs, n, i)
    BY <1>1, FindsSomewhere DEF n
  <1>3. Find(r.inputs, n) = r.inputs[i] /\ i \in DOMAIN r.inputs
    BY <1>1, <1>2, FindIs DEF FindsAt
  <1> QED
    BY <1>2, <1>3 DEF TensorFor, n

\* An exact request with every input has as many rows as its batch size says.
LEMMA ExactFits ==
    ASSUME NEW D, NEW r, Typed(r, D), Exact(r), NamesOf(Inputs) \subseteq NamesOf(r.inputs),
           NEW k \in DOMAIN Inputs
    PROVE  /\ TensorFor(r, k).bytes \in Seq(D) /\ SliceElementCount(TensorFor(r, k).shape) \in Nat
           /\ Len(TensorFor(r, k).bytes) = RequestBatchSize(r) * SliceBytes(r, k)
           /\ RequestBatchSize(r) \in Nat
  <1>1. Inputs[k].name \in NamesOf(r.inputs)
    BY DEF NamesOf
  <1>2. PICK i \in DOMAIN r.inputs : TensorFor(r, k) = r.inputs[i]
    BY <1>1, MemberTensor
  <1> DEFINE t == TensorFor(r, k)
             slice == SliceElementCount(t.shape)
  <1>3. /\ TypedTensor(t, D) /\ slice \in Nat /\ RequestBatchSize(r) \in Nat
        /\ Len(t.bytes) = RequestBatchSize(r) * (slice * ElementSize)
    BY <1>2, ExactTensor
  <1> QED
    BY <1>3 DEF TypedTensor, SliceBytes

-----------------------------------------------------------------------------
\* A merged tensor, field by field.
MergedTensor(batch, t) ==
    [name |-> t.name, datatype |-> t.datatype,
     shape |-> [t.shape EXCEPT ![1] = Sum(BatchSizes(batch))],
     bytes |-> FlattenSeq([i \in DOMAIN batch |-> Find(execution[batch[i]].inputs, t.name).bytes])]

\* The inputs of a merged request are those of its first member, merged.
LEMMA MergedIs ==
    ASSUME NEW D, NEW batch, Mergeable(batch, D)
    PROVE  LET first == execution[batch[1]]
           IN /\ Merged(batch).inputs = [i \in DOMAIN first.inputs |-> MergedTensor(batch, first.inputs[i])]
              /\ DOMAIN first.inputs = 1 .. Len(first.inputs) /\ Len(first.inputs) \in Nat
              /\ 1 \in DOMAIN batch /\ Typed(first, D) /\ Exact(first)
  <1> DEFINE first == execution[batch[1]]
  <1>1. 1 \in DOMAIN batch /\ Len(batch) # 1
    BY DEF Mergeable
  <1>2. Typed(first, D) /\ Exact(first)
    BY <1>1 DEF Mergeable
  <1>3. Merged(batch) = [first EXCEPT !.inputs = [i \in DOMAIN first.inputs |-> MergeInputTensors(batch, first.inputs[i])]]
    BY <1>1 DEF Merged
  <1> HIDE DEF first
  <1>4. Merged(batch).inputs = [i \in DOMAIN first.inputs |-> MergeInputTensors(batch, first.inputs[i])]
    BY <1>2, <1>3 DEF Typed
  <1>5. ASSUME NEW i \in DOMAIN first.inputs
        PROVE  MergeInputTensors(batch, first.inputs[i]) = MergedTensor(batch, first.inputs[i])
    <2> DEFINE t == first.inputs[i]
    <2>1. t = [name |-> t.name, datatype |-> t.datatype, shape |-> t.shape, bytes |-> t.bytes]
      BY <1>2 DEF Typed, TypedTensor
    <2> HIDE DEF t
    <2> DEFINE whole == FlattenSeq([j \in DOMAIN batch |-> Find(execution[batch[j]].inputs, t.name).bytes])
               shape == [t.shape EXCEPT ![1] = Sum(BatchSizes(batch))]
    <2>2. MergeInputTensors(batch, t) = [t EXCEPT !.shape = shape, !.bytes = whole]
      BY DEF MergeInputTensors
    <2>3. MergedTensor(batch, t) = [name |-> t.name, datatype |-> t.datatype, shape |-> shape, bytes |-> whole]
      BY DEF MergedTensor
    <2> HIDE DEF whole, shape
    <2>4. MergeInputTensors(batch, t) = MergedTensor(batch, t)
      BY <2>1, <2>2, <2>3
    <2> QED
      BY <2>4 DEF t
  <1>6. Merged(batch).inputs = [i \in DOMAIN first.inputs |-> MergedTensor(batch, first.inputs[i])]
    BY <1>4, <1>5
  <1>7. DOMAIN first.inputs = 1 .. Len(first.inputs) /\ Len(first.inputs) \in Nat
    BY <1>2 DEF Typed
  <1> QED
    BY <1>1, <1>2, <1>6, <1>7 DEF first

-----------------------------------------------------------------------------
(* The members of a batch.                                                 *)

\* What the members of a mergeable batch have in common: the slices of every input.
LEMMA MembersAgree ==
    ASSUME NEW D, NEW batch, Mergeable(batch, D), NEW j \in DOMAIN batch, NEW k \in DOMAIN Inputs
    PROVE  /\ Inputs[k].name \in NamesOf(execution[batch[j]].inputs)
           /\ Tail(TensorFor(execution[batch[j]], k).shape) = Tail(TensorFor(execution[batch[1]], k).shape)
  <1> DEFINE first == execution[batch[1]]
             r == execution[batch[j]]
             M == Merged(batch)
             n == Inputs[k].name
  <1>1. /\ M.inputs = [i \in DOMAIN first.inputs |-> MergedTensor(batch, first.inputs[i])]
        /\ Typed(first, D) /\ Exact(first) /\ 1 \in DOMAIN batch
    BY MergedIs
  <1>2. n \in NamesOf(first.inputs)
    <2>1. n \in NamesOf(M.inputs)
      BY DEF Mergeable, NamesOf
    <2> HIDE DEF M, first, n
    <2>2. PICK i \in DOMAIN M.inputs : n = M.inputs[i].name
      BY <2>1 DEF NamesOf
    <2>3. i \in DOMAIN first.inputs /\ M.inputs[i] = MergedTensor(batch, first.inputs[i])
      BY <1>1, <2>2
    <2>4. MergedTensor(batch, first.inputs[i]).name = first.inputs[i].name
      BY DEF MergedTensor
    <2> QED
      BY <2>2, <2>3, <2>4 DEF NamesOf
  <1>3. CASE j = 1
    BY <1>2, <1>3
  <1>4. CASE j # 1
    <2>1. AreBatchCompatible(first, r) /\ Typed(r, D) /\ Exact(r)
      BY <1>4 DEF Mergeable, Compatible
    <2> HIDE DEF first, r, M
    <2>2. n \in NamesOf(r.inputs)
      BY <1>2, <2>1 DEF AreBatchCompatible
    <2>3. PICK i \in DOMAIN first.inputs : FindsAt(first.inputs, n, i) /\ TensorFor(first, k) = first.inputs[i]
      BY <1>1, <1>2, MemberTensor
    <2>4. first.inputs[i].name = n
      BY <2>3 DEF FindsAt
    <2>5. Tail(first.inputs[i].shape) = Tail(Find(r.inputs, n).shape)
      BY <2>1, <2>3, <2>4 DEF AreBatchCompatible
    <2> QED
      BY <2>2, <2>3, <2>5 DEF TensorFor, r, first
  <1> QED
    BY <1>3, <1>4

\* Every member of a batch has as many rows as it says, of one length for all.
LEMMA MembersFit ==
    ASSUME NEW D, NEW batch, Mergeable(batch, D), NEW j \in DOMAIN batch
    PROVE  LET r == execution[batch[j]]
           IN /\ RowsFit(r, RequestBatchSize(r), D) /\ RequestBatchSize(r) \in Nat
              /\ \A k \in DOMAIN Inputs : SliceBytes(r, k) = SliceBytes(execution[batch[1]], k)
  <1> DEFINE r == execution[batch[j]]
  <1>1. Typed(r, D) /\ Exact(r)
    BY DEF Mergeable
  <1>2. NamesOf(Inputs) \subseteq NamesOf(r.inputs)
    BY MembersAgree DEF NamesOf
  <1>3. 1 \in DOMAIN Inputs
    <2>1. Inputs \in Seq(ToSet(Inputs))
      BY PathAssumption
    <2>2. Inputs # <<>>
      BY DEF Mergeable
    <2>3. Len(Inputs) \in Nat /\ Len(Inputs) # 0 /\ DOMAIN Inputs = 1 .. Len(Inputs)
      BY <2>1, <2>2
    <2> QED
      BY <2>3
  <1>4. RowsFit(r, RequestBatchSize(r), D) /\ RequestBatchSize(r) \in Nat
    <2> HIDE DEF r
    <2> QED
      BY <1>1, <1>2, <1>3, ExactFits DEF RowsFit
  <1>5. \A k \in DOMAIN Inputs : SliceBytes(r, k) = SliceBytes(execution[batch[1]], k)
    <2> SUFFICES ASSUME NEW k \in DOMAIN Inputs PROVE SliceBytes(r, k) = SliceBytes(execution[batch[1]], k)
      OBVIOUS
    <2>1. Tail(TensorFor(r, k).shape) = Tail(TensorFor(execution[batch[1]], k).shape)
      BY MembersAgree
    <2> QED
      BY <2>1 DEF SliceBytes, SliceElementCount
  <1> QED
    BY <1>4, <1>5

\* The batch sizes are natural numbers and so is their sum.
LEMMA SizesOf ==
    ASSUME NEW D, NEW batch, Mergeable(batch, D)
    PROVE  /\ BatchSizes(batch) \in Seq(Nat) /\ Len(BatchSizes(batch)) = Len(batch)
           /\ DOMAIN batch = 1 .. Len(batch) /\ Len(batch) \in Nat
           /\ \A j \in DOMAIN batch : BatchSizes(batch)[j] = RequestBatchSize(execution[batch[j]])
           /\ Sum(BatchSizes(batch)) \in Nat
  <1> DEFINE sizes == BatchSizes(batch)
  <1>1. DOMAIN batch = 1 .. Len(batch) /\ Len(batch) \in Nat
    BY DEF Mergeable
  <1>2. \A j \in DOMAIN batch : RequestBatchSize(execution[batch[j]]) \in Nat
    BY MembersFit
  <1>3. sizes = [j \in 1 .. Len(batch) |-> RequestBatchSize(execution[batch[j]])]
    BY <1>1 DEF BatchSizes
  <1>4. sizes \in Seq(Nat) /\ Len(sizes) = Len(batch)
    <2> HIDE DEF sizes
    <2> QED
      BY <1>1, <1>2, <1>3
  <1>5. PICK p : Adds(p, sizes)
    BY <1>4, AddsExist
  <1>6. Sum(sizes) \in Nat
    <2> HIDE DEF sizes
    <2>1. Len(sizes) \in 0 .. Len(sizes)
      BY <1>4
    <2> QED
      BY <1>5, <2>1 DEF Adds
  <1> QED
    BY <1>1, <1>3, <1>4, <1>6

\* The parts of a merged input.
Parts(batch, k) == [j \in DOMAIN batch |-> TensorFor(execution[batch[j]], k).bytes]

\* The bytes of an input, member by member, have the lengths of their batch sizes.
LEMMA PartsFacts ==
    ASSUME NEW D, NEW batch, Mergeable(batch, D), NEW k \in DOMAIN Inputs
    PROVE  /\ Parts(batch, k) \in Seq(Seq(D)) /\ Len(Parts(batch, k)) = Len(batch)
           /\ \A j \in DOMAIN batch : Parts(batch, k)[j] = TensorFor(execution[batch[j]], k).bytes
           /\ SliceBytes(execution[batch[1]], k) \in Nat
           /\ Scaled(Parts(batch, k), BatchSizes(batch), SliceBytes(execution[batch[1]], k))
  <1> DEFINE f == Parts(batch, k)
             sizes == BatchSizes(batch)
             w == SliceBytes(execution[batch[1]], k)
  <1>1. /\ DOMAIN batch = 1 .. Len(batch) /\ Len(batch) \in Nat /\ sizes \in Seq(Nat) /\ Len(sizes) = Len(batch)
        /\ \A j \in DOMAIN batch : sizes[j] = RequestBatchSize(execution[batch[j]])
    BY SizesOf
  <1>2. \A j \in DOMAIN batch : f[j] = TensorFor(execution[batch[j]], k).bytes
    BY DEF Parts
  <1>3. ASSUME NEW j \in DOMAIN batch
        PROVE  f[j] \in Seq(D) /\ Len(f[j]) = sizes[j] * w
    <2> DEFINE r == execution[batch[j]]
    <2>1. RowsFit(r, RequestBatchSize(r), D) /\ SliceBytes(r, k) = w
      BY MembersFit
    <2>2. TensorFor(r, k).bytes \in Seq(D) /\ Len(TensorFor(r, k).bytes) = RequestBatchSize(r) * w
      BY <2>1 DEF RowsFit
    <2> HIDE DEF w, f, sizes
    <2> QED
      BY <1>1, <1>2, <2>2
  <1>4. f = [j \in 1 .. Len(batch) |-> f[j]]
    BY <1>1 DEF Parts
  <1>5. w \in Nat
    <2>1. 1 \in DOMAIN batch
      BY MergedIs
    <2>2. RowsFit(execution[batch[1]], RequestBatchSize(execution[batch[1]]), D)
      BY <2>1, MembersFit
    <2> QED
      BY <2>2, CountsFacts
  <1> HIDE DEF f, sizes, w
  <1>6. f \in Seq(Seq(D)) /\ Len(f) = Len(batch)
    BY <1>1, <1>3, <1>4
  <1>7. Scaled(f, sizes, w)
    BY <1>1, <1>3, <1>5, <1>6 DEF Scaled
  <1> QED
    BY <1>2, <1>5, <1>6, <1>7 DEF f, sizes, w

\* A merged input: the slices are those of the first member, the bytes are the parts.
LEMMA MergedFor ==
    ASSUME NEW D, NEW batch, Mergeable(batch, D), NEW k \in DOMAIN Inputs
    PROVE  /\ TensorFor(Merged(batch), k).bytes = FlattenSeq(Parts(batch, k))
           /\ SliceElementCount(TensorFor(Merged(batch), k).shape)
                = SliceElementCount(TensorFor(execution[batch[1]], k).shape)
           /\ SliceBytes(Merged(batch), k) = SliceBytes(execution[batch[1]], k)
  <1> DEFINE first == execution[batch[1]]
             M == Merged(batch)
             n == Inputs[k].name
  <1>1. /\ M.inputs = [i \in DOMAIN first.inputs |-> MergedTensor(batch, first.inputs[i])]
        /\ DOMAIN first.inputs = 1 .. Len(first.inputs) /\ Len(first.inputs) \in Nat
        /\ Typed(first, D) /\ Exact(first) /\ 1 \in DOMAIN batch
    BY MergedIs
  <1>2. n \in NamesOf(first.inputs)
    BY <1>1, MembersAgree
  <1>3. Sum(BatchSizes(batch)) \in Nat
    BY SizesOf
  <1> HIDE DEF M, first
  <1>4. PICK i \in DOMAIN first.inputs : FindsAt(first.inputs, n, i) /\ TensorFor(first, k) = first.inputs[i]
    BY <1>1, <1>2, MemberTensor
  <1> DEFINE t == first.inputs[i]
  <1>5. \A j \in DOMAIN first.inputs : M.inputs[j] = MergedTensor(batch, first.inputs[j])
                                       /\ M.inputs[j].name = first.inputs[j].name
    BY <1>1 DEF MergedTensor
  <1>6. M.inputs \in Seq({M.inputs[j] : j \in DOMAIN first.inputs})
    <2>1. M.inputs = [j \in 1 .. Len(first.inputs) |-> M.inputs[j]]
      BY <1>1
    <2> QED
      BY <1>1, <2>1
  <1>7. FindsAt(M.inputs, n, i)
    <2>1. DOMAIN M.inputs = DOMAIN first.inputs
      BY <1>1
    <2>2. i \in DOMAIN first.inputs /\ first.inputs[i].name = n /\ \A j \in 1 .. i - 1 : first.inputs[j].name # n
      BY <1>4 DEF FindsAt
    <2>3. \A j \in 1 .. i - 1 : j \in DOMAIN first.inputs
      BY <1>1, <2>2
    <2> HIDE DEF n
    <2> QED
      BY <1>5, <2>1, <2>2, <2>3 DEF FindsAt
  <1>8. TensorFor(M, k) = MergedTensor(batch, t)
    <2>1. Find(M.inputs, n) = M.inputs[i]
      <3> HIDE DEF n
      <3> QED
        BY <1>6, <1>7, FindIs
    <2> QED
      BY <1>5, <2>1 DEF TensorFor
  <1>9. t.name = n /\ t.shape \in Seq(Int) /\ t.shape # <<>>
    BY <1>1, <1>4 DEF FindsAt, Exact, Typed, TypedTensor
  <1>10. TensorFor(M, k).bytes = FlattenSeq(Parts(batch, k))
    <2>1. MergedTensor(batch, t).bytes = FlattenSeq([j \in DOMAIN batch |-> Find(execution[batch[j]].inputs, t.name).bytes])
      BY Zenon DEF MergedTensor
    <2>2. [j \in DOMAIN batch |-> Find(execution[batch[j]].inputs, t.name).bytes] = Parts(batch, k)
      BY <1>9 DEF Parts, TensorFor
    <2> QED
      BY <1>8, <2>1, <2>2
  <1>11. Tail(TensorFor(M, k).shape) = Tail(TensorFor(first, k).shape)
    <2>1. MergedTensor(batch, t).shape = [t.shape EXCEPT ![1] = Sum(BatchSizes(batch))]
      BY DEF MergedTensor
    <2> HIDE DEF t
    <2>2. Tail(MergedTensor(batch, t).shape) = Tail(t.shape)
      <3> DEFINE s == t.shape
                 x == Sum(BatchSizes(batch))
      <3>1. s \in Seq(Int) /\ s # <<>> /\ x \in Int
        BY <1>3, <1>9
      <3> HIDE DEF s, x
      <3>2. Tail([s EXCEPT ![1] = x]) = Tail(s)
        BY <3>1, TailOfExcept
      <3> QED
        BY <2>1, <3>2 DEF s, x
    <2> QED
      BY <1>4, <1>8, <2>2 DEF t
  <1>12. SliceElementCount(TensorFor(M, k).shape) = SliceElementCount(TensorFor(first, k).shape)
    BY <1>11 DEF SliceElementCount
  <1> QED
    BY <1>10, <1>12 DEF M, first, SliceBytes

-----------------------------------------------------------------------------
(* The merged tensors.                                                     *)

\* The rows in front of a member, and its own, are among those of the batch.
LEMMA OffsetFacts ==
    ASSUME NEW D, NEW batch, Mergeable(batch, D), NEW j \in DOMAIN batch
    PROVE  LET sizes == BatchSizes(batch)
           IN /\ BatchOffset(sizes, j) \in Nat /\ sizes[j] \in Nat /\ Sum(sizes) \in Nat
              /\ BatchOffset(sizes, j) + sizes[j] <= Sum(sizes)
  <1> DEFINE sizes == BatchSizes(batch)
             n == Len(sizes)
  <1>1. sizes \in Seq(Nat) /\ n \in Nat /\ j \in 1 .. n /\ sizes[j] \in Nat /\ Sum(sizes) \in Nat
    BY SizesOf
  <1> HIDE DEF sizes
  <1>2. PICK p : Adds(p, sizes)
    BY <1>1, AddsExist
  <1>3. p \in [0 .. n -> Nat] /\ p[n] = Sum(sizes) /\ p[j] = p[j - 1] + sizes[j]
    BY <1>1, <1>2 DEF Adds
  <1>4. BatchOffset(sizes, j) = p[j - 1]
    BY <1>1, <1>2, OffsetIsPrefixSum
  <1>5. p[j] <= p[n]
    <2>1. j \in 0 .. Len(sizes)
      BY <1>1
    <2> QED
      BY <1>1, <1>2, <2>1, AddsMonotone
  <1>6. p[j - 1] \in Nat
    BY <1>1, <1>3
  <1> QED
    BY <1>1, <1>3, <1>4, <1>5, <1>6 DEF sizes

\* Where the bytes of a member are in a merged input.
LEMMA MergedBytes ==
    ASSUME NEW D, NEW batch, Mergeable(batch, D), NEW k \in DOMAIN Inputs
    PROVE  LET sizes == BatchSizes(batch)
               w == SliceBytes(execution[batch[1]], k)
               whole == TensorFor(Merged(batch), k).bytes
           IN /\ whole \in Seq(D) /\ Len(whole) = Sum(sizes) * w /\ w \in Nat
              /\ \A j \in DOMAIN batch : \A x \in 1 .. sizes[j] * w :
                   whole[BatchOffset(sizes, j) * w + x] = TensorFor(execution[batch[j]], k).bytes[x]
  <1> DEFINE sizes == BatchSizes(batch)
             w == SliceBytes(execution[batch[1]], k)
             whole == TensorFor(Merged(batch), k).bytes
             f == Parts(batch, k)
             n == Len(batch)
  <1>1. /\ sizes \in Seq(Nat) /\ Len(sizes) = n /\ DOMAIN batch = 1 .. n /\ n \in Nat
    BY SizesOf
  <1>2. /\ f \in Seq(Seq(D)) /\ Len(f) = n /\ w \in Nat /\ Scaled(f, sizes, w)
        /\ \A j \in DOMAIN batch : f[j] = TensorFor(execution[batch[j]], k).bytes
    BY PartsFacts
  <1>3. whole = FlattenSeq(f)
    BY MergedFor
  <1> HIDE DEF sizes, w, whole, f, n
  <1>4. PICK o : PartsAt(o, D, f)
    BY <1>2, FlattenParts
  <1>5. PICK p : Adds(p, sizes)
    BY <1>1, AddsExist
  <1>6. \A j \in 0 .. Len(f) : o[j] = p[j] * w
    BY <1>2, <1>4, <1>5, ScaledOffsets
  <1>7. whole \in Seq(D) /\ Len(whole) = Sum(sizes) * w
    <2>1. n \in 0 .. Len(f) /\ p[n] = Sum(sizes)
      BY <1>1, <1>2, <1>5 DEF Adds
    <2>2. FlattenSeq(f) \in Seq(D) /\ Len(FlattenSeq(f)) = o[n]
      BY <1>2, <1>4 DEF PartsAt
    <2> QED
      BY <1>3, <1>6, <2>1, <2>2
  <1>8. ASSUME NEW j \in DOMAIN batch, NEW x \in 1 .. sizes[j] * w
        PROVE  whole[BatchOffset(sizes, j) * w + x] = TensorFor(execution[batch[j]], k).bytes[x]
    <2>1. j \in 1 .. Len(f) /\ j \in 1 .. Len(sizes) /\ j - 1 \in 0 .. Len(f)
      BY <1>1, <1>2
    <2>2. Len(f[j]) = sizes[j] * w
      BY <1>2, <2>1 DEF Scaled
    <2>3. o[j - 1] = p[j - 1] * w
      BY <1>6, <2>1
    <2>4. BatchOffset(sizes, j) = p[j - 1]
      BY <1>1, <1>5, <2>1, OffsetIsPrefixSum
    <2>5. FlattenSeq(f)[o[j - 1] + x] = f[j][x]
      BY <1>4, <2>1, <2>2 DEF PartsAt
    <2> QED
      BY <1>2, <1>3, <2>3, <2>4, <2>5
  <1> QED
    BY <1>2, <1>7, <1>8 DEF sizes, w, whole

\* The merged request has the rows of all its members.
LEMMA MergedFits ==
    ASSUME NEW D, NEW batch, Mergeable(batch, D)
    PROVE  /\ RowsFit(Merged(batch), Sum(BatchSizes(batch)), D)
           /\ RequestBatchSize(Merged(batch)) = Sum(BatchSizes(batch))
  <1> DEFINE M == Merged(batch)
             first == execution[batch[1]]
             total == Sum(BatchSizes(batch))
  <1>1. /\ M.inputs = [i \in DOMAIN first.inputs |-> MergedTensor(batch, first.inputs[i])]
        /\ DOMAIN first.inputs = 1 .. Len(first.inputs) /\ Len(first.inputs) \in Nat
        /\ Typed(first, D) /\ Exact(first) /\ 1 \in DOMAIN batch
    BY MergedIs
  <1>2. ASSUME NEW k \in DOMAIN Inputs
        PROVE  /\ TensorFor(M, k).bytes \in Seq(D) /\ SliceElementCount(TensorFor(M, k).shape) \in Nat
               /\ Len(TensorFor(M, k).bytes) = total * SliceBytes(M, k)
    <2>1. TensorFor(M, k).bytes \in Seq(D) /\ Len(TensorFor(M, k).bytes) = total * SliceBytes(first, k)
      BY MergedBytes
    <2>2. SliceElementCount(TensorFor(M, k).shape) = SliceElementCount(TensorFor(first, k).shape)
          /\ SliceBytes(M, k) = SliceBytes(first, k)
      BY MergedFor
    <2>3. SliceElementCount(TensorFor(first, k).shape) \in Nat
      BY <1>1, MembersFit DEF RowsFit
    <2> QED
      BY <2>1, <2>2, <2>3
  <1>3. RequestBatchSize(M) = total
    <2>1. 1 \in DOMAIN first.inputs
      <3>1. 1 \in DOMAIN Inputs
        <4>1. Inputs \in Seq(ToSet(Inputs))
          BY PathAssumption
        <4>2. Inputs # <<>>
          BY DEF Mergeable
        <4>3. Len(Inputs) \in Nat /\ Len(Inputs) # 0 /\ DOMAIN Inputs = 1 .. Len(Inputs)
          BY <4>1, <4>2
        <4> QED
          BY <4>3
      <3>2. Inputs[1].name \in NamesOf(first.inputs)
        BY <1>1, <3>1, MembersAgree
      <3>3. PICK i \in DOMAIN first.inputs : TRUE
        BY <3>2 DEF NamesOf
      <3> QED
        BY <1>1, <3>3
    <2>2. M.inputs[1] = MergedTensor(batch, first.inputs[1]) /\ M.inputs # <<>>
      <3> HIDE DEF M, first
      <3> QED
        BY <1>1, <2>1
    <2>3. first.inputs[1].shape \in Seq(Int) /\ first.inputs[1].shape # <<>>
      BY <1>1, <2>1 DEF Exact, Typed, TypedTensor
    <2>4. MergedTensor(batch, first.inputs[1]).shape = [first.inputs[1].shape EXCEPT ![1] = total]
      BY DEF MergedTensor
    <2>5. total \in Int
      BY SizesOf
    <2> HIDE DEF M, total
    <2>6. M.inputs[1].shape # <<>> /\ M.inputs[1].shape[1] = total
      <3> DEFINE s == first.inputs[1].shape
      <3>1. s \in Seq(Int) /\ s # <<>>
        BY <2>3
      <3>2. M.inputs[1].shape = [s EXCEPT ![1] = total]
        BY <2>2, <2>4
      <3> HIDE DEF s
      <3> QED
        BY <2>5, <3>1, <3>2, TailOfExcept
    <2> QED
      BY <2>2, <2>6 DEF RequestBatchSize
  <1> QED
    BY <1>2, <1>3 DEF RowsFit

\* Row i of a member is the row of the batch that lies behind those of the members
\* before it.
LEMMA MergedRow ==
    ASSUME NEW D, NEW batch, Mergeable(batch, D), NEW j \in DOMAIN batch,
           NEW i \in 1 .. BatchSizes(batch)[j]
    PROVE  Row(Merged(batch), BatchOffset(BatchSizes(batch), j) + i) = Row(execution[batch[j]], i)
  <1> DEFINE M == Merged(batch)
             r == execution[batch[j]]
             sizes == BatchSizes(batch)
             off == BatchOffset(sizes, j)
             total == Sum(sizes)
             b == sizes[j]
  <1>1. off \in Nat /\ b \in Nat /\ total \in Nat /\ off + b <= total
    BY OffsetFacts
  <1>2. b = RequestBatchSize(r)
    BY SizesOf
  <1>3. ASSUME NEW k \in DOMAIN Inputs PROVE Piece(M, k, off + i) = Piece(r, k, i)
    <2> DEFINE w == SliceBytes(execution[batch[1]], k)
               whole == TensorFor(M, k).bytes
               own == TensorFor(r, k).bytes
    <2>1. /\ whole \in Seq(D) /\ Len(whole) = total * w /\ w \in Nat
          /\ \A x \in 1 .. b * w : whole[off * w + x] = own[x]
      BY MergedBytes
    <2>2. own \in Seq(D) /\ Len(own) = b * w
      <3>1. RowsFit(r, RequestBatchSize(r), D) /\ SliceBytes(r, k) = w
        BY MembersFit
      <3> QED
        BY <1>2, <3>1 DEF RowsFit
    <2>3. SliceBytes(r, k) = w /\ SliceBytes(M, k) = w
      BY MembersFit, MergedFor
    <2>4. Piece(M, k, off + i) = SubSeq(whole, ((off + i) - 1) * w + 1, (off + i) * w)
      BY <2>3 DEF Piece
    <2>5. Piece(r, k, i) = SubSeq(own, (i - 1) * w + 1, i * w)
      BY <2>3 DEF Piece
    <2>6. i \in 1 .. b
      OBVIOUS
    <2> HIDE DEF M, r, w, whole, own, sizes, off, total, b
    <2>0. IsSlice(SubSeq(own, (i - 1) * w + 1, i * w), own, w, i, D)
      BY <1>1, <2>1, <2>2, <2>6, SliceOf
    <2>7. /\ SubSeq(own, (i - 1) * w + 1, i * w) = [x \in 1 .. w |-> own[(i - 1) * w + x]]
          /\ \A x \in 1 .. w : (i - 1) * w + x \in 1 .. Len(own)
      BY <2>0 DEF IsSlice
    <2>8. SubSeq(whole, ((off + i) - 1) * w + 1, (off + i) * w) = [x \in 1 .. w |-> whole[((off + i) - 1) * w + x]]
      <3> DEFINE y == off + i
      <3>1. y \in 1 .. total
        BY <1>1, <2>6
      <3> HIDE DEF y
      <3>2. SubSeq(whole, (y - 1) * w + 1, y * w) = [x \in 1 .. w |-> whole[(y - 1) * w + x]]
        BY <1>1, <2>1, <3>1, SliceOf DEF IsSlice
      <3> QED
        BY <3>2 DEF y
    <2>9. ((off + i) - 1) * w = off * w + (i - 1) * w
      <3>1. (off + (i - 1)) * w = off * w + (i - 1) * w
        BY <1>1, <2>1, <2>6, Distributes
      <3>2. (off + i) - 1 = off + (i - 1)
        BY <1>1, <2>6
      <3> QED
        BY <3>1, <3>2
    <2>10. ASSUME NEW x \in 1 .. w PROVE whole[((off + i) - 1) * w + x] = own[(i - 1) * w + x]
      <3> DEFINE z == (i - 1) * w
                 u == off * w
      <3>1. z + x \in 1 .. b * w
        BY <2>2, <2>7
      <3>2. z \in Int /\ u \in Int /\ x \in Int
        BY <1>1, <2>1, <2>6, Distributes
      <3>3. ((off + i) - 1) * w = u + z
        BY <2>9
      <3>4. whole[u + (z + x)] = own[z + x]
        BY <2>1, <3>1
      <3> HIDE DEF z, u
      <3>5. (u + z) + x = u + (z + x)
        BY <3>2
      <3>6. whole[((off + i) - 1) * w + x] = own[z + x]
        BY <3>3, <3>4, <3>5
      <3> QED
        BY <3>6 DEF z
    <2> QED
      BY <2>4, <2>5, <2>7, <2>8, <2>10
  <1>4. Pieces(M, off + i) = Pieces(r, i)
    BY <1>3 DEF Pieces
  <1>5. Row(M, off + i) = Row(r, i)
    <2> HIDE DEF M, r, off
    <2> QED
      BY <1>4, RowIs
  <1> QED
    BY <1>5

-----------------------------------------------------------------------------
(* Splitting.                                                              *)

\* A positive factor can be cancelled.
LEMMA Cancels ==
    ASSUME NEW x \in Nat, NEW y \in Nat, NEW e \in Nat, e > 0, x * e = y * e
    PROVE  x = y
  <1>1. ASSUME NEW a \in Nat, NEW b \in Nat, a < b PROVE a * e < b * e
    <2>1. a + 1 <= b /\ a + 1 \in Nat
      BY <1>1
    <2>2. (a + 1) * e <= b * e
      BY <2>1, Monotone
    <2>3. (a + 1) * e = a * e + 1 * e
      BY Distributes
    <2>4. a * e \in Nat /\ b * e \in Nat
      BY Monotone
    <2> QED
      BY <2>2, <2>3, <2>4
  <1>2. ~(x < y)
    <2>1. x * e \in Nat
      BY Monotone
    <2> QED
      BY <1>1, <2>1
  <1>3. ~(y < x)
    <2>1. x * e \in Nat
      BY Monotone
    <2> QED
      BY <1>1, <2>1
  <1> QED
    BY <1>2, <1>3

\* Nothing flattened is nothing.
LEMMA FlattenNothing == FlattenSeq(<<>>) = <<>>
  <1> DEFINE f == <<>>
             D == {}
  <1>1. f \in Seq(Seq(D)) /\ Len(f) = 0
    OBVIOUS
  <1> HIDE DEF f, D
  <1>2. PICK p \in [0 .. Len(f) -> Seq(D)] : p[0] = <<>> /\ p[Len(f)] = FlattenSeq(f)
    BY <1>1, FlattenTurns
  <1>3. FlattenSeq(f) = <<>>
    BY <1>1, <1>2
  <1> QED
    BY <1>3 DEF f

\* The element counts of an answer of n rows of w elements.
LEMMA AnswerShape ==
    ASSUME NEW n \in Nat, NEW w \in Nat
    PROVE  /\ ShapeElementCount(<<n, w>>) = (n * w) % (SizeMax + 1)
           /\ SliceElementCount(<<n, w>>) = w % (SizeMax + 1)
           /\ n * w \in Nat
  <1> DEFINE shape == <<n, w>>
  <1>1. shape \in Seq(Int) /\ shape # <<>> /\ shape[1] = n /\ Tail(shape) = <<w>>
    OBVIOUS
  <1> HIDE DEF shape
  <1>2. Product(shape) = n * w
    <2>1. Product(shape) = shape[1] * Product(Tail(shape))
      BY <1>1, ProductHead
    <2>2. Product(<<w>>) = w
      BY OneDimension
    <2> QED
      BY <1>1, <2>1, <2>2
  <1>3. ShapeElementCount(shape) = Product(shape) % (SizeMax + 1)
    BY DEF ShapeElementCount, Product
  <1>4. SliceElementCount(shape) = Product(<<w>>) % (SizeMax + 1)
    BY <1>1 DEF SliceElementCount, ShapeElementCount, Product
  <1>5. Product(<<w>>) = w
    BY OneDimension
  <1>6. n * w \in Nat
    BY ProductPositive
  <1> QED
    BY <1>2, <1>3, <1>4, <1>5, <1>6 DEF shape

\* What a split that succeeds has found.
Fits(out, sizes, j) ==
    LET slice == SliceElementCount(out.shape) * ElementSize
        start == BatchOffset(sizes, j) * slice
        end == start + sizes[j] * slice
    IN /\ out.shape[1] = Sum(sizes)
       /\ ShapeElementCount(out.shape) * ElementSize = Len(out.bytes)
       /\ slice # 0
       /\ SplitResponse(out, sizes, j).bytes = SubSeq(out.bytes, start + 1, end)

\* A split succeeds only if the tensor is as long as its shape says.
LEMMA SplitFits ==
    ASSUME NEW out, out = [ok |-> out.ok, code |-> out.code, fault |-> out.fault,
                           shape |-> out.shape, bytes |-> out.bytes],
           NEW sizes, NEW j, SplitResponse(out, sizes, j).ok
    PROVE  out.ok /\ Fits(out, sizes, j)
  <1> DEFINE slice == SliceElementCount(out.shape) * ElementSize
             start == BatchOffset(sizes, j) * slice
             end == start + sizes[j] * slice
             fits == /\ out.shape[1] = Sum(sizes)
                     /\ ShapeElementCount(out.shape) * ElementSize = Len(out.bytes)
                     /\ slice # 0 /\ end <= Len(out.bytes)
             part == [out EXCEPT !.shape[1] = sizes[j], !.bytes = SubSeq(@, start + 1, end)]
             failed == [NoResponse EXCEPT !.code = "BACKEND_ERROR", !.fault = out.fault]
  <1>1. SplitResponse(out, sizes, j) = CASE ~out.ok -> out [] out.ok /\ fits -> part [] OTHER -> failed
    BY Zenon DEF SplitResponse
  <1>2. ~failed.ok
    BY DEF NoResponse
  <1>3. part.bytes = SubSeq(out.bytes, start + 1, end)
    <2> DEFINE taken == SubSeq(out.bytes, start + 1, end)
               shape == [out.shape EXCEPT ![1] = sizes[j]]
    <2>1. part = [out EXCEPT !.shape = shape, !.bytes = taken]
      OBVIOUS
    <2> HIDE DEF taken, shape, part
    <2>2. part.bytes = taken
      BY <2>1
    <2> QED
      BY <2>2 DEF taken
  <1> HIDE DEF failed, part, fits
  <1>4. out.ok /\ fits /\ SplitResponse(out, sizes, j) = part
    BY <1>1, <1>2
  <1>5. SplitResponse(out, sizes, j).bytes = SubSeq(out.bytes, start + 1, end)
    BY <1>3, <1>4
  <1>6. /\ out.shape[1] = Sum(sizes)
        /\ ShapeElementCount(out.shape) * ElementSize = Len(out.bytes) /\ slice # 0
    BY Zenon, <1>4 DEF fits
  <1> QED
    BY Zenon, <1>4, <1>5, <1>6 DEF Fits

\* The width of a row is a natural number.
LEMMA WidthIs ==
    ASSUME NEW D, NEW r, NEW n, RowsFit(r, n, D)
    PROVE  Width(r) \in Nat
  <1> DEFINE sizes == Counts(r)
  <1>1. sizes \in Seq(Nat)
    BY CountsFacts
  <1> HIDE DEF sizes
  <1>2. PICK p : Adds(p, sizes)
    BY <1>1, AddsExist
  <1>3. Len(sizes) \in 0 .. Len(sizes)
    BY <1>1
  <1>4. Sum(sizes) \in Nat
    BY <1>2, <1>3 DEF Adds
  <1> QED
    BY <1>4, RowIs DEF sizes

\* A member that is answered with data is answered with its own rows.
LEMMA SplitIsOwn ==
    ASSUME NEW D, NEW batch, Mergeable(batch, D), NEW j \in DOMAIN batch,
           NEW out, out.shape = <<RequestBatchSize(Merged(batch)), Width(Merged(batch))>>,
           out.bytes = Rows(Merged(batch)), Fits(out, BatchSizes(batch), j)
    PROVE  SplitResponse(out, BatchSizes(batch), j).bytes = Rows(execution[batch[j]])
  <1> DEFINE M == Merged(batch)
             r == execution[batch[j]]
             sizes == BatchSizes(batch)
             off == BatchOffset(sizes, j)
             n == Sum(sizes)
             b == sizes[j]
             W == Width(M)
             slice == SliceElementCount(out.shape) * ElementSize
             start == off * slice
             end == start + b * slice
             got == SplitResponse(out, sizes, j).bytes
  <1>1. off \in Nat /\ b \in Nat /\ n \in Nat /\ off + b <= n
    BY OffsetFacts
  <1>2. b = RequestBatchSize(r) /\ RowsFit(M, n, D) /\ RequestBatchSize(M) = n
    BY SizesOf, MergedFits
  <1>3. out.shape = <<n, W>> /\ out.bytes = Rows(M)
    BY <1>2
  <1>4. /\ ShapeElementCount(out.shape) * ElementSize = Len(out.bytes)
        /\ got = SubSeq(out.bytes, start + 1, end)
    BY DEF Fits
  <1>5. Rows(r) = FlattenSeq([i \in 1 .. b |-> Row(r, i)])
    BY <1>2 DEF Rows
  <1>6. ElementSize \in Nat /\ ElementSize > 0 /\ SizeMax \in Nat
    BY PathAssumption
  <1>7. \A i \in 1 .. b : Row(M, off + i) = Row(r, i)
    BY MergedRow
  <1>11. W \in Nat
    BY <1>2, WidthIs
  <1>10. slice \in Nat /\ start \in Nat
    <2> HIDE DEF off, W, n
    <2>1. SliceElementCount(out.shape) = W % (SizeMax + 1)
      BY <1>1, <1>3, <1>11, AnswerShape
    <2>2. W % (SizeMax + 1) \in Nat
      BY <1>11, Wrapped
    <2>3. slice \in Nat
      BY <1>6, <2>1, <2>2, ProductPositive
    <2> HIDE DEF slice
    <2> QED
      BY <1>1, <2>3, ProductPositive
  <1>8. CASE b = 0
    <2>1. [i \in 1 .. b |-> Row(r, i)] = <<>>
      <3>1. 1 .. b = {}
        BY <1>8
      <3> HIDE DEF b, r
      <3> QED
        BY <3>1
    <2>2. Rows(r) = <<>>
      BY <1>5, <2>1, FlattenNothing
    <2>3. SubSeq(out.bytes, start + 1, start + 0) = <<>>
      <3> HIDE DEF start
      <3>1. SubSeq(out.bytes, start + 1, start + 0) = [k \in 1 .. 0 |-> out.bytes[start + k]]
        <4> DEFINE zero == 0
        <4>1. zero \in Nat /\ \A k \in 1 .. zero : out.bytes[start + k] \in {}
          OBVIOUS
        <4> HIDE DEF zero
        <4>2. SubSeq(out.bytes, start + 1, start + zero) = [k \in 1 .. zero |-> out.bytes[start + k]]
          BY <1>10, <4>1, Slice
        <4> QED
          BY <4>2 DEF zero
      <3> QED
        BY <3>1
    <2>4. end = start + 0
      BY <1>8, <1>10
    <2> QED
      BY <1>4, <2>2, <2>3, <2>4
  <1>9. CASE b # 0
    <2>1. b >= 1 /\ n >= 1 /\ 1 \in 1 .. n
      BY <1>1, <1>9
    <2>2. W \in Nat
      BY <1>11
    <2> HIDE DEF M, r, sizes, off, n, b, W, slice, start, end, got
    <2>3. /\ ShapeElementCount(out.shape) = (n * W) % (SizeMax + 1)
          /\ SliceElementCount(out.shape) = W % (SizeMax + 1) /\ n * W \in Nat
      BY <1>1, <1>3, <2>2, AnswerShape
    <2>4. Len(Rows(M)) = n * (W * ElementSize)
      <3>1. Within(0, n, n)
        BY <1>1 DEF Within
      <3> QED
        BY <1>2, <2>2, <3>1, RowsSlice DEF W
    <2>5. (n * W) % (SizeMax + 1) = n * W
      <3> DEFINE x == n * W
                 z == x % (SizeMax + 1)
      <3>1. x \in Nat /\ z \in Nat
        BY <2>3, Wrapped
      <3>2. z * ElementSize = x * ElementSize
        <4>1. x * ElementSize = n * (W * ElementSize)
          BY <1>1, <1>6, <2>2, Associates
        <4> QED
          BY <1>3, <1>4, <2>3, <2>4, <4>1
      <3> HIDE DEF z, x
      <3>3. z = x
        BY <1>6, <3>1, <3>2, Cancels
      <3> QED
        BY <3>3 DEF x, z
    <2>6. W <= SizeMax
      <3> DEFINE x == n * W
      <3>1. x \in Nat /\ x <= SizeMax
        <4>1. x % (SizeMax + 1) <= SizeMax /\ x \in Nat
          BY <2>3, Wrapped
        <4> QED
          BY <2>3, <2>5, <4>1
      <3>2. 1 * W <= x
        BY <1>1, <2>1, <2>2, Monotone
      <3> HIDE DEF x
      <3> QED
        BY <1>6, <2>2, <3>1, <3>2
    <2>7. slice = W * ElementSize
      BY <2>2, <2>3, <2>6, Unwrapped DEF slice
    <2>8. start = off * slice /\ end = (off + b) * slice
      <3>1. slice \in Nat
        BY <1>6, <2>2, <2>7, ProductPositive
      <3>2. (off + b) * slice = off * slice + b * slice
        BY <1>1, <3>1, Distributes
      <3> QED
        BY <3>2 DEF start, end
    <2>9. SubSeq(Rows(M), off * slice + 1, (off + b) * slice) = FlattenSeq([i \in 1 .. b |-> Row(M, off + i)])
      <3>1. Within(off, b, n)
        BY <1>1 DEF Within
      <3> DEFINE w == Width(M) * ElementSize
      <3>2. IsRows(SubSeq(Rows(M), off * w + 1, (off + b) * w), M, off, b)
        BY <1>2, <1>11, <3>1, RowsSlice DEF W
      <3>3. w = slice
        BY <2>7 DEF W
      <3> HIDE DEF w
      <3>4. IsRows(SubSeq(Rows(M), off * slice + 1, (off + b) * slice), M, off, b)
        BY <3>2, <3>3
      <3> QED
        BY <3>4 DEF IsRows
    <2>10. [i \in 1 .. b |-> Row(M, off + i)] = [i \in 1 .. b |-> Row(r, i)]
      BY <1>7
    <2>11. got = SubSeq(Rows(M), off * slice + 1, (off + b) * slice)
      BY <1>3, <1>4, <2>8
    <2>12. got = Rows(r)
      BY <1>5, <2>9, <2>10, <2>11
    <2> QED
      BY <2>12 DEF got, r, sizes
  <1> QED
    BY <1>1, <1>8, <1>9

-----------------------------------------------------------------------------
(* What requests consist of.                                               *)

\* The bytes there may be.
Byte == Clients \X (UNION {NamesOf(b.inputs) : b \in Bodies}) \X Nat

\* What a client sends for an input consists of bytes.
LEMMA SentTyped ==
    ASSUME NEW c \in Clients, NEW b \in Bodies, NEW input \in ToSet(b.inputs), NEW n \in Nat
    PROVE  Sent(c, input, n) \in Seq(Byte)
  <1>1. input.name \in NamesOf(b.inputs)
    BY DEF NamesOf, ToSet
  <1>2. {<<c, input.name, i>> : i \in Nat} \subseteq Byte
    BY <1>1 DEF Byte
  <1>3. Sent(c, input, n) \in Seq({<<c, input.name, i>> : i \in Nat})
    BY SentFacts
  <1> HIDE DEF Byte
  <1> QED
    BY <1>2, <1>3

\* And so do the two forms of it.
LEMMA InlineTyped ==
    ASSUME NEW c \in Clients, NEW b \in Bodies, NEW input \in ToSet(b.inputs)
    PROVE  InlineBytes(c, input) \in Seq(Byte) /\ Sent(c, input, input.size) \in Seq(Byte)
  <1>1. input.size \in Nat
    BY BodiesWellFormed DEF WellFormed
  <1> DEFINE n == IF IsBytes(input) THEN input.size ELSE input.size * ElementSize
             m == input.size
  <1>2. n \in Nat /\ m \in Nat
    BY <1>1, PathAssumption, ProductPositive
  <1> HIDE DEF n, m
  <1>3. Sent(c, input, n) \in Seq(Byte) /\ Sent(c, input, m) \in Seq(Byte)
    BY <1>2, SentTyped
  <1> QED
    BY <1>3 DEF InlineBytes, n, m

\* A tensor of bytes is a typed tensor.
LEMMA NewTensorTyped ==
    ASSUME NEW D, NEW input, input.shape \in Seq(Int), NEW bytes \in Seq(D)
    PROVE  TypedTensor(NewTensor(input, bytes), D)
  BY DEF TypedTensor, NewTensor

\* A request made of the inputs of a body.
LEMMA TypedOf ==
    ASSUME NEW b \in Bodies, NEW r, r = [ok |-> r.ok, inputs |-> r.inputs, outputs |-> r.outputs],
           NEW bytes, \A i \in DOMAIN b.inputs : bytes[i] \in Seq(Byte),
           r.inputs = [i \in DOMAIN b.inputs |-> NewTensor(b.inputs[i], bytes[i])]
    PROVE  Typed(r, Byte)
  <1>1. WellFormed(b)
    BY BodiesWellFormed
  <1> DEFINE n == Len(b.inputs)
  <1>2. n \in Nat /\ DOMAIN b.inputs = 1 .. n /\ \A i \in 1 .. n : b.inputs[i] \in ToSet(b.inputs)
    BY <1>1 DEF WellFormed
  <1> HIDE DEF n
  <1>3. DOMAIN r.inputs = 1 .. n /\ \A i \in 1 .. n : r.inputs[i] = NewTensor(b.inputs[i], bytes[i])
    BY <1>2
  <1>4. r.inputs \in Seq(ToSet(r.inputs))
    <2>1. r.inputs = [i \in 1 .. n |-> r.inputs[i]]
      BY <1>2, <1>3
    <2>2. \A i \in 1 .. n : r.inputs[i] \in ToSet(r.inputs)
      BY <1>3 DEF ToSet
    <2> DEFINE s == r.inputs
               D == ToSet(s)
    <2>3. s = [i \in 1 .. n |-> s[i]] /\ \A i \in 1 .. n : s[i] \in D
      BY <2>1, <2>2
    <2> HIDE DEF s, D
    <2>4. s \in Seq(D)
      BY <1>2, <2>3
    <2> QED
      BY <2>4 DEF s, D
  <1>5. ASSUME NEW i \in DOMAIN r.inputs PROVE TypedTensor(r.inputs[i], Byte)
    <2>1. b.inputs[i].shape \in Seq(Int) /\ bytes[i] \in Seq(Byte)
      BY <1>1, <1>2, <1>3 DEF WellFormed
    <2> QED
      BY <1>3, <2>1, NewTensorTyped
  <1> QED
    BY <1>4, <1>5 DEF Typed

\* Whatever has been decoded is typed, over either transport.
LEMMA ExecutionTyped ==
    ASSUME PathInv, NEW c \in Clients
    PROVE  Typed(execution[c], Byte)
  <1> DEFINE b == body[c]
             r == execution[c]
  <1>1. CASE r = NoExecution
    BY <1>1 DEF NoExecution, Typed, ToSet
  <1>2. CASE r # NoExecution
    <2>1. b \in Bodies /\ r = Decoded(c) /\ r.ok
      BY <1>2 DEF PathInv, PathPlaces
    <2>2. CASE b.transport = "http"
      <3> DEFINE bytes == [k \in DOMAIN b.inputs |-> OwnBytes(c, b.inputs[k])]
      <3>1. r.inputs = [k \in DOMAIN b.inputs |-> NewTensor(b.inputs[k], OwnBytes(c, b.inputs[k]))]
        BY <2>1, <2>2, AdmittedOverHttp
      <3>2. r = [ok |-> r.ok, inputs |-> r.inputs, outputs |-> r.outputs]
        <4> DEFINE got == Parsed(c, b)
                   fine == got.ok /\ Complete(got, b) /\ \A i \in DOMAIN b.outputs : b.outputs[i] \in ToSet(Outputs)
                   asked == IF b.outputs = <<>> THEN Outputs ELSE b.outputs
        <4>1. ParseInferenceRequest(c, b) = [ok |-> fine, inputs |-> got.inputs, outputs |-> asked]
          BY Zenon DEF ParseInferenceRequest, Parsed, NothingParsed
        <4>2. r = ParseInferenceRequest(c, b)
          BY <2>1, <2>2 DEF Decoded
        <4> HIDE DEF got, fine, asked, r
        <4> QED
          BY <4>1, <4>2
      <3> HIDE DEF r, b
      <3>3. \A k \in DOMAIN b.inputs : bytes[k] \in Seq(Byte)
        BY <2>1, InlineTyped DEF OwnBytes, ToSet
      <3>4. r.inputs = [k \in DOMAIN b.inputs |-> NewTensor(b.inputs[k], bytes[k])]
        BY <3>1
      <3> HIDE DEF bytes
      <3>5. Typed(r, Byte)
        BY <2>1, <3>2, <3>3, <3>4, TypedOf
      <3> QED
        BY <3>5 DEF r
    <2>3. CASE b.transport # "http"
      <3> DEFINE raw == BinaryInputs(b)
                 Bytes(i) == IF ~IsBytes(b.inputs[i]) /\ i <= Len(raw) THEN Sent(c, raw[i], raw[i].size)
                             ELSE IF b.inputs[i].form = "data" THEN InlineBytes(c, b.inputs[i]) ELSE <<>>
                 bytes == [k \in DOMAIN b.inputs |-> Bytes(k)]
      <3>1. r = ConvertInferRequest(c, b)
        BY <2>1, <2>3 DEF Decoded
      <3>2. ConvertInferRequest(c, b) =
              [ok |-> TRUE, outputs |-> b.outputs,
               inputs |-> [k \in DOMAIN b.inputs |-> NewTensor(b.inputs[k], Bytes(k))]]
        BY Zenon DEF ConvertInferRequest
      <3> HIDE DEF r, b
      <3>3. raw \in Seq(ToSet(b.inputs)) /\ b.inputs \in Seq(ToSet(b.inputs))
        BY <2>1, BodiesWellFormed, ThoseFacts DEF WellFormed, BinaryInputs
      <3> HIDE DEF raw
      <3>4. ASSUME NEW k \in DOMAIN b.inputs PROVE Bytes(k) \in Seq(Byte)
        <4>1. CASE ~IsBytes(b.inputs[k]) /\ k <= Len(raw)
          <5>1. k \in 1 .. Len(raw)
            BY <3>3, <4>1
          <5>2. raw[k] \in ToSet(b.inputs)
            BY <3>3, <5>1
          <5> DEFINE input == raw[k]
          <5>3. Sent(c, input, input.size) \in Seq(Byte)
            <6> HIDE DEF input
            <6> QED
              BY <2>1, <5>2, InlineTyped DEF input
          <5> QED
            BY <4>1, <5>3
        <4>2. CASE ~(~IsBytes(b.inputs[k]) /\ k <= Len(raw)) /\ b.inputs[k].form = "data"
          BY <2>1, <4>2, InlineTyped DEF ToSet
        <4>3. CASE ~(~IsBytes(b.inputs[k]) /\ k <= Len(raw)) /\ b.inputs[k].form # "data"
          BY <4>3
        <4> QED
          BY <4>1, <4>2, <4>3
      <3> HIDE DEF Bytes
      <3>5. \A k \in DOMAIN b.inputs : bytes[k] \in Seq(Byte)
        BY <3>4
      <3>6. r = [ok |-> r.ok, inputs |-> r.inputs, outputs |-> r.outputs]
        BY <3>1, <3>2
      <3>7. r.inputs = [k \in DOMAIN b.inputs |-> NewTensor(b.inputs[k], bytes[k])]
        BY <3>1, <3>2
      <3> HIDE DEF bytes
      <3>8. Typed(r, Byte)
        BY <2>1, <3>5, <3>6, <3>7, TypedOf
      <3> QED
        BY <3>8 DEF r
    <2> QED
      BY <2>2, <2>3
  <1> QED
    BY <1>1, <1>2

-----------------------------------------------------------------------------
(* The batch that is executed.                                             *)

\* What a healthy backend has returned is what it computed from the batch.
Responded ==
    response.ok /\ ~response.fault =>
        LET r == Merged(members)
        IN /\ members # <<>> /\ NamesOf(r.inputs) = NamesOf(Inputs)
           /\ response.shape = <<RequestBatchSize(r), Width(r)>> /\ response.bytes = Rows(r)

\* A response has the fields of one.
ResponseRecord ==
    response = [ok |-> response.ok, code |-> response.code, fault |-> response.fault,
                shape |-> response.shape, bytes |-> response.bytes]

\* What is true of the batch and its response at any time.
PathBatches == ResponseRecord /\ Compatible(members) /\ Responded

\* A step that leaves the batch alone.
LEMMA BatchesKept ==
    ASSUME PathBatches, UNCHANGED <<members, response, execution>>
    PROVE  PathBatches'
  BY DEF PathBatches, ResponseRecord, Compatible, Responded, Merged, MergeInputTensors, BatchSizes

\* Decoding changes no request that is in a batch.
LEMMA DecodeBatches ==
    ASSUME PathInv, PathBatches, NEW c \in Clients, Decode(c)
    PROVE  PathBatches'
  <1>1. UNCHANGED <<members, response>> /\ place[c] = "decode"
    BY DEF Decode
  <1>2. \A d \in Clients : d # c => execution'[d] = execution[d]
    BY DEF Decode, PathInv, PathShapes
  <1>3. members \in Seq(Clients) /\ \A i \in DOMAIN members : members[i] \in Clients /\ members[i] # c
    <2>1. members \in Seq(Clients)
      BY DEF PathInv, PathShapes
    <2>2. \A i \in DOMAIN members : members[i] \in Clients /\ members[i] \in ToSet(members)
      BY <2>1 DEF ToSet
    <2> QED
      BY <1>1, <2>1, <2>2 DEF PathInv, PathPlaces
  <1>4. \A i \in DOMAIN members : execution'[members[i]] = execution[members[i]]
    BY <1>2, <1>3
  <1>5. Compatible(members)'
    <2>1. \A i \in DOMAIN members : 1 \in DOMAIN members
      BY <1>3
    <2> QED
      BY <1>1, <1>4, <2>1 DEF PathBatches, Compatible
  <1>6. members # <<>> => Merged(members)' = Merged(members)
    <2> SUFFICES ASSUME members # <<>> PROVE Merged(members)' = Merged(members)
      OBVIOUS
    <2>1. 1 \in DOMAIN members
      BY <1>3
    <2>2. BatchSizes(members)' = BatchSizes(members)
      BY <1>1, <1>4 DEF BatchSizes
    <2>3. ASSUME NEW t PROVE MergeInputTensors(members, t)' = MergeInputTensors(members, t)
      <3> DEFINE f == [i \in DOMAIN members |-> Find(execution[members[i]].inputs, t.name).bytes]
                 s == Sum(BatchSizes(members))
      <3>1. f' = f /\ s' = s
        BY <1>1, <1>4, <2>2
      <3>2. MergeInputTensors(members, t) = [t EXCEPT !.shape = [@ EXCEPT ![1] = s], !.bytes = FlattenSeq(f)]
        BY Zenon DEF MergeInputTensors
      <3>3. MergeInputTensors(members, t)' = [t EXCEPT !.shape = [@ EXCEPT ![1] = s'], !.bytes = FlattenSeq(f')]
        BY Zenon DEF MergeInputTensors
      <3> HIDE DEF f, s
      <3> QED
        BY <3>1, <3>2, <3>3
    <2>4. execution'[members'[1]] = execution[members[1]]
      BY <1>1, <1>4, <2>1
    <2> QED
      BY <1>1, <2>3, <2>4 DEF Merged
  <1>7. Responded'
    <2>1. response'.ok /\ ~response'.fault => members # <<>>
      BY <1>1 DEF PathBatches, Responded
    <2> DEFINE r == Merged(members)
    <2>2. response'.ok /\ ~response'.fault => r' = r
      BY <1>6, <2>1
    <2>3. response'.ok /\ ~response'.fault =>
             /\ NamesOf(r.inputs) = NamesOf(Inputs)
             /\ response'.shape = <<RequestBatchSize(r), Width(r)>> /\ response'.bytes = Rows(r)
      BY <1>1 DEF PathBatches, Responded
    <2>4. Responded' <=>
            (response'.ok /\ ~response'.fault =>
               /\ members' # <<>> /\ NamesOf(r'.inputs) = NamesOf(Inputs)
               /\ response'.shape = <<RequestBatchSize(r'), Width(r')>> /\ response'.bytes = Rows(r'))
      BY Zenon DEF Responded
    <2> HIDE DEF r
    <2> QED
      BY <1>1, <2>1, <2>2, <2>3, <2>4
  <1> QED
    BY <1>1, <1>5, <1>7 DEF PathBatches, ResponseRecord

\* A batch is formed of requests that are compatible with its first.
LEMMA FormBatchBatches ==
    ASSUME PathInv, PathBatches, FormBatch
    PROVE  PathBatches'
  <1>1. PICK others \in SUBSET ToSet(Tail(queue)) :
           /\ \A c \in others : AreBatchCompatible(execution[Head(queue)], execution[c])
           /\ members' = Those(queue, others \cup {Head(queue)})
    BY DEF FormBatch
  <1>2. UNCHANGED <<execution, response>> /\ members = <<>> /\ queue # <<>>
    BY DEF FormBatch
  <1>3. queue \in Seq(Clients) /\ Distinct(queue) /\ Head(queue) = queue[1]
    BY <1>2 DEF PathInv, PathShapes
  <1>4. /\ members' \in Seq(Clients) /\ Distinct(members') /\ members' # <<>> /\ members'[1] = Head(queue)
        /\ \A e : e \in ToSet(members') => e \in others \cup {Head(queue)}
    <2> DEFINE S == others \cup {Head(queue)}
    <2>1. queue[1] \in S
      BY <1>3
    <2> HIDE DEF S
    <2> QED
      BY <1>1, <1>2, <1>3, <2>1, ThoseFacts DEF S
  <1>5. Compatible(members)'
    <2>1. ASSUME NEW i \in DOMAIN members', i # 1
          PROVE  AreBatchCompatible(execution[members'[1]], execution[members'[i]])
      <3>1. members'[i] \in ToSet(members') /\ 1 \in DOMAIN members'
        BY <1>4 DEF ToSet
      <3>2. members'[i] # members'[1]
        BY <1>4, <2>1, <3>1 DEF Distinct
      <3>3. members'[i] \in others
        BY <1>4, <3>1, <3>2
      <3> QED
        BY <1>1, <1>4, <3>3
    <2> QED
      BY <1>2, <2>1 DEF Compatible
  <1>6. ~(response'.ok /\ ~response'.fault)
    BY <1>2 DEF PathBatches, Responded
  <1>7. Responded'
    BY <1>6 DEF Responded
  <1> QED
    BY <1>2, <1>5, <1>7 DEF PathBatches, ResponseRecord

\* A record with the fields of a response.
Whole(x) == x = [ok |-> x.ok, code |-> x.code, fault |-> x.fault, shape |-> x.shape, bytes |-> x.bytes]

\* An explicit record is one.
LEMMA WholeRecord ==
    ASSUME NEW ok, NEW code, NEW fault, NEW shape, NEW bytes
    PROVE  LET x == [ok |-> ok, code |-> code, fault |-> fault, shape |-> shape, bytes |-> bytes]
           IN Whole(x) = TRUE
  BY DEF Whole

\* And so is one with a field changed.
LEMMA WholeExcept ==
    ASSUME NEW x, Whole(x), NEW code, NEW fault
    PROVE  Whole([x EXCEPT !.code = code]) = TRUE /\ Whole([x EXCEPT !.fault = fault]) = TRUE
  <1>1. x = [ok |-> x.ok, code |-> x.code, fault |-> x.fault, shape |-> x.shape, bytes |-> x.bytes]
    BY DEF Whole
  <1> DEFINE y == [x EXCEPT !.code = code]
             z == [x EXCEPT !.fault = fault]
  <1>2. y = [ok |-> x.ok, code |-> code, fault |-> x.fault, shape |-> x.shape, bytes |-> x.bytes]
    BY <1>1
  <1>3. z = [ok |-> x.ok, code |-> x.code, fault |-> fault, shape |-> x.shape, bytes |-> x.bytes]
    BY <1>1
  <1> HIDE DEF y, z
  <1>4. Whole(y) = TRUE
    BY <1>2 DEF Whole
  <1>5. Whole(z) = TRUE
    BY <1>3 DEF Whole
  <1> QED
    BY <1>4, <1>5 DEF y, z

\* And the response that is none.
LEMMA NothingWhole == Whole(NoResponse) = TRUE
  BY DEF Whole, NoResponse

\* What the executor returns.
LEMMA InferBatches ==
    ASSUME PathInv, PathBatches, Infer
    PROVE  PathBatches'
  <1> DEFINE r == Merged(members)
  <1>1. /\ members # <<>> /\ UNCHANGED <<members, execution>>
        /\ response' \in IF Executable(r) THEN Backend(r) ELSE {[NoResponse EXCEPT !.code = "INVALID_ARGUMENT"]}
    BY DEF Infer
  <1>2. Compatible(members)'
    BY <1>1 DEF PathBatches, Compatible
  <1>3. Merged(members)' = r
    <2>1. UNCHANGED <<members, execution>>
      BY <1>1
    <2> QED
      BY <2>1 DEF Merged, MergeInputTensors, BatchSizes
  <1> DEFINE size == RequestBatchSize(r)
             works == [ok |-> TRUE, code |-> "", fault |-> FALSE, shape |-> <<size, Width(r)>>, bytes |-> Rows(r)]
             fails == [NoResponse EXCEPT !.code = "BACKEND_ERROR"]
             short == [ok |-> TRUE, code |-> "", fault |-> TRUE, shape |-> <<1, Width(r)>>, bytes |-> Row(r, 1)]
             broken == [fails EXCEPT !.fault = TRUE]
             wrong == [NoResponse EXCEPT !.code = "INVALID_ARGUMENT"]
  <1>4. \/ Executable(r) /\ response' = works
        \/ response' \in {fails, short, broken, wrong}
    BY <1>1, Zenon DEF Backend
  <1>5. ~fails.ok /\ ~broken.ok /\ ~wrong.ok /\ short.fault
    BY DEF NoResponse
  <1>6. works.ok /\ works.shape = <<size, Width(r)>> /\ works.bytes = Rows(r)
    OBVIOUS
  <1>7. ResponseRecord'
    <2> HIDE DEF r, size
    <2>1. Whole(works)
      BY WholeRecord
    <2>4. Whole(fails) /\ Whole(wrong)
      BY NothingWhole, WholeExcept
    <2>2. Whole(short)
      BY WholeRecord
    <2>5. Whole(broken)
      <3> HIDE DEF fails
      <3> QED
        BY <2>4, WholeExcept
    <2>3. Whole(response')
      <3> HIDE DEF works, fails, short, broken, wrong
      <3> QED
        BY <1>4, <2>1, <2>2, <2>4, <2>5
    <2> QED
      BY <2>3 DEF ResponseRecord, Whole
  <1>8. Responded'
    <2> SUFFICES ASSUME response'.ok, ~response'.fault
                 PROVE  /\ members' # <<>> /\ NamesOf(Merged(members)'.inputs) = NamesOf(Inputs)
                        /\ response'.shape = <<RequestBatchSize(Merged(members)'), Width(Merged(members)')>>
                        /\ response'.bytes = Rows(Merged(members)')
      BY Zenon DEF Responded
    <2> HIDE DEF works, fails, short, broken, wrong
    <2>1. Executable(r) /\ response' = works
      BY <1>4, <1>5
    <2>2. NamesOf(r.inputs) = NamesOf(Inputs)
      BY <2>1 DEF Executable
    <2> HIDE DEF r
    <2> QED
      BY <1>1, <1>3, <1>6, <2>1, <2>2 DEF size
  <1> QED
    BY <1>2, <1>7, <1>8 DEF PathBatches

\* After the answers there is no batch.
LEMMA DeliverBatches ==
    ASSUME Deliver
    PROVE  PathBatches'
  <1>1. members' = <<>> /\ response' = NoResponse
    BY DEF Deliver
  <1>2. ResponseRecord' /\ Responded'
    BY <1>1 DEF ResponseRecord, Responded, NoResponse
  <1>3. Compatible(members)'
    BY <1>1 DEF Compatible
  <1> QED
    BY <1>2, <1>3 DEF PathBatches

\* Every step.
LEMMA BatchesStep ==
    ASSUME PathInv, PathBatches, [PathNext]_pathVars
    PROVE  PathBatches'
  <1>1. CASE UNCHANGED pathVars
    BY <1>1, BatchesKept DEF pathVars
  <1>2. ASSUME NEW c \in Clients, Receive(c) PROVE PathBatches'
    BY <1>2, BatchesKept DEF Receive
  <1>3. ASSUME NEW c \in Clients, Refuse(c) PROVE PathBatches'
    BY <1>3, BatchesKept DEF Refuse
  <1> QED
    BY <1>1, <1>2, <1>3, DecodeBatches, FormBatchBatches, InferBatches, DeliverBatches DEF PathNext

\* The first state.
LEMMA BatchesInit ==
    ASSUME PathInit
    PROVE  PathBatches
  <1>1. members = <<>> /\ response = NoResponse
    BY DEF PathInit
  <1>2. ResponseRecord /\ Responded
    BY <1>1 DEF ResponseRecord, Responded, NoResponse
  <1>3. Compatible(members)
    BY <1>1 DEF Compatible
  <1> QED
    BY <1>2, <1>3 DEF PathBatches

-----------------------------------------------------------------------------
(* Answers.                                                                *)

\* Only a response that is a success is answered with one of the codes of success.
LEMMA ReplyOk ==
    ASSUME NEW transport, NEW r, ResponseStatus(transport, r) \in {0, 200}
    PROVE  r.ok
  BY DEF ResponseStatus, HttpStatusForCode, GrpcStatusForCode

\* A refusal has neither.
LEMMA RefusedWithout ==
    ASSUME NEW code
    PROVE  HttpStatusForCode(code) \notin {0, 200} /\ GrpcStatusForCode(code) \notin {0, 200}
  BY DEF HttpStatusForCode, GrpcStatusForCode

\* A client without a request is exact.
LEMMA NothingIsExact == Exact(NoExecution)
  BY DEF Exact, NoExecution

\* Every request is exact.
AllExact == \A c \in Clients : Exact(execution[c])

\* OwnRows for one client.
Own(c) == Answered(c, {0, 200}) /\ ~answer[c].fault => answer[c].bytes = Rows(execution[c])

\* An execution is never taken back, so that what is exact after a step was so before.
LEMMA ExactBefore ==
    ASSUME PathInv, [PathNext]_pathVars, AllExact'
    PROVE  AllExact
  <1>1. CASE UNCHANGED execution
    BY <1>1 DEF AllExact, Exact
  <1>2. CASE \E c \in Clients : Decode(c)
    <2>1. PICK c \in Clients : Decode(c)
      BY <1>2
    <2>2. place[c] = "decode" /\ \A d \in Clients : d # c => execution'[d] = execution[d]
      BY <2>1 DEF Decode, PathInv, PathShapes
    <2>3. execution[c] = NoExecution
      BY <2>2 DEF PathInv, PathPlaces
    <2>4. ASSUME NEW d \in Clients, d # c PROVE Exact(execution[d])
      BY <2>2, <2>4 DEF AllExact, Exact
    <2> QED
      BY <2>3, <2>4, NothingIsExact DEF AllExact
  <1> QED
    BY <1>1, <1>2 DEF PathNext, pathVars, Receive, Refuse, FormBatch, Infer, Deliver

\* A model without inputs has no rows to split.
LEMMA RowsNeedInputs ==
    ASSUME NEW n, NEW out, NEW r, out.shape = <<n, Width(r)>>, NEW sizes, NEW j, Fits(out, sizes, j)
    PROVE  Inputs # <<>>
  <1> SUFFICES ASSUME Inputs = <<>> PROVE FALSE
    OBVIOUS
  <1>1. Width(r) = 0
    <2>1. [k \in DOMAIN Inputs |-> SliceElementCount(Find(r.inputs, Inputs[k].name).shape)] = <<>>
      OBVIOUS
    <2> DEFINE s == <<>>
    <2>2. s \in Seq(Nat) /\ Len(s) = 0
      OBVIOUS
    <2> HIDE DEF s
    <2>3. PICK p : Adds(p, s)
      BY <2>2, AddsExist
    <2>4. Sum(s) = 0
      BY <2>2, <2>3 DEF Adds
    <2> QED
      BY <2>1, <2>4 DEF Width, s
  <1>2. SliceElementCount(out.shape) = 0
    <2>1. Tail(<<n, Width(r)>>) = <<Width(r)>>
      OBVIOUS
    <2>2. Product(<<0>>) = 0
      BY OneDimension
    <2>3. SizeMax \in Nat /\ 0 % (SizeMax + 1) = 0
      BY PathAssumption
    <2> QED
      BY <1>1, <2>1, <2>2, <2>3 DEF SliceElementCount, ShapeElementCount, Product
  <1>3. SliceElementCount(out.shape) * ElementSize = 0
    BY <1>2, PathAssumption
  <1> QED
    BY <1>3 DEF Fits

\* What a member is told when its part of the response is a success.
LEMMA ReplyIsOwn ==
    ASSUME PathInv, PathBatches, AllExact, NEW j \in DOMAIN members, ~response.fault, ResponseFor(j).ok
    PROVE  ResponseFor(j).bytes = Rows(execution[members[j]])
  <1>1. members \in Seq(Clients) /\ members # <<>>
    BY DEF PathInv, PathShapes
  <1>2. CASE Len(members) = 1
    <2>1. ResponseFor(j) = response /\ j = 1
      BY <1>1, <1>2 DEF ResponseFor
    <2>2. response.bytes = Rows(Merged(members))
      BY <2>1 DEF PathBatches, Responded
    <2> QED
      BY <1>2, <2>1, <2>2 DEF Merged
  <1>3. CASE Len(members) # 1
    <2> DEFINE sizes == BatchSizes(members)
    <2>1. ResponseFor(j) = SplitResponse(response, sizes, j)
      BY <1>3 DEF ResponseFor
    <2>2. response.ok /\ Fits(response, sizes, j)
      <3>1. SplitResponse(response, sizes, j).ok
        BY <2>1
      <3> HIDE DEF sizes
      <3> QED
        BY <3>1, SplitFits DEF PathBatches, ResponseRecord
    <2>3. /\ NamesOf(Merged(members).inputs) = NamesOf(Inputs)
          /\ response.shape = <<RequestBatchSize(Merged(members)), Width(Merged(members))>>
          /\ response.bytes = Rows(Merged(members))
      BY <2>2 DEF PathBatches, Responded
    <2>4. Inputs # <<>>
      BY <2>2, <2>3, RowsNeedInputs
    <2>5. Mergeable(members, Byte)
      <3>1. \A i \in DOMAIN members : members[i] \in Clients
        BY <1>1
      <3>2. \A i \in DOMAIN members : Typed(execution[members[i]], Byte) /\ Exact(execution[members[i]])
        BY <3>1, ExecutionTyped DEF AllExact
      <3>3. Len(members) > 1
        <4> DEFINE m == Len(members)
        <4>1. m \in Nat /\ j \in 1 .. m /\ m # 1
          BY <1>1, <1>3
        <4> HIDE DEF m
        <4>2. m >= j /\ j >= 1 /\ j \in Int
          BY <4>1
        <4>3. m > 1
          BY <4>1, <4>2
        <4> QED
          BY <4>3 DEF m
      <3>4. Compatible(members)
        BY DEF PathBatches
      <3> QED
        BY Zenon, <1>1, <2>3, <2>4, <3>2, <3>3, <3>4 DEF Mergeable
    <2> QED
      BY <2>1, <2>2, <2>3, <2>5, SplitIsOwn
  <1> QED
    BY <1>2, <1>3

\* A step that leaves the client alone.
LEMMA OwnSame ==
    ASSUME NEW c, Own(c), place'[c] = place[c], answer'[c] = answer[c], execution'[c] = execution[c]
    PROVE  Own(c)'
  <1>1. Rows(execution[c])' = Rows(execution[c])
    BY DEF Rows, RequestBatchSize, Row
  <1> QED
    BY <1>1 DEF Own, Answered

\* A client whose request is not answered with a success.
LEMMA OwnOtherwise ==
    ASSUME NEW c, place'[c] # "answered" \/ answer'[c].status \notin {0, 200}
    PROVE  Own(c)'
  BY DEF Own, Answered

\* The answers of a batch.
LEMMA DeliverOwn ==
    ASSUME PathInv, PathBatches, AllExact, Deliver, NEW d \in Clients, Own(d)
    PROVE  Own(d)'
  <1> DEFINE Reply(c) == ResponseFor(CHOOSE i \in DOMAIN members : members[i] = c)
             Status(c) == ResponseStatus(body[c].transport, Reply(c))
  <1>1. /\ UNCHANGED execution
        /\ answer' = [c \in Clients |->
                         IF c \in Waiting
                         THEN [status |-> Status(c), bytes |-> Reply(c).bytes, fault |-> response.fault]
                         ELSE answer[c]]
        /\ place' = [c \in Clients |-> IF c \in Waiting THEN "answered" ELSE place[c]]
    BY Zenon DEF Deliver, Waiting
  <1>2. CASE d \notin Waiting
    <2>1. place'[d] = place[d] /\ answer'[d] = answer[d] /\ execution'[d] = execution[d]
      BY <1>1, <1>2
    <2> QED
      BY <2>1, OwnSame
  <1>3. CASE d \in Waiting
    <2> DEFINE i == CHOOSE i \in DOMAIN members : members[i] = d
    <2>1. i \in DOMAIN members /\ members[i] = d
      BY <1>3 DEF Waiting, ToSet
    <2>2. Reply(d) = ResponseFor(i)
      OBVIOUS
    <2> HIDE DEF i
    <2>3. /\ answer'[d].status = Status(d) /\ answer'[d].bytes = ResponseFor(i).bytes
          /\ answer'[d].fault = response.fault /\ execution'[d] = execution[d]
      <3> HIDE DEF Reply, Status
      <3> QED
        BY <1>1, <1>3, <2>2
    <2>4. CASE Status(d) \notin {0, 200} \/ response.fault
      <3>1. CASE Status(d) \notin {0, 200}
        <4> HIDE DEF Status
        <4> QED
          BY <2>3, <3>1, OwnOtherwise
      <3>2. CASE response.fault
        <4>1. answer'[d].fault
          BY <2>3, <3>2
        <4> QED
          BY <4>1 DEF Own
      <3> QED
        BY <2>4, <3>1, <3>2
    <2>5. CASE Status(d) \in {0, 200} /\ ~response.fault
      <3>1. ResponseFor(i).ok
        BY <2>2, <2>5, ReplyOk
      <3>2. ResponseFor(i).bytes = Rows(execution[d])
        BY <2>1, <2>5, <3>1, ReplyIsOwn
      <3>3. answer'[d].bytes = Rows(execution[d])
        BY <2>3, <3>2
      <3>4. Rows(execution[d])' = Rows(execution[d])
        BY <2>3 DEF Rows, RequestBatchSize, Row
      <3> QED
        BY <3>3, <3>4 DEF Own
    <2> QED
      BY <2>4, <2>5
  <1> QED
    BY <1>2, <1>3

\* Every step.
LEMMA OwnStep ==
    ASSUME PathInv, PathBatches, AllExact, [PathNext]_pathVars, NEW d \in Clients, Own(d)
    PROVE  Own(d)'
  <1>1. ASSUME UNCHANGED <<place, answer, execution>> PROVE Own(d)'
    BY <1>1, OwnSame
  <1>2. CASE UNCHANGED pathVars
    BY <1>1, <1>2 DEF pathVars
  <1>3. ASSUME NEW c \in Clients, Receive(c) PROVE Own(d)'
    <2>1. place' = [place EXCEPT ![c] = "decode"] /\ UNCHANGED <<answer, execution>>
      BY <1>3 DEF Receive, GoTo
    <2>2. place'[c] = "decode" /\ (d # c => place'[d] = place[d])
      BY <2>1 DEF PathInv, PathShapes
    <2>3. CASE d = c
      BY <2>2, <2>3, OwnOtherwise
    <2>4. CASE d # c
      BY <2>1, <2>2, <2>4, OwnSame
    <2> QED
      BY <2>3, <2>4
  <1>4. ASSUME NEW c \in Clients, Decode(c) PROVE Own(d)'
    <2>1. /\ place[c] = "decode"
          /\ \/ /\ place' = [place EXCEPT ![c] = "answered"]
                /\ answer' = [answer EXCEPT ![c].status = 400] /\ UNCHANGED execution
             \/ /\ place' = [place EXCEPT ![c] = "queued"] /\ UNCHANGED answer
                /\ \E r : execution' = [execution EXCEPT ![c] = r]
      BY <1>4 DEF Decode, GoTo
    <2>2. d # c => place'[d] = place[d] /\ answer'[d] = answer[d] /\ execution'[d] = execution[d]
      BY <2>1 DEF PathInv, PathShapes
    <2>3. place'[c] # "answered" \/ answer'[c].status = 400
      <3>1. answer[c] = NoAnswer
        BY <2>1 DEF PathInv, PathPlaces
      <3>2. [NoAnswer EXCEPT !.status = 400].status = 400
        BY DEF NoAnswer
      <3>3. c \in DOMAIN place /\ c \in DOMAIN answer
        BY DEF PathInv, PathShapes
      <3>4. place' = [place EXCEPT ![c] = "queued"] => place'[c] = "queued"
        BY <3>3
      <3>5. answer' = [answer EXCEPT ![c].status = 400] => answer'[c] = [NoAnswer EXCEPT !.status = 400]
        BY <3>1, <3>3
      <3> QED
        BY <2>1, <3>2, <3>4, <3>5
    <2>4. CASE d = c
      BY <2>3, <2>4, OwnOtherwise
    <2>5. CASE d # c
      BY <2>2, <2>5, OwnSame
    <2> QED
      BY <2>4, <2>5
  <1>5. ASSUME NEW c \in Clients, Refuse(c) PROVE Own(d)'
    <2>1. PICK status :
             /\ status \notin {0, 200} /\ answer' = [answer EXCEPT ![c].status = status]
      BY <1>5, RefusedWithout DEF Refuse
    <2>2. /\ place[c] \in {"queued", "taken"} /\ place' = [place EXCEPT ![c] = "answered"]
          /\ UNCHANGED execution
      BY <1>5 DEF Refuse, GoTo
    <2>3. d # c => place'[d] = place[d] /\ answer'[d] = answer[d] /\ execution'[d] = execution[d]
      BY <2>1, <2>2 DEF PathInv, PathShapes
    <2>4. answer'[c].status = status
      <3>1. answer[c] = NoAnswer
        BY <2>2 DEF PathInv, PathPlaces
      <3>2. [NoAnswer EXCEPT !.status = status].status = status
        BY DEF NoAnswer
      <3>3. c \in DOMAIN answer
        BY DEF PathInv, PathShapes
      <3> QED
        BY <2>1, <3>1, <3>2, <3>3
    <2>5. CASE d = c
      BY <2>1, <2>4, <2>5, OwnOtherwise
    <2>6. CASE d # c
      BY <2>3, <2>6, OwnSame
    <2> QED
      BY <2>5, <2>6
  <1>6. ASSUME FormBatch PROVE Own(d)'
    <2>1. PICK batch : place' = [c \in Clients |-> IF c \in ToSet(batch) THEN "taken" ELSE place[c]]
      BY <1>6 DEF FormBatch
    <2>2. UNCHANGED <<answer, execution>>
      BY <1>6 DEF FormBatch
    <2>3. CASE d \in ToSet(batch)
      BY <2>1, <2>3, OwnOtherwise
    <2>4. CASE d \notin ToSet(batch)
      BY <2>1, <2>2, <2>4, OwnSame
    <2> QED
      BY <2>3, <2>4
  <1>7. ASSUME Infer PROVE Own(d)'
    BY <1>1, <1>7 DEF Infer
  <1> QED
    BY <1>2, <1>3, <1>4, <1>5, <1>6, <1>7, DeliverOwn DEF PathNext

\* Merging, executing and splitting a batch of any number of requests gives every member
\* the rows computed from its own bytes, wherever the element counts wrap around.
THEOREM OwnRowsAlways == PathSpec => []OwnRows
  <1>1. PathInit => OwnRows
    <2> SUFFICES ASSUME PathInit PROVE \A c \in Clients : place[c] = "idle"
      BY DEF OwnRows, Answered
    <2> QED
      BY DEF PathInit
  <1>2. PathInit => PathBatches
    BY BatchesInit
  <1>3. PathInv /\ PathBatches /\ [PathNext]_pathVars => PathBatches'
    BY BatchesStep
  <1>4. PathInv /\ PathBatches /\ OwnRows /\ [PathNext]_pathVars => OwnRows'
    <2> SUFFICES ASSUME PathInv, PathBatches, OwnRows, [PathNext]_pathVars, AllExact'
                 PROVE  \A c \in Clients : Own(c)'
      BY DEF OwnRows, AllExact, Own
    <2>1. AllExact
      BY ExactBefore
    <2>2. \A c \in Clients : Own(c)
      BY <2>1 DEF OwnRows, AllExact, Own
    <2> QED
      BY <2>1, <2>2, OwnStep
  <1> QED
    BY <1>1, <1>2, <1>3, <1>4, PathInvariant, PTL DEF PathSpec

=============================================================================
