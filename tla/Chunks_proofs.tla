---------------------------- MODULE Chunks_proofs ----------------------------
(***************************************************************************)
(* Theorems about Chunks, for any fields, texts and logs, any budget and   *)
(* any entries per window: the pieces of a text hold its letters in their  *)
(* order, none empty and none over the budget, and no cutting of the same  *)
(* atoms needs fewer; the windows of a log hold its entries, and an entry  *)
(* that is added rewrites the last of them only.                           *)
(*                                                                         *)
(* The code folds and flattens sequences of any length.  UpTo is the       *)
(* induction these proofs rest on, from the least element of a set of      *)
(* numbers; FlattenIs, JoinsAre and PacksAre say what the loops leave      *)
(* behind after each round, and what follows goes along those rounds.      *)
(***************************************************************************)
EXTENDS Chunks, FiniteSetTheorems, SequenceTheorems, WellFoundedInduction, TLAPS

-----------------------------------------------------------------------------
(* Least elements, and what a fold computes. *)

\* A property of the numbers up to n that fails somewhere fails somewhere first.
LEMMA FirstFailure ==
  ASSUME NEW S, S \subseteq Nat, S # {}
  PROVE  \E k \in S : k \in Nat /\ (k # 0 => k - 1 \in Nat /\ k - 1 \notin S)
<1>1. PICK t \in S : \A u \in S : ~(<<u, t>> \in OpToRel(<, Nat))
  BY NatLessThanWellFounded, WFMin
<1>2. t \in Nat /\ \A u \in S : ~(u < t)
  BY <1>1 DEF OpToRel
<1> QED
  BY <1>2

\* The least element of a set of numbers.
LEMMA LeastIs ==
  ASSUME NEW S, S \subseteq Nat, S # {}
  PROVE  Min(S) \in S /\ \A x \in S : Min(S) <= x
<1>1. PICK t \in S : \A u \in S : ~(<<u, t>> \in OpToRel(<, Nat))
  BY NatLessThanWellFounded, WFMin
<1>2. \A u \in S : ~(u < t)
  BY <1>1 DEF OpToRel
<1>3. t \in S /\ \A u \in S : t <= u /\ (u <= t => u = t)
  BY <1>2
<1> QED
  BY <1>3 DEF Min

\* The greatest of the places up to m + 1, where that one is among them.
LEMMA LastOfRange ==
  ASSUME NEW m \in Nat
  PROVE  \A s \in SUBSET (1 .. m + 1) : m + 1 \in s => Max(s) = m + 1
<1> SUFFICES ASSUME NEW s \in SUBSET (1 .. m + 1), m + 1 \in s PROVE Max(s) = m + 1
  OBVIOUS
<1>1. \A y \in s : y \in Int /\ m + 1 >= y
  OBVIOUS
<1>2. \A x \in s : (\A y \in s : x >= y) => x = m + 1
  BY <1>1
<1> QED
  BY <1>1, <1>2 DEF Max

\* What a fold computes: the value of every set of places is a step from the value
\* of the set without its greatest.
Folds(g, base, h, n) ==
  /\ g[{}] = base
  /\ \A s \in SUBSET (1 .. n) : s # {} => g[s] = h[<<g[s \ {Max(s)}], Max(s)>>]

\* There is such a function: MapThenFoldSet and FoldLeft choose the one there is.
LEMMA FoldExists ==
  ASSUME NEW A, NEW base \in A, NEW n \in Nat, NEW h \in [A \X (1 .. n) -> A]
  PROVE  \E g \in [SUBSET (1 .. n) -> A] : Folds(g, base, h, n)
<1>. DEFINE Has(m) == \E g \in [SUBSET (1 .. m) -> A] : Folds(g, base, h, m)
            Bad == {m \in 0 .. n : ~Has(m)}
<1>1. SUFFICES Has(n)
  OBVIOUS
<1>. HIDE DEF Has
<1>2. SUFFICES ASSUME Bad # {} PROVE FALSE
  BY <1>1
<1>3. PICK k \in Bad : k \in Nat /\ (k # 0 => k - 1 \in Nat /\ k - 1 \notin Bad)
  <2>1. Bad \subseteq Nat
    OBVIOUS
  <2>. HIDE DEF Bad
  <2> QED
    BY <1>2, <2>1, FirstFailure
<1>4. CASE k = 0
  <2>1. SUBSET (1 .. k) = {{}}
    BY <1>4
  <2>. USE DEF Has
  <2>2. [s \in SUBSET (1 .. k) |-> base] \in [SUBSET (1 .. k) -> A]
    OBVIOUS
  <2>3. Folds([s \in SUBSET (1 .. k) |-> base], base, h, k)
    BY <2>1 DEF Folds
  <2>4. Has(k)
    BY <2>2, <2>3
  <2> QED
    BY <1>3, <2>4
<1>5. CASE k # 0
  <2>. DEFINE m == k - 1
  <2>1. m \in Nat /\ k = m + 1 /\ m \in 0 .. n /\ k \in 1 .. n /\ m \notin Bad
    BY <1>3, <1>5
  <2>2. PICK g \in [SUBSET (1 .. m) -> A] : Folds(g, base, h, m)
    BY <2>1 DEF Has
  <2>. HIDE DEF m, Bad
  <2>. DEFINE e(s) == IF k \in s THEN h[<<g[s \ {k}], k>>] ELSE g[s]
              f == [s \in SUBSET (1 .. k) |-> e(s)]
  <2>3. \A s \in SUBSET (1 .. k) : s \ {k} \in SUBSET (1 .. m)
    BY <2>1
  <2>4. \A s \in SUBSET (1 .. k) : k \notin s => s \in SUBSET (1 .. m)
    BY <2>1
  <2>5. \A s \in SUBSET (1 .. k) : e(s) \in A
    BY <2>1, <2>3, <2>4
  <2>6. f \in [SUBSET (1 .. k) -> A]
    BY <2>5
  <2>7. f[{}] = base
    BY <2>2 DEF Folds
  <2>8. ASSUME NEW s \in SUBSET (1 .. k), s # {}
        PROVE  f[s] = h[<<f[s \ {Max(s)}], Max(s)>>]
    <3>1. CASE k \in s
      <4>1. Max(s) = k
        BY <2>1, <3>1, LastOfRange
      <4>2. f[s \ {k}] = g[s \ {k}]
        OBVIOUS
      <4> QED
        BY <3>1, <4>1, <4>2
    <3>2. CASE k \notin s
      <4>1. s \in SUBSET (1 .. m) /\ k \notin s \ {Max(s)} /\ s \ {Max(s)} \in SUBSET (1 .. k)
        BY <2>4, <3>2
      <4>2. f[s] = g[s] /\ f[s \ {Max(s)}] = g[s \ {Max(s)}]
        BY <3>2, <4>1
      <4> QED
        BY <2>2, <2>8, <4>1, <4>2 DEF Folds
    <3> QED
      BY <3>1, <3>2
  <2>. HIDE DEF f
  <2>9. Folds(f, base, h, k)
    BY <2>7, <2>8 DEF Folds
  <2>10. k \notin Bad
    BY <2>1, <2>6, <2>9 DEF Bad, Has
  <2> QED
    BY <2>10
<1> QED
  BY <1>4, <1>5

\* A step repeated n times.
Repeats(f, base, h, n) == f[0] = base /\ \A k \in 1 .. n : f[k] = h[<<f[k - 1], k>>]

\* What repeats a step n times, with all it comes by.
LEMMA StepsExist ==
  ASSUME NEW A, NEW base \in A, NEW n \in Nat, NEW h \in [A \X (1 .. n) -> A]
  PROVE  \E f \in [0 .. n -> A] : Repeats(f, base, h, n)
<1>1. PICK g \in [SUBSET (1 .. n) -> A] : Folds(g, base, h, n)
  BY FoldExists
<1>. DEFINE f == [k \in 0 .. n |-> g[1 .. k]]
<1>2. \A k \in 0 .. n : 1 .. k \in SUBSET (1 .. n)
  OBVIOUS
<1>3. f \in [0 .. n -> A]
  BY <1>2
<1>4. f[0] = base
  <2>1. 1 .. 0 = {}
    OBVIOUS
  <2> QED
    BY <1>1, <2>1 DEF Folds
<1>5. ASSUME NEW k \in 1 .. n PROVE f[k] = h[<<f[k - 1], k>>]
  <2>1. (1 .. k) \ {k} = 1 .. k - 1 /\ k - 1 \in 0 .. n /\ k \in 0 .. n /\ k \in 1 .. k
    OBVIOUS
  <2>2. Max(1 .. k) = k
    <3>1. k - 1 \in Nat /\ k = (k - 1) + 1
      OBVIOUS
    <3> QED
      BY <2>1, <3>1, LastOfRange
  <2>3. g[1 .. k] = h[<<g[1 .. k - 1], k>>]
    BY <1>1, <1>2, <2>1, <2>2 DEF Folds
  <2> QED
    BY <2>1, <2>3
<1>6. Repeats(f, base, h, n)
  BY <1>4, <1>5 DEF Repeats
<1> QED
  BY <1>3, <1>6

\* Induction over the numbers up to n.
LEMMA UpTo ==
  ASSUME NEW n \in Nat, NEW S, 0 \in S, \A k \in 1 .. n : k - 1 \in S => k \in S
  PROVE  0 .. n \subseteq S
<1>. DEFINE Bad == (0 .. n) \ S
<1>1. SUFFICES ASSUME Bad # {} PROVE FALSE
  OBVIOUS
<1>2. Bad \subseteq Nat
  OBVIOUS
<1>3. PICK k \in Bad : k \in Nat /\ (k # 0 => k - 1 \in Nat /\ k - 1 \notin Bad)
  <2>. HIDE DEF Bad
  <2> QED
    BY <1>1, <1>2, FirstFailure
<1>4. k # 0 /\ k \in 1 .. n /\ k - 1 \in 0 .. n
  BY <1>3
<1> QED
  BY <1>3, <1>4

-----------------------------------------------------------------------------
(* What FlattenSeq and the folds of Chunks compute. *)

\* f goes through the sequences, appending one after the other.
Appends(f, seqs) ==
  /\ f[0] = <<>>
  /\ \A k \in 1 .. Len(seqs) : f[k] = f[k - 1] \o seqs[k]

\* FlattenSeq appends one sequence after the other.
LEMMA FlattenIs ==
  ASSUME NEW X, NEW seqs \in Seq(Seq(X))
  PROVE  \E f \in [0 .. Len(seqs) -> Seq(X)] :
           Appends(f, seqs) /\ FlattenSeq(seqs) = f[Len(seqs)]
<1>. DEFINE n == Len(seqs)
<1>1. n \in Nat /\ \A k \in 1 .. n : seqs[k] \in Seq(X)
  OBVIOUS
<1>2. CASE n = 0
  <2>. DEFINE f == [k \in 0 .. n |-> <<>>]
  <2>1. FlattenSeq(seqs) = <<>>
    BY <1>2 DEF FlattenSeq
  <2>2. <<>> \in Seq(X) /\ 0 \in 0 .. n
    BY <1>2
  <2>3. f \in [0 .. n -> Seq(X)] /\ f[0] = <<>> /\ f[n] = <<>>
    BY <1>2, <2>2
  <2>4. 1 .. n = {}
    BY <1>2
  <2>5. Appends(f, seqs)
    BY <2>3, <2>4 DEF Appends
  <2>. HIDE DEF f
  <2> QED
    BY <2>1, <2>3, <2>5
<1>3. CASE n # 0
  <2>. DEFINE h == [x \in Seq(X) \X (1 .. n) |-> x[1] \o seqs[x[2]]]
              IsIt(g) == g = [i \in 1 .. n |-> IF i = 1 THEN seqs[i] ELSE g[i - 1] \o seqs[i]]
              c == CHOOSE g : IsIt(g)
  <2>1. h \in [Seq(X) \X (1 .. n) -> Seq(X)] /\ <<>> \in Seq(X)
    <3>1. \A x \in Seq(X) \X (1 .. n) : x[1] \o seqs[x[2]] \in Seq(X)
      BY <1>1
    <3> QED
      BY <3>1
  <2>2. \A a \in Seq(X), k \in 1 .. n : h[<<a, k>>] = a \o seqs[k]
    OBVIOUS
  <2>3. PICK f \in [0 .. n -> Seq(X)] :
               f[0] = <<>> /\ \A k \in 1 .. n : f[k] = h[<<f[k - 1], k>>]
    <3>. HIDE DEF h, n
    <3>1. PICK f \in [0 .. n -> Seq(X)] : Repeats(f, <<>>, h, n)
      BY <1>1, <2>1, StepsExist
    <3> QED
      BY <3>1 DEF Repeats
  <2>4. \A k \in 1 .. n : k - 1 \in 0 .. n /\ f[k - 1] \in Seq(X) /\ f[k] = f[k - 1] \o seqs[k]
    <3>. HIDE DEF h, n
    <3>1. \A k \in 1 .. n : k - 1 \in 0 .. n
      BY <1>1
    <3>2. \A k \in 1 .. n : f[k - 1] \in Seq(X)
      BY <2>3, <3>1
    <3> QED
      BY <2>2, <2>3, <3>1, <3>2
  <2>. HIDE DEF h
  <2>5. f[1] = seqs[1]
    <3>1. 1 \in 1 .. n /\ 1 - 1 = 0
      BY <1>1, <1>3
    <3>2. f[1] = <<>> \o seqs[1] /\ seqs[1] \in Seq(X)
      BY <1>1, <2>3, <2>4, <3>1
    <3> QED
      BY <3>2
  <2>6. IsIt([i \in 1 .. n |-> f[i]])
    <3>1. \A i \in 1 .. n : f[i] = IF i = 1 THEN seqs[i] ELSE [j \in 1 .. n |-> f[j]][i - 1] \o seqs[i]
      <4>1. \A i \in 1 .. n : i # 1 => i - 1 \in 1 .. n
        BY <1>1
      <4> QED
        BY <2>4, <2>5, <4>1
    <3> QED
      BY <3>1
  <2>7. IsIt(c)
    <3>. HIDE DEF IsIt
    <3> QED
      BY <2>6
  <2>8. FlattenSeq(seqs) = c[n]
    BY <1>3 DEF FlattenSeq
  <2>. HIDE DEF c
  <2>9. c[1] = seqs[1] /\ \A i \in 2 .. n : c[i] = c[i - 1] \o seqs[i]
    <3>. HIDE DEF n
    <3>1. 1 \in 1 .. n /\ \A i \in 2 .. n : i \in 1 .. n /\ i # 1
      BY <1>1, <1>3
    <3> QED
      BY <2>7, <3>1
  <2>10. \A k \in 1 .. n : c[k] = f[k]
    <3>. DEFINE S == {0} \union {k \in 1 .. n : c[k] = f[k]}
    <3>1. ASSUME NEW k \in 1 .. n, k - 1 \in S PROVE k \in S
      <4>1. CASE k = 1
        BY <2>5, <2>9, <4>1
      <4>2. CASE k # 1
        <5>1. k \in 2 .. n /\ k - 1 \in 1 .. n
          BY <1>1, <4>2
        <5>2. c[k - 1] = f[k - 1]
          BY <3>1, <5>1
        <5> QED
          BY <2>4, <2>9, <5>1, <5>2
      <4> QED
        BY <4>1, <4>2
    <3>2. 0 \in S
      OBVIOUS
    <3>3. 0 .. n \subseteq S
      <4>. HIDE DEF S, n
      <4> QED
        BY <1>1, <3>1, <3>2, UpTo
    <3>4. \A k \in 1 .. n : k \in 0 .. n /\ k # 0
      BY <1>1
    <3> QED
      BY <3>3, <3>4
  <2>11. n \in 1 .. n
    BY <1>1, <1>3
  <2>12. Appends(f, seqs)
    BY <2>3, <2>4 DEF Appends
  <2> QED
    BY <2>3, <2>8, <2>10, <2>11, <2>12
<1> QED
  BY <1>2, <1>3

\* The stretches of text over a set of letters: none is of no length but the empty one.
Stretches(X) == {t \in [letters : Seq(X), length : Nat] : t.length = 0 => t = NoText}

\* Joining appends the letters, and what is joined gets no shorter.
LEMMA JoinedIs ==
  ASSUME NEW X, NEW a \in Stretches(X), NEW b \in Stretches(X), NEW separator
  PROVE  /\ Joined(a, separator, b) \in Stretches(X)
         /\ Joined(a, separator, b).letters = a.letters \o b.letters
         /\ Joined(a, separator, b).length >= b.length
         /\ Joined(a, separator, b).length >= a.length
         /\ a.length = 0 => Joined(a, separator, b) = b
         /\ a.length # 0 =>
              Joined(a, separator, b).length = a.length + Width(separator) + b.length
<1>1. Width(separator) \in {1, 2}
  BY DEF Width
<1>2. a \in [letters : Seq(X), length : Nat] /\ b \in [letters : Seq(X), length : Nat]
  BY DEF Stretches
<1>3. CASE a = NoText
  <2>1. Joined(a, separator, b) = b /\ a.letters = <<>> /\ a.length = 0
    BY <1>3 DEF Joined, NoText
  <2>2. <<>> \o b.letters = b.letters
    BY <1>2
  <2> QED
    BY <1>2, <2>1, <2>2
<1>4. CASE a # NoText
  <2>. DEFINE c == [letters |-> a.letters \o b.letters, length |-> a.length + Width(separator) + b.length]
  <2>1. Joined(a, separator, b) = c
    BY <1>4 DEF Joined
  <2>2. a.length # 0
    BY <1>4 DEF Stretches
  <2>3. a.length \in Nat /\ b.length \in Nat /\ a.letters \o b.letters \in Seq(X)
    BY <1>2
  <2>4. c.length \in Nat /\ c.length # 0 /\ c.length >= b.length /\ c.length >= a.length
    BY <1>1, <2>2, <2>3
  <2>5. c \in [letters : Seq(X), length : Nat]
    BY <2>3, <2>4
  <2>6. c \in Stretches(X)
    BY <2>4, <2>5 DEF Stretches
  <2>7. c.letters = a.letters \o b.letters /\ c.length = a.length + Width(separator) + b.length
    OBVIOUS
  <2>. HIDE DEF c
  <2> QED
    BY <2>1, <2>2, <2>4, <2>6, <2>7
<1> QED
  BY <1>3, <1>4

\* The greatest element of a set of places.
LEMMA GreatestIn ==
  ASSUME NEW n \in Nat, NEW s \in SUBSET (1 .. n), s # {}
  PROVE  Max(s) \in s /\ \A y \in s : Max(s) >= y
<1>. DEFINE T == {n - x : x \in s}
<1>1. \A x \in s : x \in Int /\ n - x \in Nat
  OBVIOUS
<1>2. T \subseteq Nat /\ T # {}
  BY <1>1
<1>3. Min(T) \in T /\ \A t \in T : Min(T) <= t
  <2>. HIDE DEF T
  <2> QED
    BY <1>2, LeastIs
<1>4. PICK x \in s : Min(T) = n - x
  BY <1>3
<1>5. \A y \in s : x >= y
  <2>1. SUFFICES ASSUME NEW y \in s PROVE x >= y
    OBVIOUS
  <2>2. n - x <= n - y
    BY <1>3, <1>4
  <2> QED
    BY <1>1, <2>2
<1> QED
  BY <1>5 DEF Max

\* f goes through the parts, joining one after the other.
Joins(f, parts, separator) ==
  /\ f[0] = NoText
  /\ \A k \in 1 .. Len(parts) : f[k] = Joined(f[k - 1], separator, parts[k])

\* JoinAll goes through the parts, joining one after the other.
LEMMA JoinsAre ==
  ASSUME NEW X, NEW separator, NEW parts \in Seq(Stretches(X))
  PROVE  \E f \in [0 .. Len(parts) -> Stretches(X)] :
           Joins(f, parts, separator) /\ JoinAll(parts, separator) = f[Len(parts)]
<1>. DEFINE A == Stretches(X)
            n == Len(parts)
            h == [x \in A \X (1 .. n) |-> Joined(x[1], separator, parts[x[2]])]
            IsIt(g) == g = [s \in SUBSET DOMAIN parts |->
                              IF s = {} THEN NoText ELSE Joined(g[s \ {Max(s)}], separator, parts[Max(s)])]
            c == CHOOSE g : IsIt(g)
<1>1. n \in Nat /\ DOMAIN parts = 1 .. n /\ \A k \in 1 .. n : parts[k] \in Stretches(X)
  OBVIOUS
<1>2. NoText \in A
  BY DEF Stretches, NoText
<1>3. \A a \in A, k \in 1 .. n : Joined(a, separator, parts[k]) \in A
  BY <1>1, JoinedIs
<1>4. h \in [A \X (1 .. n) -> A] /\ \A a \in A, k \in 1 .. n : h[<<a, k>>] = Joined(a, separator, parts[k])
  <2>. HIDE DEF A, n
  <2>1. \A x \in A \X (1 .. n) : x[1] \in A /\ x[2] \in 1 .. n
    OBVIOUS
  <2>2. \A x \in A \X (1 .. n) : Joined(x[1], separator, parts[x[2]]) \in A
    BY <1>3, <2>1
  <2> QED
    BY <2>2
<1>. HIDE DEF A, h
<1>5. PICK g \in [SUBSET (1 .. n) -> A] : Folds(g, NoText, h, n)
  <2>. HIDE DEF n
  <2> QED
    BY <1>1, <1>2, <1>4, FoldExists
<1>6. \A s \in SUBSET (1 .. n) : s # {} => Max(s) \in s
  <2>. HIDE DEF n
  <2> QED
    BY <1>1, GreatestIn
<1>7. IsIt(g)
  <2>1. ASSUME NEW s \in SUBSET (1 .. n), s # {}
        PROVE  g[s] = Joined(g[s \ {Max(s)}], separator, parts[Max(s)])
    <3>1. Max(s) \in 1 .. n /\ g[s \ {Max(s)}] \in A /\ g[s] = h[<<g[s \ {Max(s)}], Max(s)>>]
      BY <1>5, <1>6, <2>1 DEF Folds
    <3> QED
      BY <1>4, <3>1
  <2>2. \A s \in SUBSET (1 .. n) :
          g[s] = IF s = {} THEN NoText ELSE Joined(g[s \ {Max(s)}], separator, parts[Max(s)])
    BY <1>5, <2>1 DEF Folds
  <2>. HIDE DEF n
  <2> QED
    BY <1>1, <1>5, <2>2
<1>8. IsIt(c)
  <2>. HIDE DEF IsIt
  <2> QED
    BY <1>7
<1>9. JoinAll(parts, separator) = c[1 .. n]
  <2>1. JoinAll(parts, separator) = c[DOMAIN parts]
    BY DEF JoinAll, FoldLeft, MapThenFoldSet
  <2>. HIDE DEF c, n
  <2> QED
    BY <1>1, <2>1
<1>. HIDE DEF c
<1>10. /\ c[{}] = NoText
       /\ \A s \in SUBSET (1 .. n) : s # {} => c[s] = Joined(c[s \ {Max(s)}], separator, parts[Max(s)])
  <2>. HIDE DEF n
  <2>1. {} \in SUBSET DOMAIN parts
    OBVIOUS
  <2> QED
    BY <1>1, <1>8, <2>1
<1>. HIDE DEF IsIt
<1>. DEFINE f == [k \in 0 .. n |-> c[1 .. k]]
<1>11. f[0] = NoText
  <2>1. 1 .. 0 = {} /\ 0 \in 0 .. n
    BY <1>1
  <2> QED
    BY <1>10, <2>1
<1>12. \A k \in 1 .. n : f[k] = Joined(f[k - 1], separator, parts[k])
  <2>. SUFFICES ASSUME NEW k \in 1 .. n PROVE f[k] = Joined(f[k - 1], separator, parts[k])
    OBVIOUS
  <2>. HIDE DEF n
  <2>1. k - 1 \in Nat /\ k = (k - 1) + 1 /\ k - 1 \in 0 .. n /\ k \in 0 .. n
    BY <1>1
  <2>2. 1 .. k \in SUBSET (1 .. n) /\ 1 .. k # {} /\ (1 .. k) \ {k} = 1 .. k - 1 /\ k \in 1 .. k
    BY <1>1
  <2>3. Max(1 .. k) = k
    BY <2>1, <2>2, LastOfRange
  <2>4. c[1 .. k] = Joined(c[1 .. k - 1], separator, parts[k])
    BY <1>10, <2>2, <2>3
  <2> QED
    BY <2>1, <2>4
<1>13. \A k \in 0 .. n : f[k] \in A
  <2>. DEFINE S == {k \in 0 .. n : f[k] \in A}
  <2>1. 0 \in S
    BY <1>1, <1>2, <1>11
  <2>2. ASSUME NEW k \in 1 .. n, k - 1 \in S PROVE k \in S
    <3>. HIDE DEF f
    <3>1. k \in 0 .. n /\ f[k - 1] \in A
      BY <1>1, <2>2
    <3> QED
      BY <1>3, <1>12, <3>1
  <2>3. 0 .. n \subseteq S
    <3>. HIDE DEF S, n
    <3> QED
      BY <1>1, <2>1, <2>2, UpTo
  <2> QED
    BY <2>3
<1>14. f \in [0 .. n -> A] /\ f[n] = c[1 .. n]
  <2>. HIDE DEF n
  <2>1. n \in 0 .. n
    BY <1>1
  <2> QED
    BY <1>13, <2>1
<1>15. Joins(f, parts, separator)
  <2>. HIDE DEF f
  <2> QED
    BY <1>11, <1>12 DEF Joins
<1>. HIDE DEF f
<1> QED
  BY <1>9, <1>14, <1>15 DEF A

\* The state of the loop of split_text, and its start.
Packings(X) == [pieces : Seq(Stretches(X)), current : Stretches(X)]
NoPacking == [pieces |-> <<>>, current |-> NoText]

\* A packing with one more atom is a packing.
LEMMA PackedIn ==
  ASSUME NEW X, NEW a \in Packings(X), NEW b \in Stretches(X)
  PROVE  Packed(a, b) \in Packings(X)
<1>1. Joined(a.current, Paragraph, b) \in Stretches(X)
  BY JoinedIs DEF Packings
<1>2. Append(a.pieces, a.current) \in Seq(Stretches(X))
  BY DEF Packings
<1> QED
  BY <1>1, <1>2 DEF Packed, Packings

\* f goes through the atoms, packing one after the other.
Packs(f, atoms) ==
  /\ f[0] = NoPacking
  /\ \A k \in 1 .. Len(atoms) : f[k] = Packed(f[k - 1], atoms[k])

\* The loop of split_text goes through the atoms, packing one after the other.
LEMMA PacksAre ==
  ASSUME NEW X, NEW atoms \in Seq(Stretches(X))
  PROVE  \E f \in [0 .. Len(atoms) -> Packings(X)] :
           Packs(f, atoms) /\ FoldLeft(Packed, NoPacking, atoms) = f[Len(atoms)]
<1>. DEFINE A == Packings(X)
            n == Len(atoms)
            h == [x \in A \X (1 .. n) |-> Packed(x[1], atoms[x[2]])]
            IsIt(g) == g = [s \in SUBSET DOMAIN atoms |->
                              IF s = {} THEN NoPacking ELSE Packed(g[s \ {Max(s)}], atoms[Max(s)])]
            c == CHOOSE g : IsIt(g)
<1>1. n \in Nat /\ DOMAIN atoms = 1 .. n /\ \A k \in 1 .. n : atoms[k] \in Stretches(X)
  OBVIOUS
<1>2. NoPacking \in A
  BY DEF Packings, NoPacking, Stretches, NoText
<1>3. \A a \in A, k \in 1 .. n : Packed(a, atoms[k]) \in A
  BY <1>1, PackedIn
<1>4. h \in [A \X (1 .. n) -> A] /\ \A a \in A, k \in 1 .. n : h[<<a, k>>] = Packed(a, atoms[k])
  <2>. HIDE DEF A, n
  <2>1. \A x \in A \X (1 .. n) : x[1] \in A /\ x[2] \in 1 .. n
    OBVIOUS
  <2>2. \A x \in A \X (1 .. n) : Packed(x[1], atoms[x[2]]) \in A
    BY <1>3, <2>1
  <2> QED
    BY <2>2
<1>. HIDE DEF A, h
<1>5. PICK g \in [SUBSET (1 .. n) -> A] : Folds(g, NoPacking, h, n)
  <2>. HIDE DEF n
  <2> QED
    BY <1>1, <1>2, <1>4, FoldExists
<1>6. \A s \in SUBSET (1 .. n) : s # {} => Max(s) \in s
  <2>. HIDE DEF n
  <2> QED
    BY <1>1, GreatestIn
<1>7. IsIt(g)
  <2>1. ASSUME NEW s \in SUBSET (1 .. n), s # {} PROVE g[s] = Packed(g[s \ {Max(s)}], atoms[Max(s)])
    <3>1. Max(s) \in 1 .. n /\ g[s \ {Max(s)}] \in A /\ g[s] = h[<<g[s \ {Max(s)}], Max(s)>>]
      BY <1>5, <1>6, <2>1 DEF Folds
    <3> QED
      BY <1>4, <3>1
  <2>2. \A s \in SUBSET (1 .. n) : g[s] = IF s = {} THEN NoPacking ELSE Packed(g[s \ {Max(s)}], atoms[Max(s)])
    BY <1>5, <2>1 DEF Folds
  <2>. HIDE DEF n
  <2> QED
    BY <1>1, <1>5, <2>2
<1>8. IsIt(c)
  <2>. HIDE DEF IsIt
  <2> QED
    BY <1>7
<1>9. FoldLeft(Packed, NoPacking, atoms) = c[1 .. n]
  <2>1. FoldLeft(Packed, NoPacking, atoms) = c[DOMAIN atoms]
    BY DEF FoldLeft, MapThenFoldSet
  <2>. HIDE DEF c, n
  <2> QED
    BY <1>1, <2>1
<1>. HIDE DEF c
<1>10. /\ c[{}] = NoPacking
       /\ \A s \in SUBSET (1 .. n) : s # {} => c[s] = Packed(c[s \ {Max(s)}], atoms[Max(s)])
  <2>. HIDE DEF n
  <2>1. {} \in SUBSET DOMAIN atoms
    OBVIOUS
  <2> QED
    BY <1>1, <1>8, <2>1
<1>. HIDE DEF IsIt
<1>. DEFINE f == [k \in 0 .. n |-> c[1 .. k]]
<1>11. f[0] = NoPacking
  <2>1. 1 .. 0 = {} /\ 0 \in 0 .. n
    BY <1>1
  <2> QED
    BY <1>10, <2>1
<1>12. \A k \in 1 .. n : f[k] = Packed(f[k - 1], atoms[k])
  <2>. SUFFICES ASSUME NEW k \in 1 .. n PROVE f[k] = Packed(f[k - 1], atoms[k])
    OBVIOUS
  <2>. HIDE DEF n
  <2>1. k - 1 \in Nat /\ k = (k - 1) + 1 /\ k - 1 \in 0 .. n /\ k \in 0 .. n
    BY <1>1
  <2>2. 1 .. k \in SUBSET (1 .. n) /\ 1 .. k # {} /\ (1 .. k) \ {k} = 1 .. k - 1 /\ k \in 1 .. k
    BY <1>1
  <2>3. Max(1 .. k) = k
    BY <2>1, <2>2, LastOfRange
  <2>4. c[1 .. k] = Packed(c[1 .. k - 1], atoms[k])
    BY <1>10, <2>2, <2>3
  <2> QED
    BY <2>1, <2>4
<1>13. \A k \in 0 .. n : f[k] \in A
  <2>. DEFINE S == {k \in 0 .. n : f[k] \in A}
  <2>1. 0 \in S
    BY <1>1, <1>2, <1>11
  <2>2. ASSUME NEW k \in 1 .. n, k - 1 \in S PROVE k \in S
    <3>. HIDE DEF f
    <3>1. k \in 0 .. n /\ f[k - 1] \in A
      BY <1>1, <2>2
    <3> QED
      BY <1>3, <1>12, <3>1
  <2>3. 0 .. n \subseteq S
    <3>. HIDE DEF S, n
    <3> QED
      BY <1>1, <2>1, <2>2, UpTo
  <2> QED
    BY <2>3
<1>14. f \in [0 .. n -> A] /\ f[n] = c[1 .. n]
  <2>. HIDE DEF n
  <2>1. n \in 0 .. n
    BY <1>1
  <2> QED
    BY <1>13, <2>1
<1>15. Packs(f, atoms)
  <2>. HIDE DEF f
  <2> QED
    BY <1>11, <1>12 DEF Packs
<1>. HIDE DEF f
<1> QED
  BY <1>9, <1>14, <1>15 DEF A

-----------------------------------------------------------------------------
(* Letters of sequences of stretches. *)

\* Whatever appends one sequence after the other comes to what FlattenSeq does.
LEMMA FlattenIsOne ==
  ASSUME NEW X, NEW seqs \in Seq(Seq(X)), NEW g, Appends(g, seqs)
  PROVE  FlattenSeq(seqs) = g[Len(seqs)] /\ FlattenSeq(seqs) \in Seq(X)
<1>. DEFINE n == Len(seqs)
<1>1. n \in Nat /\ n \in 0 .. n
  OBVIOUS
<1>2. PICK f \in [0 .. n -> Seq(X)] : Appends(f, seqs) /\ FlattenSeq(seqs) = f[n]
  BY FlattenIs
<1>. DEFINE S == {k \in 0 .. n : f[k] = g[k]}
<1>3. 0 \in S
  BY <1>1, <1>2 DEF Appends
<1>4. ASSUME NEW k \in 1 .. n, k - 1 \in S PROVE k \in S
  <2>1. k \in 0 .. n /\ f[k - 1] = g[k - 1]
    BY <1>1, <1>4
  <2>2. f[k] = f[k - 1] \o seqs[k] /\ g[k] = g[k - 1] \o seqs[k]
    BY <1>2 DEF Appends
  <2> QED
    BY <2>1, <2>2
<1>5. 0 .. n \subseteq S
  <2>. HIDE DEF n, S
  <2> QED
    BY <1>1, <1>3, <1>4, UpTo
<1> QED
  BY <1>1, <1>2, <1>5

\* The letters of a sequence of stretches.
LettersOf(q) == [k \in DOMAIN q |-> q[k].letters]
Letters(q) == FlattenSeq(LettersOf(q))

\* The letters of stretches are sequences of letters, and so are all of them in a row.
LEMMA LettersTyped ==
  ASSUME NEW X, NEW q \in Seq(Stretches(X))
  PROVE  /\ LettersOf(q) \in Seq(Seq(X)) /\ Len(LettersOf(q)) = Len(q)
         /\ \A k \in 1 .. Len(q) : LettersOf(q)[k] = q[k].letters /\ q[k].letters \in Seq(X)
         /\ Letters(q) \in Seq(X)
<1>1. DOMAIN q = 1 .. Len(q) /\ Len(q) \in Nat /\ \A k \in 1 .. Len(q) : q[k] \in Stretches(X)
  OBVIOUS
<1>2. \A k \in 1 .. Len(q) : q[k].letters \in Seq(X)
  BY <1>1 DEF Stretches
<1>3. LettersOf(q) = [k \in 1 .. Len(q) |-> q[k].letters]
  BY <1>1 DEF LettersOf
<1>4. LettersOf(q) \in Seq(Seq(X)) /\ Len(LettersOf(q)) = Len(q)
  BY <1>1, <1>2, <1>3
<1>5. Letters(q) \in Seq(X)
  <2>1. PICK f \in [0 .. Len(LettersOf(q)) -> Seq(X)] : FlattenSeq(LettersOf(q)) = f[Len(LettersOf(q))]
    BY <1>4, FlattenIs
  <2>2. Len(LettersOf(q)) \in 0 .. Len(LettersOf(q))
    BY <1>1, <1>4
  <2> QED
    BY <2>1, <2>2 DEF Letters
<1> QED
  BY <1>2, <1>3, <1>4, <1>5

\* f goes through the stretches, appending the letters of one after the other.
Spells(f, q) ==
  /\ f[0] = <<>>
  /\ \A k \in 1 .. Len(q) : f[k] = f[k - 1] \o q[k].letters

\* Letters spells,
LEMMA SpellingIs ==
  ASSUME NEW X, NEW q \in Seq(Stretches(X))
  PROVE  \E f \in [0 .. Len(q) -> Seq(X)] : Spells(f, q) /\ Letters(q) = f[Len(q)]
<1>1. LettersOf(q) \in Seq(Seq(X)) /\ Len(LettersOf(q)) = Len(q)
      /\ \A k \in 1 .. Len(q) : LettersOf(q)[k] = q[k].letters
  BY LettersTyped
<1>2. PICK f \in [0 .. Len(LettersOf(q)) -> Seq(X)] :
             Appends(f, LettersOf(q)) /\ FlattenSeq(LettersOf(q)) = f[Len(LettersOf(q))]
  BY <1>1, FlattenIs
<1>3. Spells(f, q)
  BY <1>1, <1>2 DEF Appends, Spells
<1> QED
  BY <1>1, <1>2, <1>3 DEF Letters

\* and whatever spells comes to the same.
LEMMA SpellingIsOne ==
  ASSUME NEW X, NEW q \in Seq(Stretches(X)), NEW g, Spells(g, q)
  PROVE  Letters(q) = g[Len(q)]
<1>1. LettersOf(q) \in Seq(Seq(X)) /\ Len(LettersOf(q)) = Len(q)
      /\ \A k \in 1 .. Len(q) : LettersOf(q)[k] = q[k].letters
  BY LettersTyped
<1>2. Appends(g, LettersOf(q))
  BY <1>1 DEF Appends, Spells
<1> QED
  BY <1>1, <1>2, FlattenIsOne DEF Letters

\* Joining keeps the letters.
LEMMA JoinKeepsLetters ==
  ASSUME NEW X, NEW separator, NEW parts \in Seq(Stretches(X))
  PROVE  /\ JoinAll(parts, separator) \in Stretches(X)
         /\ JoinAll(parts, separator).letters = Letters(parts)
<1>. DEFINE n == Len(parts)
<1>1. /\ n \in Nat /\ n \in 0 .. n
      /\ \A k \in 1 .. n : parts[k] \in Stretches(X) /\ k - 1 \in 0 .. n /\ k \in 0 .. n
  OBVIOUS
<1>2. PICK f \in [0 .. n -> Stretches(X)] :
             Joins(f, parts, separator) /\ JoinAll(parts, separator) = f[n]
  BY JoinsAre, ZenonT(30)
<1>. DEFINE g == [k \in 0 .. n |-> f[k].letters]
<1>3. Spells(g, parts)
  <2>2. g[0] = <<>>
    BY <1>1, <1>2 DEF Joins, NoText
  <2>3. ASSUME NEW k \in 1 .. n PROVE g[k] = g[k - 1] \o parts[k].letters
    <3>1. f[k] = Joined(f[k - 1], separator, parts[k]) /\ f[k - 1] \in Stretches(X)
      BY <1>1, <1>2 DEF Joins
    <3>2. f[k].letters = f[k - 1].letters \o parts[k].letters
      BY <1>1, <3>1, JoinedIs
    <3> QED
      BY <1>1, <3>2
  <2>. HIDE DEF g
  <2> QED
    BY <2>2, <2>3 DEF Spells
<1>4. Letters(parts) = g[n]
  <2>. HIDE DEF g
  <2> QED
    BY <1>3, SpellingIsOne
<1> QED
  BY <1>1, <1>2, <1>4

\* The letters of no stretch,
LEMMA LettersOfNone == Letters(<<>>) = <<>>
BY DEF Letters, LettersOf, FlattenSeq

\* of one alone,
LEMMA LettersOfOne ==
  ASSUME NEW X, NEW t \in Stretches(X)
  PROVE  Letters(<<t>>) = t.letters
<1>1. <<t>> \in Seq(Stretches(X)) /\ Len(<<t>>) = 1 /\ t.letters \in Seq(X)
  BY DEF Stretches
<1>. DEFINE g == [k \in 0 .. 1 |-> IF k = 0 THEN <<>> ELSE t.letters]
<1>2. g[0] = <<>> /\ g[1] = t.letters
  OBVIOUS
<1>. HIDE DEF g
<1>3. Spells(g, <<t>>)
  <2>1. \A k \in 1 .. 1 : k = 1 /\ k - 1 = 0
    OBVIOUS
  <2>2. t.letters = <<>> \o t.letters /\ <<t>>[1] = t
    BY <1>1
  <2> QED
    BY <1>1, <1>2, <2>1, <2>2 DEF Spells
<1> QED
  BY <1>1, <1>2, <1>3, SpellingIsOne

\* and of one sequence of stretches after the other.
LEMMA LettersOfTwo ==
  ASSUME NEW X, NEW q \in Seq(Stretches(X)), NEW r \in Seq(Stretches(X))
  PROVE  Letters(q \o r) = Letters(q) \o Letters(r)
<1>. DEFINE m == Len(q)
            n == Len(r)
            qr == q \o r
<1>1. m \in Nat /\ n \in Nat /\ qr \in Seq(Stretches(X)) /\ Len(qr) = m + n
  OBVIOUS
<1>2. /\ \A k \in 1 .. m + n : k <= m => k \in 1 .. m /\ qr[k] = q[k]
      /\ \A k \in 1 .. m + n : k > m => k - m \in 1 .. n /\ qr[k] = r[k - m]
  OBVIOUS
<1>. HIDE DEF qr
<1>3. PICK f \in [0 .. m -> Seq(X)] : Spells(f, q) /\ Letters(q) = f[m]
  BY SpellingIs
<1>4. PICK g \in [0 .. n -> Seq(X)] : Spells(g, r) /\ Letters(r) = g[n]
  BY SpellingIs
<1>5. /\ f[0] = <<>> /\ \A k \in 1 .. m : f[k] = f[k - 1] \o q[k].letters
      /\ g[0] = <<>> /\ \A k \in 1 .. n : g[k] = g[k - 1] \o r[k].letters
  BY <1>3, <1>4 DEF Spells
<1>. DEFINE e == [k \in 0 .. m + n |-> IF k <= m THEN f[k] ELSE f[m] \o g[k - m]]
<1>. HIDE DEF m, n
<1>6. \A k \in 1 .. n : g[k - 1] \in Seq(X) /\ r[k].letters \in Seq(X)
  <2>1. \A k \in 1 .. n : k - 1 \in 0 .. n
    BY <1>1
  <2>2. \A k \in 1 .. n : r[k].letters \in Seq(X)
    BY LettersTyped DEF n
  <2> QED
    BY <1>4, <2>1, <2>2
<1>7. f[m] \in Seq(X)
  BY <1>1, <1>3
<1>a. \A a, b, c \in Seq(X) : a \o (b \o c) = (a \o b) \o c
  BY ConcatAssociative, SMTT(20)
<1>8. ASSUME NEW k \in 1 .. m + n PROVE e[k] = e[k - 1] \o qr[k].letters
  <2>1. k \in 0 .. m + n /\ k - 1 \in 0 .. m + n
    BY <1>1
  <2>2. CASE k <= m
    <3>1. e[k] = f[k] /\ e[k - 1] = f[k - 1] /\ k \in 1 .. m
      BY <1>1, <2>1, <2>2
    <3> QED
      BY <1>2, <1>5, <2>2, <3>1
  <2>3. CASE k > m
    <3>. DEFINE j == k - m
    <3>1. j \in 1 .. n /\ qr[k] = r[j] /\ ~(k <= m)
      BY <1>1, <1>2, <2>3
    <3>2. e[k] = f[m] \o g[j]
      BY <2>1, <3>1
    <3>3. e[k - 1] = f[m] \o g[j - 1]
      <4>1. CASE k - 1 <= m
        <5>1. k - 1 = m /\ j - 1 = 0
          BY <1>1, <2>3, <4>1
        <5>2. e[k - 1] = f[m] /\ g[j - 1] = <<>>
          BY <1>1, <1>5, <2>1, <4>1, <5>1
        <5> QED
          BY <1>7, <5>2
      <4>2. CASE ~(k - 1 <= m)
        <5>1. (k - 1) - m = j - 1
          BY <1>1
        <5> QED
          BY <2>1, <4>2, <5>1
      <4> QED
        BY <4>1, <4>2
    <3>. HIDE DEF j, e
    <3>4. g[j] = g[j - 1] \o r[j].letters /\ g[j - 1] \in Seq(X) /\ r[j].letters \in Seq(X)
      BY <1>5, <1>6, <3>1
    <3>5. f[m] \o (g[j - 1] \o r[j].letters) = (f[m] \o g[j - 1]) \o r[j].letters
      BY <1>7, <3>4, <1>a
    <3> QED
      BY <3>1, <3>2, <3>3, <3>4, <3>5
  <2>4. k <= m \/ k > m
    BY <1>1
  <2>. HIDE DEF e
  <2> QED
    BY <2>2, <2>3, <2>4
<1>9. e[0] = <<>> /\ e[m + n] = Letters(q) \o Letters(r)
  <2>1. e[0] = <<>>
    BY <1>1, <1>5
  <2>2. CASE n = 0
    <3>1. e[m + n] = f[m] /\ g[n] = <<>>
      BY <1>1, <1>5, <2>2
    <3> QED
      BY <1>3, <1>4, <1>7, <2>1, <3>1
  <2>3. CASE n # 0
    <3>1. ~(m + n <= m) /\ (m + n) - m = n /\ m + n \in 0 .. m + n
      BY <1>1, <2>3
    <3> QED
      BY <1>3, <1>4, <2>1, <3>1
  <2> QED
    BY <2>2, <2>3
<1>. HIDE DEF e
<1>10. Spells(e, qr)
  BY <1>1, <1>8, <1>9 DEF Spells
<1>11. Letters(qr) = e[m + n]
  BY <1>1, <1>10, SpellingIsOne
<1> QED
  BY <1>9, <1>11 DEF qr

\* Rows of stretches, laid end to end, have the letters of any parts the rows have
\* the letters of.
LEMMA RowsSpell ==
  ASSUME NEW X, NEW rows \in Seq(Seq(Stretches(X))), NEW parts \in Seq(Stretches(X)),
         Len(parts) = Len(rows), \A k \in 1 .. Len(rows) : Letters(rows[k]) = parts[k].letters
  PROVE  FlattenSeq(rows) \in Seq(Stretches(X)) /\ Letters(FlattenSeq(rows)) = Letters(parts)
<1>. DEFINE n == Len(rows)
<1>1. /\ n \in Nat /\ n \in 0 .. n
      /\ \A k \in 1 .. n : k \in 0 .. n /\ k - 1 \in 0 .. n /\ rows[k] \in Seq(Stretches(X))
  OBVIOUS
<1>2. PICK f \in [0 .. n -> Seq(Stretches(X))] : Appends(f, rows) /\ FlattenSeq(rows) = f[n]
  BY FlattenIs
<1>. DEFINE g == [k \in 0 .. n |-> Letters(f[k])]
<1>3. g[0] = <<>>
  BY <1>1, <1>2, LettersOfNone DEF Appends
<1>4. ASSUME NEW k \in 1 .. n PROVE g[k] = g[k - 1] \o parts[k].letters
  <2>1. f[k] = f[k - 1] \o rows[k] /\ f[k - 1] \in Seq(Stretches(X))
    BY <1>1, <1>2 DEF Appends
  <2>2. Letters(f[k]) = Letters(f[k - 1]) \o Letters(rows[k])
    BY <1>1, <2>1, LettersOfTwo
  <2> QED
    BY <1>1, <2>2
<1>5. g[n] = Letters(FlattenSeq(rows)) /\ f[n] \in Seq(Stretches(X))
  BY <1>1, <1>2
<1>. HIDE DEF g
<1>6. Spells(g, parts)
  BY <1>3, <1>4 DEF Spells
<1> QED
  BY <1>2, <1>5, <1>6, SpellingIsOne

\* A sentence is as long as it has letters, and has one.
IsSentence(t) == Len(t.letters) = t.length /\ t.length # 0

\* As many parts of size b as a has room for, the last one perhaps not full.
LEMMA RoundingUp ==
  ASSUME NEW a \in Nat, NEW b \in Nat \ {0}
  PROVE  /\ (a + b - 1) \div b \in Nat
         /\ a <= ((a + b - 1) \div b) * b
         /\ \A k \in 1 .. (a + b - 1) \div b : (k - 1) * b \in Nat /\ (k - 1) * b + 1 <= a
                                              /\ k * b = (k - 1) * b + b
<1>. DEFINE q == (a + b - 1) \div b
<1>1. a + b - 1 \in Nat
  OBVIOUS
<1>2. q \in Nat /\ b * q <= a + b - 1 /\ a + b - 1 < b * q + b
  BY <1>1
<1>. HIDE DEF q
<1>3. b * q = q * b /\ q * b \in Nat
  BY <1>2
<1>4. a <= q * b
  BY <1>2, <1>3
<1>5. ASSUME NEW k \in 1 .. q
      PROVE  (k - 1) * b \in Nat /\ (k - 1) * b + 1 <= a /\ k * b = (k - 1) * b + b
  <2>1. PICK d \in Nat : q = k + d
    <3>1. q - k \in Nat /\ q = k + (q - k)
      BY <1>2
    <3> QED
      BY <3>1
  <2>2. k - 1 \in Nat /\ k * b = (k - 1) * b + b /\ (k - 1) * b \in Nat /\ d * b \in Nat
    OBVIOUS
  <2>3. q * b = (k - 1) * b + b + d * b
    BY <2>1, <2>2
  <2> QED
    BY <1>2, <1>3, <2>2, <2>3
<1> QED
  BY <1>2, <1>4, <1>5 DEF q

-----------------------------------------------------------------------------
(* Slices. *)

USE ChunksAssumption

\* The lesser of two numbers.
LEMMA MinOfTwo ==
  ASSUME NEW a \in Int, NEW b \in Int
  PROVE  Min({a, b}) = IF a <= b THEN a ELSE b
<1>1. CASE a <= b
  <2>1. \A x \in {a, b} : (\A y \in {a, b} : x <= y) => x = a
    BY <1>1
  <2>2. \A y \in {a, b} : a <= y
    BY <1>1
  <2> QED
    BY <1>1, <2>1, <2>2 DEF Min
<1>2. CASE ~(a <= b)
  <2>1. \A x \in {a, b} : (\A y \in {a, b} : x <= y) => x = b
    BY <1>2
  <2>2. \A y \in {a, b} : b <= y
    BY <1>2
  <2> QED
    BY <1>2, <2>1, <2>2 DEF Min
<1> QED
  BY <1>1, <1>2

\* The slices of a sentence keep its letters, and none is empty or over the budget.
LEMMA SlicesKeepLetters ==
  ASSUME NEW X, NEW t \in Stretches(X), IsSentence(t)
  PROVE  /\ Slices(t) \in Seq(Stretches(X))
         /\ \A k \in 1 .. Len(Slices(t)) : Slices(t)[k].length \in 1 .. Budget
         /\ Letters(Slices(t)) = t.letters
<1>. DEFINE L == t.length
            w == t.letters
            B == Budget
            n == (L + B - 1) \div B
            to(k) == Min({k * B, L})
            cut(k) == SubSeq(w, (k - 1) * B + 1, to(k))
            slice(k) == [letters |-> cut(k), length |-> Len(cut(k))]
<1>1. B \in Nat \ {0} /\ L \in Nat \ {0} /\ w \in Seq(X) /\ Len(w) = L
  BY DEF ChunksAssumption, Stretches, IsSentence
<1>2. Slices(t) = [k \in 1 .. n |-> slice(k)]
  BY DEF Slices
<1>. HIDE DEF L, w, B
<1>3. /\ n \in Nat /\ L <= n * B
      /\ \A k \in 1 .. n : (k - 1) * B \in Nat /\ (k - 1) * B + 1 <= L /\ k * B = (k - 1) * B + B
  BY <1>1, RoundingUp
<1>. HIDE DEF n
<1>4. \A k \in 1 .. n : to(k) \in Nat /\ to(k) <= L /\ to(k) <= (k - 1) * B + B
                        /\ to(k) >= (k - 1) * B + 1
  <2>. SUFFICES ASSUME NEW k \in 1 .. n
                PROVE  to(k) \in Nat /\ to(k) <= L /\ to(k) <= (k - 1) * B + B
                       /\ to(k) >= (k - 1) * B + 1
    OBVIOUS
  <2>. DEFINE m == (k - 1) * B
  <2>1. m \in Nat /\ m + 1 <= L /\ k * B = m + B
    BY <1>3
  <2>2. to(k) = IF m + B <= L THEN m + B ELSE L
    <3>1. to(k) = Min({m + B, L})
      BY <2>1
    <3>. HIDE DEF m, to
    <3>2. m + B \in Int /\ L \in Int
      BY <1>1, <2>1
    <3>3. Min({m + B, L}) = IF m + B <= L THEN m + B ELSE L
      BY <3>2, MinOfTwo
    <3> QED
      BY <3>1, <3>3
  <2>. HIDE DEF m
  <2>3. to(k) \in Nat /\ to(k) <= L /\ to(k) <= m + B /\ to(k) >= m + 1
    <3>. HIDE DEF to
    <3> QED
      BY <1>1, <2>1, <2>2
  <2> QED
    BY <2>3 DEF m
<1>. HIDE DEF to
<1>5. \A k \in 1 .. n : cut(k) \in Seq(X) /\ Len(cut(k)) \in 1 .. B
  <2>. SUFFICES ASSUME NEW k \in 1 .. n PROVE cut(k) \in Seq(X) /\ Len(cut(k)) \in 1 .. B
    OBVIOUS
  <2>. DEFINE m == (k - 1) * B
  <2>1. m \in Nat /\ to(k) \in Nat /\ to(k) <= L /\ to(k) <= m + B /\ to(k) >= m + 1
    BY <1>3, <1>4
  <2>. HIDE DEF m
  <2>2. \A i \in m + 1 .. to(k) : i \in 1 .. L /\ w[i] \in X
    BY <1>1, <2>1
  <2>3. SubSeq(w, m + 1, to(k)) \in Seq(X) /\ Len(SubSeq(w, m + 1, to(k))) = to(k) - (m + 1) + 1
    BY <2>1, <2>2, SubSeqProperties
  <2>4. to(k) - (m + 1) + 1 \in 1 .. B
    BY <1>1, <2>1
  <2> QED
    BY <2>3, <2>4 DEF m
<1>6. ASSUME NEW k \in 1 .. n
      PROVE slice(k) \in Stretches(X) /\ slice(k).length \in 1 .. B /\ slice(k).letters = cut(k)
  <2>. HIDE DEF cut
  <2>1. Len(cut(k)) \in Nat /\ Len(cut(k)) # 0 /\ cut(k) \in Seq(X)
    BY <1>1, <1>5
  <2> QED
    BY <1>5, <2>1 DEF Stretches
<1>7. Slices(t) \in Seq(Stretches(X)) /\ Len(Slices(t)) = n
      /\ \A k \in 1 .. n : Slices(t)[k].length \in 1 .. B /\ Slices(t)[k].letters = cut(k)
  <2>. HIDE DEF slice
  <2>1. [k \in 1 .. n |-> slice(k)] \in Seq(Stretches(X))
    BY <1>3, <1>6
  <2> QED
    BY <1>2, <1>3, <1>6, <2>1
<1>. DEFINE g == [k \in 0 .. n |-> SubSeq(w, 1, IF k = 0 THEN 0 ELSE to(k))]
<1>8. g[0] = <<>>
  <2>1. 0 \in 0 .. n
    BY <1>3
  <2> QED
    BY <2>1, SubSeqEmpty
<1>9. ASSUME NEW k \in 1 .. n PROVE g[k] = g[k - 1] \o Slices(t)[k].letters
  <2>. DEFINE m == (k - 1) * B
  <2>1. k \in 0 .. n /\ k - 1 \in 0 .. n /\ k # 0
    BY <1>3
  <2>2. m \in Nat /\ m + 1 <= L /\ to(k) \in Nat /\ to(k) <= L /\ to(k) >= m + 1
    BY <1>3, <1>4
  <2>3. g[k - 1] = SubSeq(w, 1, m)
    <3>1. CASE k - 1 = 0
      <4>1. m = 0
        BY <1>1, <3>1
      <4> QED
        BY <2>1, <3>1, <4>1
    <3>2. CASE k - 1 # 0
      <4>1. Min({(k - 1) * B, L}) = (k - 1) * B
        <5>. HIDE DEF m
        <5>1. Min({m, L}) = IF m <= L THEN m ELSE L
          BY <1>1, <2>2, MinOfTwo
        <5> QED
          BY <1>1, <2>2, <5>1 DEF m
      <4>2. to(k - 1) = m
        BY <4>1 DEF to
      <4> QED
        BY <2>1, <3>2, <4>2
    <3> QED
      BY <3>1, <3>2
  <2>4. Slices(t)[k].letters = SubSeq(w, m + 1, to(k)) /\ g[k] = SubSeq(w, 1, to(k))
    BY <1>7, <2>1
  <2>. HIDE DEF m, g
  <2>5. 1 \in 1 .. Len(w) + 1 /\ m \in 1 - 1 .. Len(w) /\ to(k) \in m .. Len(w)
    BY <1>1, <2>2
  <2>6. SubSeq(w, 1, m) \o SubSeq(w, m + 1, to(k)) = SubSeq(w, 1, to(k))
    BY <1>1, <2>5, ConcatAdjacentSubSeq
  <2> QED
    BY <2>3, <2>4, <2>6
<1>10. g[n] = w
  <2>1. n # 0 /\ n \in 0 .. n
    <3>1. 0 * B = 0
      BY <1>1
    <3> QED
      BY <1>1, <1>3, <3>1
  <2>2. Min({n * B, L}) = L
    <3>. DEFINE m == n * B
    <3>1. m \in Nat /\ L <= m
      BY <1>1, <1>3
    <3>. HIDE DEF m
    <3>2. Min({m, L}) = IF m <= L THEN m ELSE L
      BY <1>1, <3>1, MinOfTwo
    <3>3. Min({m, L}) = L
      BY <1>1, <3>1, <3>2
    <3> QED
      BY <3>3 DEF m
  <2>3. g[n] = SubSeq(w, 1, Len(w))
    BY <1>1, <2>1, <2>2 DEF to
  <2>. HIDE DEF g
  <2> QED
    BY <1>1, <2>3, SubSeqFull
<1>. HIDE DEF g, cut
<1>11. Spells(g, Slices(t))
  BY <1>7, <1>8, <1>9 DEF Spells
<1>12. Letters(Slices(t)) = g[n]
  BY <1>7, <1>11, SpellingIsOne
<1> QED
  BY <1>7, <1>10, <1>12 DEF B, w

-----------------------------------------------------------------------------
(* Sentences, paragraphs, atoms. *)

\* A letter is known by its place.
Letter == ToSet(FieldOrder) \X Nat \X Nat \X Nat

\* The sentences of a text.
Sentences == {t \in Stretches(Letter) : IsSentence(t)}

\* What Sentence builds from a text is one.
LEMMA SentenceIs ==
  ASSUME ChunksTypeOK, NEW f \in ToSet(FieldOrder), NEW p \in DOMAIN text[f],
         NEW s \in DOMAIN text[f][p]
  PROVE  Sentence(f, p, s) \in Sentences
<1>1. text[f] \in Seq(Seq(Nat \ {0}))
  BY DEF ChunksTypeOK, ChunksAssumption
<1>2. p \in Nat /\ text[f][p] \in Seq(Nat \ {0})
  BY <1>1
<1>3. s \in Nat /\ text[f][p][s] \in Nat \ {0}
  BY <1>2
<1>. DEFINE n == text[f][p][s]
            w == [i \in 1 .. n |-> <<f, p, s, i>>]
<1>4. n \in Nat \ {0} /\ \A i \in 1 .. n : <<f, p, s, i>> \in Letter
  BY <1>2, <1>3, SMTT(20) DEF Letter
<1>5. Sentence(f, p, s) = [letters |-> w, length |-> n]
  BY DEF Sentence
<1>. HIDE DEF n
<1>6. w \in Seq(Letter) /\ Len(w) = n
  BY <1>4
<1>. HIDE DEF w
<1>7. Sentence(f, p, s) \in Stretches(Letter) /\ IsSentence(Sentence(f, p, s))
  BY <1>4, <1>5, <1>6 DEF Stretches, IsSentence
<1> QED
  BY <1>7 DEF Sentences

\* The paragraphs of a fragment are sequences of sentences.
LEMMA ResolvedIs == ASSUME ChunksTypeOK PROVE Resolved \in Seq(Seq(Sentences))
<1>. DEFINE paragraph(f, p) == [s \in DOMAIN text[f][p] |-> Sentence(f, p, s)]
            paragraphs(f) == [p \in DOMAIN text[f] |-> paragraph(f, p)]
            all == [n \in DOMAIN FieldOrder |-> paragraphs(FieldOrder[n])]
<1>1. FieldOrder \in Seq(ToSet(FieldOrder))
  BY DEF ChunksAssumption
<1>2. ASSUME NEW f \in ToSet(FieldOrder) PROVE paragraphs(f) \in Seq(Seq(Sentences))
  <2>1. text[f] \in Seq(Seq(Nat \ {0}))
    BY DEF ChunksTypeOK, ChunksAssumption
  <2>2. ASSUME NEW p \in DOMAIN text[f] PROVE paragraph(f, p) \in Seq(Sentences)
    <3>1. text[f][p] \in Seq(Nat \ {0})
      BY <2>1
    <3>. DEFINE n == Len(text[f][p])
                e(s) == Sentence(f, p, s)
    <3>2. n \in Nat /\ DOMAIN text[f][p] = 1 .. n
      BY <3>1
    <3>3. \A s \in 1 .. n : e(s) \in Sentences
      BY <3>2, SentenceIs
    <3>4. paragraph(f, p) = [s \in 1 .. n |-> e(s)]
      BY <3>2
    <3>. HIDE DEF n, e, paragraph
    <3> QED
      BY <3>2, <3>3, <3>4
  <2>. DEFINE m == Len(text[f])
  <2>3. m \in Nat /\ DOMAIN text[f] = 1 .. m
    BY <2>1
  <2>4. paragraphs(f) = [p \in 1 .. m |-> paragraph(f, p)]
    BY <2>3
  <2>. HIDE DEF m, paragraph, paragraphs
  <2> QED
    BY <2>2, <2>3, <2>4
<1>. DEFINE k == Len(FieldOrder)
<1>3. k \in Nat /\ DOMAIN FieldOrder = 1 .. k /\ \A n \in 1 .. k : FieldOrder[n] \in ToSet(FieldOrder)
  BY <1>1
<1>4. all = [n \in 1 .. k |-> paragraphs(FieldOrder[n])]
  BY <1>3
<1>5. Resolved = FlattenSeq(all)
  BY DEF Resolved
<1>. HIDE DEF paragraph, paragraphs, all, k
<1>6. all \in Seq(Seq(Seq(Sentences)))
  BY <1>2, <1>3, <1>4
<1>7. PICK f \in [0 .. Len(all) -> Seq(Seq(Sentences))] : FlattenSeq(all) = f[Len(all)]
  BY <1>6, FlattenIs
<1>8. Len(all) \in 0 .. Len(all)
  BY <1>6
<1> QED
  BY <1>5, <1>7, <1>8

\* What one paragraph comes to: all of it, or its sentences, or their slices.
AtomsOf(paragraph) ==
  IF JoinAll(paragraph, Space).length <= Budget THEN <<JoinAll(paragraph, Space)>>
  ELSE FlattenSeq([s \in DOMAIN paragraph |->
         IF paragraph[s].length <= Budget THEN <<paragraph[s]>> ELSE Slices(paragraph[s])])

\* Stretches that fit into a piece.
Fitting == {t \in Stretches(Letter) : t.length <= Budget}

\* Stretches that fit are stretches.
LEMMA FittingAre ==
  ASSUME NEW q \in Seq(Fitting)
  PROVE  q \in Seq(Stretches(Letter)) /\ \A k \in 1 .. Len(q) : q[k].length <= Budget
BY DEF Fitting

\* The atoms of a paragraph fit into a piece and have its letters.
LEMMA AtomsOfIs ==
  ASSUME NEW paragraph \in Seq(Sentences)
  PROVE  /\ AtomsOf(paragraph) \in Seq(Fitting)
         /\ JoinAll(paragraph, Space) \in Stretches(Letter)
         /\ Letters(AtomsOf(paragraph)) = JoinAll(paragraph, Space).letters
<1>1. paragraph \in Seq(Stretches(Letter))
  BY DEF Sentences
<1>. DEFINE whole == JoinAll(paragraph, Space)
            row(t) == IF t.length <= Budget THEN <<t>> ELSE Slices(t)
            rows == [s \in DOMAIN paragraph |-> row(paragraph[s])]
<1>2. whole \in Stretches(Letter) /\ whole.letters = Letters(paragraph)
  BY <1>1, JoinKeepsLetters
<1>3. CASE whole.length <= Budget
  <2>1. AtomsOf(paragraph) = <<whole>>
    BY <1>3 DEF AtomsOf
  <2>. HIDE DEF whole
  <2>2. <<whole>> \in Seq(Fitting) /\ Letters(<<whole>>) = whole.letters
    BY <1>2, <1>3, LettersOfOne DEF Fitting
  <2> QED
    BY <1>2, <2>1, <2>2 DEF whole
<1>4. CASE ~(whole.length <= Budget)
  <2>1. ASSUME NEW t \in Sentences
        PROVE  row(t) \in Seq(Fitting) /\ Letters(row(t)) = t.letters
    <3>1. t \in Stretches(Letter) /\ IsSentence(t)
      BY DEF Sentences
    <3>2. CASE t.length <= Budget
      <4>1. t \in Fitting
        BY <3>1, <3>2 DEF Fitting
      <4> QED
        BY <3>1, <3>2, <4>1, LettersOfOne
    <3>3. CASE ~(t.length <= Budget)
      <4>. DEFINE q == Slices(t)
      <4>1. q \in Seq(Stretches(Letter)) /\ (\A k \in 1 .. Len(q) : q[k].length \in 1 .. Budget)
            /\ Letters(q) = t.letters
        BY <3>1, SlicesKeepLetters
      <4>. HIDE DEF q
      <4>2. \A k \in 1 .. Len(q) : q[k] \in Fitting
        <5>1. \A k \in 1 .. Len(q) : q[k] \in Stretches(Letter) /\ q[k].length <= Budget
          BY <4>1 DEF ChunksAssumption
        <5> QED
          BY <5>1 DEF Fitting
      <4>3. q \in Seq(Fitting)
        <5>1. Len(q) \in Nat /\ q = [k \in 1 .. Len(q) |-> q[k]]
          BY <4>1
        <5> QED
          BY <4>2, <5>1
      <4> QED
        BY <3>3, <4>1, <4>3 DEF q
    <3> QED
      BY <3>2, <3>3
  <2>. DEFINE n == Len(paragraph)
  <2>2. n \in Nat /\ DOMAIN paragraph = 1 .. n /\ \A s \in 1 .. n : paragraph[s] \in Sentences
    OBVIOUS
  <2>3. rows = [s \in 1 .. n |-> row(paragraph[s])]
    BY <2>2
  <2>4. AtomsOf(paragraph) = FlattenSeq(rows)
    BY <1>4 DEF AtomsOf
  <2>. HIDE DEF row, rows, whole
  <2>5. rows \in Seq(Seq(Fitting)) /\ Len(rows) = n
        /\ \A s \in 1 .. n : Letters(rows[s]) = paragraph[s].letters /\ rows[s] \in Seq(Fitting)
    BY <2>1, <2>2, <2>3
  <2>6. rows \in Seq(Seq(Stretches(Letter)))
    <3>1. \A s \in 1 .. n : rows[s] \in Seq(Stretches(Letter))
      BY <2>5, FittingAre
    <3>2. rows = [s \in 1 .. n |-> rows[s]]
      BY <2>3
    <3>. HIDE DEF n
    <3> QED
      BY <2>2, <3>1, <3>2
  <2>7. Letters(FlattenSeq(rows)) = Letters(paragraph)
    BY <1>1, <2>5, <2>6, RowsSpell
  <2>8. FlattenSeq(rows) \in Seq(Fitting)
    <3>1. PICK f \in [0 .. Len(rows) -> Seq(Fitting)] : FlattenSeq(rows) = f[Len(rows)]
      BY <2>5, FlattenIs
    <3>2. Len(rows) \in 0 .. Len(rows)
      BY <2>2, <2>5
    <3> QED
      BY <3>1, <3>2
  <2> QED
    BY <1>2, <2>4, <2>7, <2>8 DEF whole
<1> QED
  BY <1>3, <1>4

\* The atoms of a text fit into pieces, and have its letters.
LEMMA AtomsAre ==
  ASSUME ChunksTypeOK
  PROVE  /\ Atoms \in Seq(Fitting)
         /\ WholeText \in Stretches(Letter)
         /\ Letters(Atoms) = WholeText.letters
<1>. DEFINE rows == [p \in DOMAIN Resolved |-> AtomsOf(Resolved[p])]
            parts == [p \in DOMAIN Resolved |-> JoinAll(Resolved[p], Space)]
            n == Len(Resolved)
<1>1. Atoms = FlattenSeq(rows)
  BY DEF Atoms, AtomsOf
<1>2. WholeText = JoinAll(parts, Paragraph)
  BY DEF WholeText
<1>3. n \in Nat /\ DOMAIN Resolved = 1 .. n /\ \A p \in 1 .. n : Resolved[p] \in Seq(Sentences)
  BY ResolvedIs
<1>4. \A p \in 1 .. n : /\ AtomsOf(Resolved[p]) \in Seq(Fitting)
                        /\ AtomsOf(Resolved[p]) \in Seq(Stretches(Letter))
                        /\ JoinAll(Resolved[p], Space) \in Stretches(Letter)
                        /\ Letters(AtomsOf(Resolved[p])) = JoinAll(Resolved[p], Space).letters
  BY <1>3, AtomsOfIs, FittingAre
<1>5. /\ rows = [p \in 1 .. n |-> AtomsOf(Resolved[p])]
      /\ parts = [p \in 1 .. n |-> JoinAll(Resolved[p], Space)]
  BY <1>3
<1>. HIDE DEF rows, parts, n
<1>6. /\ rows \in Seq(Seq(Fitting)) /\ rows \in Seq(Seq(Stretches(Letter))) /\ Len(rows) = n
      /\ parts \in Seq(Stretches(Letter)) /\ Len(parts) = n
      /\ \A p \in 1 .. n : Letters(rows[p]) = parts[p].letters
  BY <1>3, <1>4, <1>5
<1>7. Letters(FlattenSeq(rows)) = Letters(parts)
  <2>1. Len(parts) = Len(rows) /\ \A p \in 1 .. Len(rows) : Letters(rows[p]) = parts[p].letters
    BY <1>6
  <2> QED
    BY <1>6, <2>1, RowsSpell
<1>8. JoinAll(parts, Paragraph) \in Stretches(Letter) /\ JoinAll(parts, Paragraph).letters = Letters(parts)
  BY <1>6, JoinKeepsLetters
<1>9. FlattenSeq(rows) \in Seq(Fitting)
  <2>1. PICK f \in [0 .. Len(rows) -> Seq(Fitting)] : FlattenSeq(rows) = f[Len(rows)]
    BY <1>6, FlattenIs
  <2>2. Len(rows) \in 0 .. Len(rows)
    BY <1>3, <1>6
  <2> QED
    BY <2>1, <2>2
<1> QED
  BY <1>1, <1>2, <1>7, <1>8, <1>9

-----------------------------------------------------------------------------
(* Packing keeps the letters. *)

\* Joining appends the letters.
LEMMA JoinedLetters ==
  ASSUME NEW X, NEW a \in Stretches(X), NEW b \in Stretches(X), NEW separator
  PROVE  Joined(a, separator, b).letters = a.letters \o b.letters
<1>1. CASE a = NoText
  BY <1>1 DEF NoText, Joined, Stretches
<1>2. CASE a # NoText
  BY <1>2 DEF Joined
<1> QED
  BY <1>1, <1>2

\* A packing holds the letters w, in pieces that are not empty and fit.
Holds(packing, w) ==
  /\ Letters(packing.pieces) \o packing.current.letters = w
  /\ packing.current.length <= Budget
  /\ \A k \in 1 .. Len(packing.pieces) : packing.pieces[k].length \in 1 .. Budget

\* An atom opens a new piece behind one that is not empty.
LEMMA PackedEither ==
  ASSUME NEW X, NEW a \in Packings(X), NEW b \in Stretches(X), b.length <= Budget
  PROVE  LET candidate == Joined(a.current, Paragraph, b)
         IN  \/ /\ candidate.length <= Budget
                /\ Packed(a, b).pieces = a.pieces /\ Packed(a, b).current = candidate
             \/ /\ ~(candidate.length <= Budget) /\ a.current.length # 0
                /\ Packed(a, b).pieces = Append(a.pieces, a.current) /\ Packed(a, b).current = b
<1>. DEFINE candidate == Joined(a.current, Paragraph, b)
<1>1. a.current \in Stretches(X) /\ a.pieces \in Seq(Stretches(X))
      /\ a = [pieces |-> a.pieces, current |-> a.current]
  BY DEF Packings
<1>2. a.current.length = 0 => candidate = b
  <2>1. \A u \in Stretches(X) : u.length = 0 => u = NoText
    BY DEF Stretches
  <2> QED
    BY <1>1, <2>1 DEF Joined
<1>3. a.current.length # 0 => a.current # NoText
  BY DEF NoText
<1>. HIDE DEF candidate
<1>4. CASE candidate.length <= Budget
  <2>1. Packed(a, b) = [a EXCEPT !.current = candidate]
    BY <1>4 DEF Packed, candidate
  <2>2. Packed(a, b).pieces = a.pieces /\ Packed(a, b).current = candidate
    BY <1>1, <2>1
  <2> QED
    BY <1>4, <2>2 DEF candidate
<1>5. CASE ~(candidate.length <= Budget)
  <2>1. a.current.length # 0
    BY <1>2, <1>5
  <2>2. Packed(a, b) = [pieces |-> Append(a.pieces, a.current), current |-> b]
    BY <1>3, <1>5, <2>1 DEF Packed, candidate
  <2>3. Packed(a, b).pieces = Append(a.pieces, a.current) /\ Packed(a, b).current = b
    BY <2>2
  <2> QED
    BY <1>5, <2>1, <2>3 DEF candidate
<1> QED
  BY <1>4, <1>5

\* A packing with one more atom holds the letters of that atom too.
LEMMA PackedKeeps ==
  ASSUME NEW X, NEW a \in Packings(X), NEW b \in Stretches(X), b.length <= Budget,
         NEW w, Holds(a, w)
  PROVE  Holds(Packed(a, b), w \o b.letters)
<1>. DEFINE candidate == Joined(a.current, Paragraph, b)
            c == Packed(a, b)
            p == a.pieces
            t == a.current
<1>1. t \in Stretches(X) /\ p \in Seq(Stretches(X))
  BY DEF Packings
<1>2. t.letters \in Seq(X) /\ b.letters \in Seq(X) /\ Letters(p) \in Seq(X)
  BY <1>1, LettersTyped DEF Stretches
<1>3. \A u, v, z \in Seq(X) : (u \o v) \o z = u \o (v \o z)
  BY ConcatAssociative, SMTT(20)
<1>4. w = Letters(p) \o t.letters /\ t.length <= Budget
      /\ \A k \in 1 .. Len(p) : p[k].length \in 1 .. Budget
  BY DEF Holds
<1>5. w \o b.letters = Letters(p) \o (t.letters \o b.letters)
  BY <1>2, <1>3, <1>4
<1>6. Letters(p) \o t.letters \in Seq(X)
  BY <1>2
<1>7. \/ candidate.length <= Budget /\ c.pieces = p /\ c.current = candidate
      \/ t.length # 0 /\ c.pieces = Append(p, t) /\ c.current = b
  BY PackedEither
<1>8. candidate.letters = t.letters \o b.letters
  BY <1>1, JoinedLetters
<1>. HIDE DEF candidate, c, p, t
<1>9. CASE candidate.length <= Budget /\ c.pieces = p /\ c.current = candidate
  <2>1. Letters(c.pieces) \o c.current.letters = w \o b.letters
    BY <1>5, <1>8, <1>9
  <2> QED
    BY <1>4, <1>9, <2>1 DEF Holds, c
<1>10. CASE t.length # 0 /\ c.pieces = Append(p, t) /\ c.current = b
  <2>1. Append(p, t) = p \o <<t>> /\ <<t>> \in Seq(Stretches(X))
    BY <1>1, AppendIsConcat
  <2>2. Letters(Append(p, t)) = Letters(p) \o t.letters
    BY <1>1, <2>1, LettersOfTwo, LettersOfOne
  <2>3. Letters(c.pieces) \o c.current.letters = w \o b.letters
    BY <1>4, <1>10, <2>2
  <2>4. t.length \in 1 .. Budget
    BY <1>1, <1>4, <1>10 DEF Stretches, ChunksAssumption
  <2>5. \A k \in 1 .. Len(c.pieces) : c.pieces[k].length \in 1 .. Budget
    <3>1. Len(p) \in Nat /\ Len(c.pieces) = Len(p) + 1
      BY <1>1, <1>10
    <3>2. \A k \in 1 .. Len(c.pieces) : (k \in 1 .. Len(p) /\ c.pieces[k] = p[k]) \/ c.pieces[k] = t
      BY <1>1, <1>10, <3>1
    <3> QED
      BY <1>4, <2>4, <3>2
  <2> QED
    BY <1>10, <2>3, <2>5 DEF Holds, c
<1> QED
  BY <1>7, <1>9, <1>10

\* What a packing gives in the end.
PiecesOf(packing) ==
  IF packing.current = NoText THEN packing.pieces ELSE Append(packing.pieces, packing.current)

\* The pieces that a packing ends with hold what it holds.
LEMMA PiecesHold ==
  ASSUME NEW X, NEW a \in Packings(X), NEW w, Holds(a, w)
  PROVE  /\ PiecesOf(a) \in Seq(Stretches(X))
         /\ Letters(PiecesOf(a)) = w
         /\ \A k \in 1 .. Len(PiecesOf(a)) : PiecesOf(a)[k].length \in 1 .. Budget
<1>. DEFINE p == a.pieces
            t == a.current
<1>1. t \in Stretches(X) /\ p \in Seq(Stretches(X))
  BY DEF Packings
<1>2. w = Letters(p) \o t.letters /\ t.length <= Budget
      /\ \A k \in 1 .. Len(p) : p[k].length \in 1 .. Budget
  BY DEF Holds
<1>3. PiecesOf(a) = IF t = NoText THEN p ELSE Append(p, t)
  BY DEF PiecesOf
<1>. HIDE DEF p, t
<1>4. CASE t = NoText
  <2>1. Letters(p) \in Seq(X) /\ t.letters = <<>>
    BY <1>1, <1>4, LettersTyped DEF NoText
  <2>2. Letters(p) \o t.letters = Letters(p)
    BY <2>1
  <2> QED
    BY <1>1, <1>2, <1>3, <1>4, <2>2
<1>5. CASE t # NoText
  <2>1. Append(p, t) = p \o <<t>> /\ <<t>> \in Seq(Stretches(X)) /\ Append(p, t) \in Seq(Stretches(X))
    BY <1>1, AppendIsConcat
  <2>2. Letters(Append(p, t)) = Letters(p) \o t.letters
    BY <1>1, <2>1, LettersOfTwo, LettersOfOne
  <2>4. t.length \in 1 .. Budget
    BY <1>1, <1>2, <1>5 DEF Stretches, ChunksAssumption
  <2>5. \A k \in 1 .. Len(Append(p, t)) : Append(p, t)[k].length \in 1 .. Budget
    <3>1. Len(p) \in Nat /\ Len(Append(p, t)) = Len(p) + 1
      BY <1>1
    <3>2. \A k \in 1 .. Len(Append(p, t)) :
            (k \in 1 .. Len(p) /\ Append(p, t)[k] = p[k]) \/ Append(p, t)[k] = t
      BY <1>1, <3>1
    <3> QED
      BY <1>2, <2>4, <3>2
  <2> QED
    BY <1>2, <1>3, <1>5, <2>1, <2>2, <2>5
<1> QED
  BY <1>4, <1>5

\* The pieces of a packing of all atoms.
LEMMA PackingHolds ==
  ASSUME NEW atoms \in Seq(Fitting)
  PROVE  LET packing == FoldLeft(Packed, NoPacking, atoms)
         IN  packing \in Packings(Letter) /\ Holds(packing, Letters(atoms))
<1>. DEFINE n == Len(atoms)
<1>1. n \in Nat /\ n \in 0 .. n /\ atoms \in Seq(Stretches(Letter))
      /\ \A k \in 1 .. n : k \in 0 .. n /\ k - 1 \in 0 .. n
                           /\ atoms[k] \in Stretches(Letter) /\ atoms[k].length <= Budget
  BY DEF Fitting
<1>2. PICK f \in [0 .. n -> Packings(Letter)] :
             Packs(f, atoms) /\ FoldLeft(Packed, NoPacking, atoms) = f[n]
  BY <1>1, PacksAre
<1>3. PICK g \in [0 .. n -> Seq(Letter)] : Spells(g, atoms) /\ Letters(atoms) = g[n]
  BY <1>1, SpellingIs
<1>. DEFINE S == {k \in 0 .. n : Holds(f[k], g[k])}
<1>4. 0 \in S
  <2>1. f[0] = NoPacking /\ g[0] = <<>>
    BY <1>2, <1>3 DEF Packs, Spells
  <2>2. Holds(NoPacking, <<>>)
    <3>1. NoPacking.pieces = <<>> /\ NoPacking.current.letters = <<>> /\ NoPacking.current.length = 0
      BY DEF NoPacking, NoText
    <3>2. <<>> \o <<>> = <<>> /\ Len(<<>>) = 0
      OBVIOUS
    <3> QED
      BY <3>1, <3>2, LettersOfNone DEF Holds, ChunksAssumption
  <2> QED
    BY <1>1, <2>1, <2>2
<1>5. ASSUME NEW k \in 1 .. n, k - 1 \in S PROVE k \in S
  <2>1. f[k] = Packed(f[k - 1], atoms[k]) /\ g[k] = g[k - 1] \o atoms[k].letters
        /\ f[k - 1] \in Packings(Letter)
    BY <1>1, <1>2, <1>3 DEF Packs, Spells
  <2>2. Holds(f[k - 1], g[k - 1])
    BY <1>5
  <2>3. Holds(Packed(f[k - 1], atoms[k]), g[k - 1] \o atoms[k].letters)
    BY <1>1, <2>1, <2>2, PackedKeeps
  <2> QED
    BY <1>1, <2>1, <2>3
<1>6. 0 .. n \subseteq S
  <2>. HIDE DEF n, S
  <2> QED
    BY <1>1, <1>4, <1>5, UpTo
<1> QED
  BY <1>1, <1>2, <1>3, <1>6

\* The pieces of a text hold its letters, and none is empty or over the budget.
LEMMA SplitKeepsLetters ==
  ASSUME ChunksTypeOK
  PROVE  /\ SplitText \in Seq(Stretches(Letter))
         /\ Letters(SplitText) = WholeText.letters
         /\ \A k \in 1 .. Len(SplitText) : SplitText[k].length \in 1 .. Budget
<1>1. Atoms \in Seq(Fitting) /\ WholeText \in Stretches(Letter) /\ Letters(Atoms) = WholeText.letters
  BY AtomsAre
<1>2. CASE WholeText = NoText
  <2>1. SplitText = <<>> /\ WholeText.letters = <<>>
    BY <1>2 DEF SplitText, NoText
  <2> QED
    BY <2>1, LettersOfNone
<1>3. CASE WholeText # NoText /\ WholeText.length <= Budget
  <2>1. SplitText = <<WholeText>>
    BY <1>3 DEF SplitText
  <2>2. WholeText.length \in 1 .. Budget
    BY <1>1, <1>3 DEF Stretches, ChunksAssumption
  <2>3. <<WholeText>> \in Seq(Stretches(Letter)) /\ Letters(<<WholeText>>) = WholeText.letters
    BY <1>1, LettersOfOne
  <2>4. Len(<<WholeText>>) = 1 /\ \A k \in 1 .. 1 : <<WholeText>>[k] = WholeText
    OBVIOUS
  <2> QED
    BY <2>1, <2>2, <2>3, <2>4
<1>4. CASE WholeText # NoText /\ ~(WholeText.length <= Budget)
  <2>1. SplitText = PiecesOf(FoldLeft(Packed, NoPacking, Atoms))
    BY <1>4 DEF SplitText, PiecesOf, NoPacking
  <2> QED
    BY <1>1, <2>1, PackingHolds, PiecesHold
<1> QED
  BY <1>2, <1>3, <1>4

\* Joining one more part.
LEMMA JoinOneMore ==
  ASSUME NEW X, NEW separator, NEW parts \in Seq(Stretches(X)), NEW t \in Stretches(X)
  PROVE  JoinAll(Append(parts, t), separator) = Joined(JoinAll(parts, separator), separator, t)
<1>. DEFINE n == Len(parts)
            more == Append(parts, t)
<1>1. /\ n \in Nat /\ more \in Seq(Stretches(X)) /\ Len(more) = n + 1 /\ more[n + 1] = t
      /\ \A k \in 1 .. n : more[k] = parts[k]
  OBVIOUS
<1>. HIDE DEF more
<1>2. PICK f \in [0 .. n -> Stretches(X)] :
             Joins(f, parts, separator) /\ JoinAll(parts, separator) = f[n]
  BY JoinsAre
<1>3. PICK g \in [0 .. Len(more) -> Stretches(X)] :
             Joins(g, more, separator) /\ JoinAll(more, separator) = g[Len(more)]
  BY <1>1, JoinsAre, ZenonT(30)
<1>4. /\ f[0] = NoText /\ \A k \in 1 .. n : f[k] = Joined(f[k - 1], separator, parts[k])
      /\ g[0] = NoText /\ \A k \in 1 .. n + 1 : g[k] = Joined(g[k - 1], separator, more[k])
  BY <1>1, <1>2, <1>3 DEF Joins
<1>. DEFINE S == {k \in 0 .. n : f[k] = g[k]}
<1>. HIDE DEF n
<1>5. 0 \in S
  BY <1>1, <1>4
<1>6. ASSUME NEW k \in 1 .. n, k - 1 \in S PROVE k \in S
  <2>1. k \in 0 .. n /\ k \in 1 .. n + 1 /\ f[k - 1] = g[k - 1]
    BY <1>1, <1>6
  <2> QED
    BY <1>1, <1>4, <2>1
<1>7. 0 .. n \subseteq S
  <2>. HIDE DEF S
  <2> QED
    BY <1>1, <1>5, <1>6, UpTo
<1>8. f[n] = g[n] /\ g[n + 1] = Joined(g[n], separator, t)
  <2>1. n \in 0 .. n /\ n + 1 \in 1 .. n + 1 /\ (n + 1) - 1 = n
    BY <1>1
  <2> QED
    BY <1>1, <1>4, <1>7, <2>1
<1> QED
  BY <1>1, <1>2, <1>3, <1>8 DEF more

\* Joining nothing.
LEMMA JoinNone == JoinAll(<<>>, Paragraph) = NoText
<1>. DEFINE parts == <<>>
            X == {}
<1>1. parts \in Seq(Stretches(X)) /\ Len(parts) = 0
  OBVIOUS
<1>. HIDE DEF parts, X
<1>2. PICK f \in [0 .. Len(parts) -> Stretches(X)] :
             Joins(f, parts, Paragraph) /\ JoinAll(parts, Paragraph) = f[Len(parts)]
  BY <1>1, JoinsAre, ZenonT(30)
<1> QED
  BY <1>1, <1>2 DEF Joins, parts

-----------------------------------------------------------------------------
(* The greedy packing needs the fewest pieces. *)

\* The atoms from i to j in one piece.
Stretch(atoms, i, j) == JoinAll(SubSeq(atoms, i, j), Paragraph)

\* A stretch begins empty and goes on by one atom after the other.
LEMMA StretchIs ==
  ASSUME NEW X, NEW atoms \in Seq(Stretches(X)), NEW i \in 1 .. Len(atoms) + 1
  PROVE  /\ Stretch(atoms, i, i - 1) = NoText
         /\ \A j \in i - 1 .. Len(atoms) : Stretch(atoms, i, j) \in Stretches(X)
         /\ \A j \in i .. Len(atoms) :
              Stretch(atoms, i, j) = Joined(Stretch(atoms, i, j - 1), Paragraph, atoms[j])
<1>. DEFINE n == Len(atoms)
<1>1. n \in Nat /\ \A k \in 1 .. n : atoms[k] \in Stretches(X)
  OBVIOUS
<1>2. Stretch(atoms, i, i - 1) = NoText
  <2>1. i \in Int /\ i - 1 \in Int /\ i - 1 < i
    OBVIOUS
  <2>2. SubSeq(atoms, i, i - 1) = <<>>
    BY <2>1, SubSeqEmpty
  <2> QED
    BY <2>2, JoinNone DEF Stretch
<1>3. \A j \in i - 1 .. n : SubSeq(atoms, i, j) \in Seq(Stretches(X))
  <2>. SUFFICES ASSUME NEW j \in i - 1 .. n PROVE SubSeq(atoms, i, j) \in Seq(Stretches(X))
    OBVIOUS
  <2>1. i \in Int /\ j \in Int /\ \A k \in i .. j : atoms[k] \in Stretches(X)
    BY <1>1
  <2> QED
    BY <2>1, SubSeqProperties
<1>4. \A j \in i - 1 .. n : Stretch(atoms, i, j) \in Stretches(X)
  BY <1>3, JoinKeepsLetters DEF Stretch
<1>5. ASSUME NEW j \in i .. n
      PROVE  Stretch(atoms, i, j) = Joined(Stretch(atoms, i, j - 1), Paragraph, atoms[j])
  <2>1. i \in 1 .. n /\ j \in 1 .. n /\ j - 1 \in i - 1 .. n
    BY <1>1
  <2>2. SubSeq(atoms, i, j) = SubSeq(atoms, i, j - 1) \o <<atoms[j]>>
    BY <2>1, SubSeqRecursiveSecond
  <2>3. SubSeq(atoms, i, j - 1) \in Seq(Stretches(X)) /\ atoms[j] \in Stretches(X)
    BY <1>1, <1>3, <2>1
  <2>4. SubSeq(atoms, i, j) = Append(SubSeq(atoms, i, j - 1), atoms[j])
    BY <2>2, <2>3, AppendIsConcat
  <2> QED
    BY <2>3, <2>4, JoinOneMore DEF Stretch
<1> QED
  BY <1>2, <1>4, <1>5

\* What is joined to a shorter stretch makes a shorter one.
LEMMA JoinedInOrder ==
  ASSUME NEW X, NEW a \in Stretches(X), NEW b \in Stretches(X), NEW t \in Stretches(X),
         NEW separator, b.length <= a.length
  PROVE  Joined(b, separator, t).length <= Joined(a, separator, t).length
<1>. DEFINE la == a.length
            lb == b.length
            lt == t.length
            lw == Width(separator)
<1>1. la \in Nat /\ lb \in Nat /\ lt \in Nat /\ lw \in Nat /\ lb <= la
  BY DEF Stretches, Width
<1>2. a.length = 0 => a = NoText
  BY DEF Stretches
<1>3. b.length = 0 => b = NoText
  BY DEF Stretches
<1>4. lb # 0 => Joined(b, separator, t).length = lb + lw + lt
  BY DEF Joined, NoText
<1>5. la # 0 => Joined(a, separator, t).length = la + lw + lt
  BY DEF Joined, NoText
<1>6. lb = 0 => Joined(b, separator, t).length = lt
  BY <1>3 DEF Joined
<1>7. la = 0 => Joined(a, separator, t).length = lt
  BY <1>2 DEF Joined
<1>. HIDE DEF la, lb, lt, lw
<1> QED
  BY <1>1, <1>4, <1>5, <1>6, <1>7

\* A stretch does not get shorter at its end,
LEMMA LongerAtTheEnd ==
  ASSUME NEW X, NEW atoms \in Seq(Stretches(X)), NEW i \in 1 .. Len(atoms) + 1,
         NEW j \in i - 1 .. Len(atoms)
  PROVE  \A k \in j .. Len(atoms) : Stretch(atoms, i, j).length <= Stretch(atoms, i, k).length
<1>. DEFINE n == Len(atoms)
            w(k) == Stretch(atoms, i, k).length
            S == {d \in 0 .. n - j : w(j) <= w(j + d)}
<1>1. n \in Nat /\ i \in Int /\ j \in Int /\ n - j \in Nat
  OBVIOUS
<1>2. \A k \in i - 1 .. n : w(k) \in Nat
  BY StretchIs DEF Stretches
<1>3. \A k \in i .. n : w(k - 1) <= w(k)
  <2>. SUFFICES ASSUME NEW k \in i .. n PROVE w(k - 1) <= w(k)
    OBVIOUS
  <2>1. k - 1 \in i - 1 .. n /\ k \in 1 .. n
    BY <1>1
  <2>2. Stretch(atoms, i, k - 1) \in Stretches(X) /\ atoms[k] \in Stretches(X)
    <3>1. Stretch(atoms, i, k - 1) \in Stretches(X)
      BY <2>1, StretchIs
    <3>2. atoms[k] \in Stretches(X)
      BY <2>1
    <3> QED
      BY <3>1, <3>2
  <2>3. Stretch(atoms, i, k) = Joined(Stretch(atoms, i, k - 1), Paragraph, atoms[k])
    BY StretchIs
  <2>4. PICK c : c = Joined(Stretch(atoms, i, k - 1), Paragraph, atoms[k])
    OBVIOUS
  <2>5. c.length >= Stretch(atoms, i, k - 1).length
    BY <2>2, <2>4, JoinedIs
  <2>6. w(k) >= w(k - 1)
    BY <2>3, <2>4, <2>5
  <2>7. w(k) \in Nat /\ w(k - 1) \in Nat
    BY <1>1, <1>2, <2>1
  <2>. HIDE DEF w
  <2> QED
    BY <2>6, <2>7
<1>. HIDE DEF w, n
<1>4. 0 \in S
  <2>1. j + 0 = j /\ w(j) \in Nat
    BY <1>1, <1>2 DEF n
  <2> QED
    BY <1>1, <2>1
<1>5. ASSUME NEW d \in 1 .. n - j, d - 1 \in S PROVE d \in S
  <2>1. j + d \in i .. n /\ (j + d) - 1 = j + (d - 1) /\ d \in 0 .. n - j
    BY <1>1 DEF n
  <2>2. w(j) <= w(j + (d - 1)) /\ w(j + (d - 1)) <= w(j + d)
    BY <1>3, <1>5, <2>1
  <2>3. w(j) \in Nat /\ w(j + (d - 1)) \in Nat /\ w(j + d) \in Nat
    BY <1>1, <1>2, <2>1 DEF n
  <2> QED
    BY <2>1, <2>2, <2>3
<1>6. 0 .. n - j \subseteq S
  <2>. HIDE DEF S
  <2> QED
    BY <1>1, <1>4, <1>5, UpTo
<1>7. \A k \in j .. n : k - j \in 0 .. n - j /\ j + (k - j) = k
  BY <1>1
<1>8. \A k \in j .. n : w(j) <= w(k)
  BY <1>6, <1>7
<1> QED
  BY <1>8 DEF w, n

\* nor at its beginning.
LEMMA LongerAtTheStart ==
  ASSUME NEW X, NEW atoms \in Seq(Stretches(X)), NEW h \in 1 .. Len(atoms) + 1,
         NEW i \in h .. Len(atoms) + 1
  PROVE  \A k \in i - 1 .. Len(atoms) : Stretch(atoms, i, k).length <= Stretch(atoms, h, k).length
<1>. DEFINE n == Len(atoms)
            v(k) == Stretch(atoms, h, k).length
            w(k) == Stretch(atoms, i, k).length
            m == n - (i - 1)
            S == {d \in 0 .. m : w((i - 1) + d) <= v((i - 1) + d)}
<1>1. n \in Nat /\ i \in 1 .. n + 1 /\ h \in 1 .. n + 1 /\ h <= i /\ m \in Nat
  OBVIOUS
<1>2. \A k \in i - 1 .. n : w(k) \in Nat /\ v(k) \in Nat
  <2>1. \A k \in i - 1 .. n : k \in h - 1 .. n
    BY <1>1
  <2>2. \A k \in h - 1 .. n : v(k) \in Nat
    BY StretchIs DEF Stretches
  <2>3. \A k \in i - 1 .. n : w(k) \in Nat
    BY <1>1, StretchIs DEF Stretches
  <2>. HIDE DEF v, w, n
  <2> QED
    BY <2>1, <2>2, <2>3
<1>3. w(i - 1) = 0
  BY <1>1, StretchIs DEF NoText
<1>4. ASSUME NEW k \in i .. n, w(k - 1) <= v(k - 1) PROVE w(k) <= v(k)
  <2>. DEFINE a == Stretch(atoms, h, k - 1)
              b == Stretch(atoms, i, k - 1)
  <2>1. k - 1 \in i - 1 .. n /\ k - 1 \in h - 1 .. n /\ k \in h .. n /\ k \in 1 .. n /\ k \in i - 1 .. n
    BY <1>1
  <2>2. a \in Stretches(X) /\ b \in Stretches(X) /\ atoms[k] \in Stretches(X)
    BY <1>1, <2>1, StretchIs
  <2>3. Stretch(atoms, h, k) = Joined(a, Paragraph, atoms[k])
        /\ Stretch(atoms, i, k) = Joined(b, Paragraph, atoms[k])
    BY <1>1, <2>1, StretchIs
  <2>4. PICK c, d : c = Joined(a, Paragraph, atoms[k]) /\ d = Joined(b, Paragraph, atoms[k])
    OBVIOUS
  <2>5. b.length <= a.length
    BY <1>4
  <2>6. v(k) = c.length /\ w(k) = d.length
    BY <2>3, <2>4
  <2>. HIDE DEF a, b
  <2>7. d.length <= c.length
    BY <2>2, <2>4, <2>5, JoinedInOrder
  <2>10. c.length \in Nat /\ d.length \in Nat
    BY <2>2, <2>4, JoinedIs DEF Stretches
  <2>11. w(k) \in Nat /\ v(k) \in Nat
    BY <1>2, <2>1
  <2>. HIDE DEF v, w
  <2> QED
    BY <2>6, <2>7, <2>10, <2>11
<1>. HIDE DEF v, w, n
<1>5. 0 \in S
  <2>1. (i - 1) + 0 = i - 1 /\ i - 1 \in i - 1 .. n
    BY <1>1
  <2>2. v(i - 1) \in Nat
    BY <1>2, <2>1
  <2> QED
    BY <1>1, <1>3, <2>1, <2>2
<1>6. ASSUME NEW d \in 1 .. m, d - 1 \in S PROVE d \in S
  <2>. DEFINE k == (i - 1) + d
  <2>1. k \in i .. n /\ k - 1 = (i - 1) + (d - 1) /\ d \in 0 .. m
    BY <1>1
  <2>2. w(k - 1) <= v(k - 1)
    BY <1>6, <2>1
  <2>3. w(k) <= v(k)
    <3>. HIDE DEF k
    <3> QED
      BY <1>4, <2>1, <2>2
  <2> QED
    BY <2>1, <2>3
<1>7. 0 .. m \subseteq S
  <2>. HIDE DEF S, m
  <2> QED
    BY <1>1, <1>5, <1>6, UpTo
<1>8. \A k \in i - 1 .. n : k - (i - 1) \in 0 .. m /\ (i - 1) + (k - (i - 1)) = k
  BY <1>1
<1>9. \A k \in i - 1 .. n : w(k) <= v(k)
  <2>. HIDE DEF m
  <2> QED
    BY <1>7, <1>8
<1> QED
  BY <1>9 DEF v, w, n

\* Where the stretch ends that begins at i.
LastOf(cuts, i, n) == IF {j \in cuts : j > i} = {} THEN n ELSE Min({j \in cuts : j > i}) - 1

\* Cuts that leave no stretch over the budget.
FitsCut(atoms, cuts) ==
  \A i \in {1} \union cuts : Stretch(atoms, i, LastOf(cuts, i, Len(atoms))).length <= Budget

\* The pieces that cuts have begun up to k.
Opened(cuts, k) == Cardinality({c \in cuts : c <= k}) + 1

\* One piece is open at the start, one more at every cut, all of them at the end.
LEMMA OpenedIs ==
  ASSUME NEW n \in Nat, NEW cuts \in SUBSET (2 .. n)
  PROVE  /\ \A k \in 0 .. n : Opened(cuts, k) \in Nat
         /\ Opened(cuts, 0) = 1
         /\ Opened(cuts, n) = Cardinality(cuts) + 1
         /\ \A k \in 1 .. n : Opened(cuts, k) = Opened(cuts, k - 1) + (IF k \in cuts THEN 1 ELSE 0)
<1>. DEFINE up(k) == {c \in cuts : c <= k}
<1>1. IsFiniteSet(cuts) /\ \A c \in cuts : c \in Int /\ 2 <= c /\ c <= n
  <2>0. 2 \in Int /\ n \in Int
    OBVIOUS
  <2>1. IsFiniteSet(2 .. n) /\ cuts \in SUBSET (2 .. n)
    BY <2>0, FS_Interval
  <2>2. IsFiniteSet(cuts)
    BY <2>1, FS_Subset
  <2>3. \A c \in cuts : c \in Int /\ 2 <= c /\ c <= n
    OBVIOUS
  <2> QED
    BY <2>2, <2>3
<1>2. \A k : up(k) \subseteq cuts
  OBVIOUS
<1>3. \A k : IsFiniteSet(up(k)) /\ Cardinality(up(k)) \in Nat
  <2>. SUFFICES ASSUME NEW k PROVE IsFiniteSet(up(k)) /\ Cardinality(up(k)) \in Nat
    OBVIOUS
  <2>. HIDE DEF up
  <2>1. IsFiniteSet(up(k))
    BY <1>1, <1>2, FS_Subset
  <2> QED
    BY <2>1, FS_CardinalityType
<1>4. up(0) = {} /\ up(n) = cuts
  <2>1. \A c \in cuts : ~(c <= 0)
    BY <1>1
  <2> QED
    BY <1>1, <2>1
<1>5. ASSUME NEW k \in 1 .. n
      PROVE  Cardinality(up(k)) = Cardinality(up(k - 1)) + (IF k \in cuts THEN 1 ELSE 0)
  <2>0. \A c \in cuts : (c <= k) <=> (c <= k - 1 \/ c = k)
    BY <1>1
  <2>1. CASE k \in cuts
    <3>1. up(k) = up(k - 1) \union {k}
      <4>1. k <= k
        OBVIOUS
      <4> QED
        BY <2>0, <2>1, <4>1
    <3>2. k \notin up(k - 1)
      OBVIOUS
    <3>. HIDE DEF up
    <3>3. Cardinality(up(k - 1) \union {k}) = Cardinality(up(k - 1)) + 1
      BY <1>3, <3>2, FS_AddElement
    <3> QED
      BY <2>1, <3>1, <3>3
  <2>2. CASE k \notin cuts
    <3>1. up(k) = up(k - 1)
      BY <2>0, <2>2
    <3>. HIDE DEF up
    <3> QED
      BY <1>3, <2>2, <3>1
  <2> QED
    BY <2>1, <2>2
<1>6. \A k : Opened(cuts, k) = Cardinality(up(k)) + 1
  BY DEF Opened
<1>. HIDE DEF up
<1>7. Cardinality(up(0)) = 0
  BY <1>4, FS_EmptySet
<1>8. \A k \in 1 .. n : Cardinality(up(k)) + 1 = Cardinality(up(k - 1)) + 1 + (IF k \in cuts THEN 1 ELSE 0)
  BY <1>3, <1>5
<1> QED
  BY <1>3, <1>4, <1>6, <1>7, <1>8

\* A packing up to k is no worse than the cuts: it has fewer pieces, or as many and
\* begun its last no earlier.
NoWorse(packing, atoms, cuts, k) ==
  \E i \in 1 .. k + 1 :
    /\ packing.current = Stretch(atoms, i, k)
    /\ \/ Len(packing.pieces) + 1 < Opened(cuts, k)
       \/ Len(packing.pieces) + 1 = Opened(cuts, k) /\ \A c \in cuts : c <= k => c <= i

\* Cuts that have no piece longer than the budget leave none the packing has to cut.
LEMMA CutBefore ==
  ASSUME NEW X, NEW atoms \in Seq(Stretches(X)), NEW cuts \in SUBSET (2 .. Len(atoms)),
         FitsCut(atoms, cuts), NEW k \in 1 .. Len(atoms), k \notin cuts,
         NEW i \in 1 .. k, \A c \in cuts : c <= k - 1 => c <= i
  PROVE  Stretch(atoms, i, k).length <= Budget
<1>. DEFINE n == Len(atoms)
            T == {1} \union {c \in cuts : c <= k}
            h == Max(T)
            later == {j \in cuts : j > h}
            last == LastOf(cuts, h, n)
<1>1. n \in Nat /\ k \in Nat /\ k <= n
  OBVIOUS
<1>2. T \in SUBSET (1 .. n) /\ T # {}
  <2>1. 1 \in 1 .. n /\ \A c \in 2 .. n : c \in 1 .. n
    BY <1>1
  <2> QED
    BY <2>1
<1>3. h \in T /\ \A c \in T : c <= h
  <2>1. \A c \in T : c \in Int
    BY <1>2
  <2>. HIDE DEF T
  <2>2. h \in T /\ \A c \in T : h >= c
    BY <1>1, <1>2, GreatestIn
  <2> QED
    BY <2>1, <2>2
<1>. HIDE DEF h
<1>4. h \in {1} \union cuts /\ h \in 1 .. i
  <2>1. \A c \in T : c <= i
    <3>1. \A c \in cuts : c <= k => c <= k - 1
      BY <1>1
    <3> QED
      BY <3>1
  <2> QED
    BY <1>2, <1>3, <2>1
<1>5. last \in k .. n
  <2>1. CASE later = {}
    BY <1>1, <2>1 DEF LastOf
  <2>2. CASE later # {}
    <3>1. later \subseteq Nat /\ \A j \in later : j > k /\ j \in 2 .. n
      <4>1. \A j \in later : ~(j <= k)
        <5>. SUFFICES ASSUME NEW j \in later, j <= k PROVE FALSE
          OBVIOUS
        <5>1. j \in T /\ j > h /\ j \in 2 .. n
          OBVIOUS
        <5>2. h \in 1 .. n /\ j <= h
          <6>. HIDE DEF T, later
          <6> QED
            BY <1>2, <1>3, <5>1
        <5> QED
          BY <5>1, <5>2
      <4>2. \A j \in later : j \in 2 .. n
        OBVIOUS
      <4>. HIDE DEF later
      <4>3. \A j \in later : j \in Nat /\ j > k
        BY <1>1, <4>1, <4>2
      <4> QED
        BY <4>2, <4>3
    <3>2. Min(later) \in later
      <4>. HIDE DEF later
      <4> QED
        BY <2>2, <3>1, LeastIs
    <3>3. last = Min(later) - 1
      BY <2>2 DEF LastOf
    <3>. DEFINE first == Min(later)
    <3>4. first \in Nat /\ first > k /\ first \in 2 .. n /\ last = first - 1
      BY <3>1, <3>2, <3>3
    <3>. HIDE DEF later, last, first
    <3> QED
      BY <1>1, <3>4
  <2> QED
    BY <2>1, <2>2
<1>6. Stretch(atoms, h, last).length <= Budget
  BY <1>4 DEF FitsCut
<1>. HIDE DEF last, T, later
<1>7. h \in 1 .. n + 1 /\ i \in h .. n + 1 /\ k \in i - 1 .. n /\ k \in h - 1 .. n
  BY <1>1, <1>4
<1>8. Stretch(atoms, i, k).length <= Stretch(atoms, h, k).length
  BY <1>7, LongerAtTheStart
<1>9. Stretch(atoms, h, k).length <= Stretch(atoms, h, last).length
  BY <1>5, <1>7, LongerAtTheEnd
<1>10. /\ Stretch(atoms, i, k).length \in Nat /\ Stretch(atoms, h, k).length \in Nat
       /\ Stretch(atoms, h, last).length \in Nat
  <2>1. i \in 1 .. n + 1 /\ last \in h - 1 .. n
    BY <1>1, <1>4, <1>5
  <2> QED
    BY <1>7, <2>1, StretchIs DEF Stretches
<1> QED
  BY <1>6, <1>8, <1>9, <1>10 DEF ChunksAssumption

\* One more atom keeps the packing no worse than the cuts: where it opens a piece, so
\* do they, or they have been one piece behind already.
LEMMA StaysNoWorse ==
  ASSUME NEW atoms \in Seq(Fitting), NEW cuts \in SUBSET (2 .. Len(atoms)), FitsCut(atoms, cuts),
         NEW k \in 1 .. Len(atoms), NEW a \in Packings(Letter), NoWorse(a, atoms, cuts, k - 1)
  PROVE  NoWorse(Packed(a, atoms[k]), atoms, cuts, k)
<1>. DEFINE n == Len(atoms)
            b == atoms[k]
            c == Packed(a, b)
            candidate == Joined(a.current, Paragraph, b)
            m == Len(a.pieces) + 1
            was == Opened(cuts, k - 1)
            is == Opened(cuts, k)
<1>1. /\ n \in Nat /\ k \in Nat /\ k - 1 \in 0 .. n /\ k \in 0 .. n
      /\ atoms \in Seq(Stretches(Letter)) /\ b \in Stretches(Letter) /\ b.length <= Budget
      /\ a.pieces \in Seq(Stretches(Letter)) /\ a.current \in Stretches(Letter)
  BY DEF Fitting, Packings
<1>2. PICK i \in 1 .. (k - 1) + 1 :
        /\ a.current = Stretch(atoms, i, k - 1)
        /\ \/ m < was
           \/ m = was /\ \A x \in cuts : x <= k - 1 => x <= i
  BY DEF NoWorse
<1>3. i \in 1 .. k /\ i \in 1 .. n + 1 /\ k \in i .. n
  BY <1>1, <1>2
<1>4. was \in Nat /\ is = was + (IF k \in cuts THEN 1 ELSE 0) /\ m \in Nat
  <2>1. /\ \A x \in 0 .. n : Opened(cuts, x) \in Nat
        /\ \A x \in 1 .. n : Opened(cuts, x) = Opened(cuts, x - 1) + (IF x \in cuts THEN 1 ELSE 0)
    BY <1>1, OpenedIs, ZenonT(30)
  <2>2. m \in Nat
    BY <1>1
  <2> QED
    BY <1>1, <2>1, <2>2
<1>5. candidate = Stretch(atoms, i, k)
  BY <1>1, <1>2, <1>3, StretchIs
<1>6. \/ candidate.length <= Budget /\ c.pieces = a.pieces /\ c.current = candidate
      \/ ~(candidate.length <= Budget) /\ c.pieces = Append(a.pieces, a.current) /\ c.current = b
  BY <1>1, PackedEither
<1>7. \A x \in cuts : x \in Int /\ (x <= k => x = k \/ x <= k - 1)
  BY <1>1
<1>. HIDE DEF candidate, c, was, is
<1>8. CASE candidate.length <= Budget /\ c.pieces = a.pieces /\ c.current = candidate
  <2>1. Len(c.pieces) + 1 = m /\ i \in 1 .. k + 1
    BY <1>1, <1>3, <1>8
  <2>2. m < is \/ (m = is /\ \A x \in cuts : x <= k => x <= i)
    <3>1. CASE k \in cuts
      BY <1>2, <1>4, <3>1
    <3>2. CASE k \notin cuts
      BY <1>2, <1>4, <1>7, <3>2
    <3> QED
      BY <3>1, <3>2
  <2> QED
    BY <1>5, <1>8, <2>1, <2>2 DEF NoWorse, is, c
<1>9. CASE ~(candidate.length <= Budget) /\ c.pieces = Append(a.pieces, a.current) /\ c.current = b
  <2>1. Len(c.pieces) + 1 = m + 1 /\ k \in 1 .. k + 1
    BY <1>1, <1>9
  <2>2. b = Stretch(atoms, k, k)
    <3>1. k \in 1 .. n + 1 /\ k \in k .. n
      BY <1>1, <1>3
    <3>2. /\ Stretch(atoms, k, k - 1) = NoText
          /\ Stretch(atoms, k, k) = Joined(Stretch(atoms, k, k - 1), Paragraph, b)
      BY <1>1, <3>1, StretchIs
    <3> QED
      BY <3>2 DEF Joined
  <2>3. m + 1 <= is
    <3>1. CASE k \in cuts
      BY <1>2, <1>4, <3>1
    <3>2. CASE k \notin cuts
      <4>1. SUFFICES ASSUME ~(m < was) PROVE FALSE
        BY <1>4, <3>2
      <4>2. \A x \in cuts : x <= k - 1 => x <= i
        BY <1>2, <4>1
      <4>3. Stretch(atoms, i, k).length <= Budget
        BY <1>1, <1>3, <3>2, <4>2, CutBefore
      <4> QED
        BY <1>5, <1>9, <4>3
    <3> QED
      BY <3>1, <3>2
  <2>4. is \in Nat
    BY <1>4
  <2>5. m + 1 < is \/ (m + 1 = is /\ \A x \in cuts : x <= k => x <= k)
    BY <1>4, <2>3, <2>4
  <2> QED
    BY <1>9, <2>1, <2>2, <2>5 DEF NoWorse, is, c
<1> QED
  BY <1>6, <1>8, <1>9

\* The pieces of the greedy packing are at most those of any cuts that fit.
LEMMA GreedyIsBest ==
  ASSUME NEW atoms \in Seq(Fitting), NEW cuts \in SUBSET (2 .. Len(atoms)), FitsCut(atoms, cuts)
  PROVE  Len(PiecesOf(FoldLeft(Packed, NoPacking, atoms))) <= Cardinality(cuts) + 1
<1>. DEFINE n == Len(atoms)
<1>1. n \in Nat /\ n \in 0 .. n /\ atoms \in Seq(Stretches(Letter))
      /\ \A k \in 1 .. n : k \in 0 .. n /\ k - 1 \in 0 .. n
  BY DEF Fitting
<1>2. PICK f \in [0 .. n -> Packings(Letter)] :
             Packs(f, atoms) /\ FoldLeft(Packed, NoPacking, atoms) = f[n]
  BY <1>1, PacksAre
<1>. DEFINE S == {k \in 0 .. n : NoWorse(f[k], atoms, cuts, k)}
<1>3. 0 \in S
  <2>1. f[0] = NoPacking
    BY <1>2 DEF Packs
  <2>2. Stretch(atoms, 1, 0) = NoText
    <3>1. 1 \in 1 .. n + 1 /\ 1 - 1 = 0
      BY <1>1
    <3> QED
      BY <1>1, <3>1, StretchIs
  <2>3. NoPacking.current = Stretch(atoms, 1, 0) /\ Len(NoPacking.pieces) = 0
    BY <2>2 DEF NoPacking
  <2>4. Opened(cuts, 0) = 1 /\ \A c \in cuts : ~(c <= 0)
    BY <1>1, OpenedIs
  <2>5. 1 \in 1 .. 0 + 1
    OBVIOUS
  <2>6. NoWorse(NoPacking, atoms, cuts, 0)
    BY <2>3, <2>4, <2>5 DEF NoWorse
  <2> QED
    BY <1>1, <2>1, <2>6
<1>4. ASSUME NEW k \in 1 .. n, k - 1 \in S PROVE k \in S
  <2>1. f[k] = Packed(f[k - 1], atoms[k]) /\ f[k - 1] \in Packings(Letter)
    BY <1>1, <1>2 DEF Packs
  <2>2. NoWorse(f[k - 1], atoms, cuts, k - 1)
    BY <1>4
  <2>3. NoWorse(Packed(f[k - 1], atoms[k]), atoms, cuts, k)
    BY <2>1, <2>2, StaysNoWorse
  <2> QED
    BY <1>1, <2>1, <2>3
<1>5. n \in S
  <2>1. 0 .. n \subseteq S
    <3>. HIDE DEF n, S
    <3> QED
      BY <1>1, <1>3, <1>4, UpTo
  <2> QED
    BY <1>1, <2>1
<1>6. NoWorse(f[n], atoms, cuts, n)
  BY <1>5
<1>7. Opened(cuts, n) = Cardinality(cuts) + 1 /\ Opened(cuts, n) \in Nat
  BY <1>1, OpenedIs
<1>8. f[n] \in Packings(Letter)
  BY <1>1, <1>2
<1>. DEFINE p == f[n].pieces
            t == f[n].current
<1>9. p \in Seq(Stretches(Letter)) /\ t \in Stretches(Letter)
  BY <1>8 DEF Packings
<1>10. Len(p) \in Nat /\ Len(p) + 1 <= Opened(cuts, n)
  BY <1>6, <1>7, <1>9 DEF NoWorse
<1>11. PiecesOf(f[n]) = IF t = NoText THEN p ELSE Append(p, t)
  BY DEF PiecesOf
<1>. HIDE DEF p, t
<1>12. Len(PiecesOf(f[n])) <= Len(p) + 1 /\ Len(PiecesOf(f[n])) \in Nat
  BY <1>9, <1>10, <1>11
<1> QED
  BY <1>2, <1>7, <1>10, <1>12

-----------------------------------------------------------------------------
(* No cutting of the atoms needs fewer pieces. *)

\* The ways to cut the atoms that leave no stretch over the budget.
Cuttings == {cuts \in SUBSET (2 .. Len(Atoms)) : FitsCut(Atoms, cuts)}

\* FewestPieces is the fewest of their pieces.
LEMMA FewestIs == FewestPieces = Min({Cardinality(cuts) + 1 : cuts \in Cuttings})
BY DEF FewestPieces, Cuttings, FitsCut, LastOf, Stretch

\* Cutting between all atoms is one of them.
LEMMA EveryCutFits ==
  ASSUME NEW atoms \in Seq(Fitting)
  PROVE  FitsCut(atoms, 2 .. Len(atoms))
<1>. DEFINE n == Len(atoms)
<1>1. n \in Nat /\ atoms \in Seq(Stretches(Letter)) /\ \A k \in 1 .. n : atoms[k].length <= Budget
  BY FittingAre
<1>2. ASSUME NEW i \in 1 .. n PROVE LastOf(2 .. n, i, n) = i
  <2>. DEFINE later == {j \in 2 .. n : j > i}
  <2>1. CASE i = n
    <3>1. later = {}
      BY <1>1, <2>1
    <3> QED
      BY <2>1, <3>1 DEF LastOf
  <2>2. CASE i # n
    <3>1. i + 1 \in later /\ later \subseteq Nat
      BY <1>1, <2>2
    <3>2. \A j \in later : i + 1 <= j
      BY <1>1
    <3>3. Min(later) \in later /\ Min(later) <= i + 1
      <4>. HIDE DEF later
      <4> QED
        BY <3>1, LeastIs
    <3>4. Min(later) \in Nat /\ Min(later) = i + 1
      <4>. DEFINE first == Min(later)
      <4>1. first \in Nat /\ i + 1 <= first /\ first <= i + 1
        <5>. HIDE DEF later
        <5> QED
          BY <3>1, <3>2, <3>3
      <4>2. i \in Nat
        OBVIOUS
      <4>. HIDE DEF first
      <4>3. first = i + 1
        BY <4>1, <4>2
      <4> QED
        BY <4>1, <4>3 DEF first
    <3>5. later # {}
      BY <3>1
    <3>6. LastOf(2 .. n, i, n) = Min(later) - 1
      BY <3>5 DEF LastOf
    <3>. HIDE DEF later
    <3> QED
      BY <1>1, <3>4, <3>6
  <2> QED
    BY <2>1, <2>2
<1>3. ASSUME NEW i \in 1 .. n PROVE Stretch(atoms, i, i).length <= Budget
  <2>1. i \in 1 .. n + 1 /\ i \in i .. n
    BY <1>1
  <2>2. Stretch(atoms, i, i - 1) = NoText
        /\ Stretch(atoms, i, i) = Joined(Stretch(atoms, i, i - 1), Paragraph, atoms[i])
    BY <1>1, <2>1, StretchIs
  <2>3. Stretch(atoms, i, i) = atoms[i]
    BY <2>2 DEF Joined
  <2> QED
    BY <1>1, <2>3
<1>4. CASE n = 0
  <2>1. 2 .. n = {} /\ 1 \in 1 .. n + 1
    BY <1>4
  <2>2. LastOf(2 .. n, 1, n) = 0 /\ Stretch(atoms, 1, 0) = NoText
    <3>1. LastOf(2 .. n, 1, n) = 0
      BY <1>4, <2>1 DEF LastOf
    <3>2. Stretch(atoms, 1, 1 - 1) = NoText
      BY <1>1, <2>1, StretchIs
    <3> QED
      BY <3>1, <3>2
  <2> QED
    BY <2>1, <2>2 DEF FitsCut, NoText, ChunksAssumption
<1>5. CASE n # 0
  <2>1. \A i \in {1} \union (2 .. n) : i \in 1 .. n
    BY <1>1, <1>5
  <2> QED
    BY <1>2, <1>3, <2>1 DEF FitsCut
<1> QED
  BY <1>4, <1>5

\* No text is split into more pieces than needed.
LEMMA SplitIsFewest ==
  ASSUME ChunksTypeOK, WholeText # NoText
  PROVE  Len(SplitText) <= FewestPieces
<1>. DEFINE counts == {Cardinality(cuts) + 1 : cuts \in Cuttings}
            n == Len(Atoms)
<1>1. Atoms \in Seq(Fitting) /\ n \in Nat
  BY AtomsAre
<1>2. 2 .. n \in Cuttings
  BY <1>1, EveryCutFits DEF Cuttings
<1>3. \A cuts \in Cuttings : Cardinality(cuts) \in Nat
  <2>. SUFFICES ASSUME NEW cuts \in Cuttings PROVE Cardinality(cuts) \in Nat
    OBVIOUS
  <2>1. 2 \in Int /\ n \in Int /\ cuts \in SUBSET (2 .. n)
    BY <1>1 DEF Cuttings
  <2>2. IsFiniteSet(2 .. n)
    BY <2>1, FS_Interval
  <2> QED
    BY <2>1, <2>2, FS_Subset, FS_CardinalityType
<1>4. counts \subseteq Nat /\ counts # {}
  BY <1>2, <1>3
<1>5. Min(counts) \in counts
  <2>. HIDE DEF counts
  <2> QED
    BY <1>4, LeastIs
<1>6. PICK cuts \in Cuttings : FewestPieces = Cardinality(cuts) + 1
  BY <1>5, FewestIs
<1>7. CASE WholeText.length <= Budget
  <2>1. SplitText = <<WholeText>>
    BY <1>7 DEF SplitText
  <2>2. Len(SplitText) = 1
    BY <2>1
  <2>3. Cardinality(cuts) \in Nat
    BY <1>3
  <2> QED
    BY <1>6, <2>2, <2>3
<1>8. CASE ~(WholeText.length <= Budget)
  <2>1. SplitText = PiecesOf(FoldLeft(Packed, NoPacking, Atoms))
    BY <1>8 DEF SplitText, PiecesOf, NoPacking
  <2>2. cuts \in SUBSET (2 .. Len(Atoms)) /\ FitsCut(Atoms, cuts)
    BY DEF Cuttings
  <2>3. Len(PiecesOf(FoldLeft(Packed, NoPacking, Atoms))) <= Cardinality(cuts) + 1
    BY <1>1, <2>2, GreedyIsBest
  <2> QED
    BY <1>6, <2>1, <2>3
<1> QED
  BY <1>7, <1>8

\* split_text "splits, never truncates", into no more pieces than needed.
LEMMA KeepsTheText == ASSUME ChunksTypeOK PROVE PiecesKeepTheText
<1>1. /\ SplitText \in Seq(Stretches(Letter))
      /\ Letters(SplitText) = WholeText.letters
      /\ \A k \in 1 .. Len(SplitText) : SplitText[k].length \in 1 .. Budget
  BY SplitKeepsLetters
<1>2. DOMAIN SplitText = 1 .. Len(SplitText)
  BY <1>1
<1>3. FlattenSeq([n \in DOMAIN SplitText |-> SplitText[n].letters]) = WholeText.letters
  BY <1>1 DEF Letters, LettersOf
<1>4. WholeText # NoText => Len(SplitText) <= FewestPieces
  BY SplitIsFewest
<1> QED
  BY <1>1, <1>2, <1>3, <1>4 DEF PiecesKeepTheText

-----------------------------------------------------------------------------
(* The windows of a log. *)

\* The windows hold every entry, cut to its share of the budget, in order.
LEMMA HoldsTheLog == ASSUME ChunksTypeOK PROVE WindowsHoldTheLog
<1>. DEFINE L == Len(log)
            P == PerWindow
            n == WindowCount(log)
            X == {Min({x, ItemBudget}) : x \in EntryLengths}
            w == [i \in DOMAIN log |-> Min({log[i], ItemBudget})]
            rows == [k \in 1 .. n |-> Window(log, k - 1)]
            to(k) == Min({k * P, L})
            cut(k) == SubSeq(w, (k - 1) * P + 1, to(k))
<1>1. P \in Nat \ {0} /\ L \in Nat /\ DOMAIN log = 1 .. L /\ \A i \in 1 .. L : log[i] \in EntryLengths
  BY DEF ChunksAssumption, ChunksTypeOK
<1>2. w \in Seq(X) /\ Len(w) = L /\ \A i \in 1 .. L : w[i] = Min({log[i], ItemBudget}) /\ w[i] \in X
  <2>1. \A i \in 1 .. L : Min({log[i], ItemBudget}) \in X
    BY <1>1
  <2>2. w = [i \in 1 .. L |-> Min({log[i], ItemBudget})]
    BY <1>1
  <2>. HIDE DEF X, L
  <2> QED
    BY <1>1, <2>1, <2>2
<1>3. n = (L + P - 1) \div P
  BY DEF WindowCount
<1>. HIDE DEF L, P
<1>4. /\ n \in Nat /\ L <= n * P
      /\ \A k \in 1 .. n : (k - 1) * P \in Nat /\ (k - 1) * P + 1 <= L /\ k * P = (k - 1) * P + P
  BY <1>1, <1>3, RoundingUp
<1>. HIDE DEF n
<1>5. ASSUME NEW k \in 1 .. n
      PROVE  /\ to(k) \in Nat /\ to(k) <= L /\ to(k) >= (k - 1) * P + 1
             /\ to(k) - (k - 1) * P = Min({P, L - (k - 1) * P})
  <2>. DEFINE m == (k - 1) * P
  <2>1. m \in Nat /\ m + 1 <= L /\ k * P = m + P
    BY <1>4
  <2>2. to(k) = IF m + P <= L THEN m + P ELSE L
    <3>1. to(k) = Min({m + P, L})
      BY <2>1
    <3>. HIDE DEF m, to
    <3>2. m + P \in Int /\ L \in Int
      BY <1>1, <2>1
    <3>3. Min({m + P, L}) = IF m + P <= L THEN m + P ELSE L
      BY <3>2, MinOfTwo
    <3> QED
      BY <3>1, <3>3
  <2>. HIDE DEF m
  <2>3. Min({P, L - m}) = IF P <= L - m THEN P ELSE L - m
    BY <1>1, <2>1, MinOfTwo
  <2>. HIDE DEF to
  <2>4. to(k) \in Nat /\ to(k) <= L /\ to(k) >= m + 1
    BY <1>1, <2>1, <2>2
  <2>5. to(k) - m = Min({P, L - m})
    BY <1>1, <2>1, <2>2, <2>3
  <2> QED
    BY <2>4, <2>5 DEF m
<1>. HIDE DEF to, w
<1>6. ASSUME NEW k \in 1 .. n PROVE rows[k] = cut(k) /\ cut(k) \in Seq(X)
  <2>. DEFINE m == (k - 1) * P
              size == to(k) - m
  <2>1. m \in Nat /\ to(k) \in Nat /\ to(k) <= L /\ to(k) >= m + 1 /\ size = Min({P, L - m})
    BY <1>4, <1>5
  <2>2. rows[k] = [i \in 1 .. size |-> Min({log[m + i], ItemBudget})]
    BY <2>1 DEF Window, L, P
  <2>3. size \in Nat
    <3>. HIDE DEF m
    <3> QED
      BY <2>1
  <2>4. \A i \in 1 .. size : m + i \in 1 .. L /\ Min({log[m + i], ItemBudget}) = w[m + i]
    <3>1. \A i \in 1 .. size : m + i \in 1 .. L
      <4>. HIDE DEF m
      <4> QED
        BY <1>1, <2>1
    <3>. HIDE DEF size, m
    <3> QED
      BY <1>2, <3>1
  <2>5. rows[k] = [i \in 1 .. size |-> w[m + i]]
    <3>. HIDE DEF size, m, rows
    <3> QED
      BY <2>2, <2>4
  <2>6. /\ SubSeq(w, m + 1, to(k)) \in Seq(X) /\ Len(SubSeq(w, m + 1, to(k))) = size
        /\ \A i \in 1 .. size : SubSeq(w, m + 1, to(k))[i] = w[m + i]
    <3>. HIDE DEF m
    <3>. DEFINE a == m + 1
                b == to(k)
    <3>0. \A i \in a .. b : i \in 1 .. L
      BY <1>1, <2>1
    <3>1. a \in Int /\ b \in Int /\ a <= b /\ \A i \in a .. b : w[i] \in X
      <4>. HIDE DEF X
      <4> QED
        BY <1>2, <2>1, <3>0
    <3>3. b - a + 1 = size /\ \A i \in 1 .. size : a + i - 1 = m + i
      BY <2>1
    <3>. HIDE DEF a, b, size
    <3>4. SubSeq(w, a, b) \in Seq(X)
      <4>. HIDE DEF X
      <4> QED
        BY <3>1, SubSeqProperties
    <3>5. Len(SubSeq(w, a, b)) = size
      <4>. HIDE DEF X
      <4> QED
        BY <3>1, <3>3, SubSeqProperties
    <3>6. \A i \in 1 .. size : SubSeq(w, a, b)[i] = w[a + i - 1]
      <4>. HIDE DEF X
      <4> QED
        BY <3>1, <3>3, SubSeqProperties
    <3>7. \A i \in 1 .. size : SubSeq(w, a, b)[i] = w[m + i]
      BY <3>3, <3>6
    <3> QED
      BY <3>4, <3>5, <3>7 DEF a, b
  <2>7. SubSeq(w, m + 1, to(k)) = [i \in 1 .. size |-> w[m + i]]
    <3>. DEFINE q == SubSeq(w, m + 1, to(k))
    <3>1. q \in Seq(X) /\ Len(q) = size /\ \A i \in 1 .. size : q[i] = w[m + i]
      BY <2>6
    <3>. HIDE DEF q, size, m
    <3>2. q = [i \in 1 .. size |-> w[m + i]]
      BY <2>3, <3>1
    <3> QED
      BY <3>2 DEF q
  <2>. HIDE DEF size, rows
  <2> QED
    BY <2>5, <2>6, <2>7 DEF m
<1>. DEFINE g == [k \in 0 .. n |-> SubSeq(w, 1, IF k = 0 THEN 0 ELSE to(k))]
<1>7. g[0] = <<>>
  <2>1. 0 \in 0 .. n
    BY <1>4
  <2> QED
    BY <2>1, SubSeqEmpty
<1>8. ASSUME NEW k \in 1 .. n PROVE g[k] = g[k - 1] \o rows[k]
  <2>. DEFINE m == (k - 1) * P
  <2>1. k \in 0 .. n /\ k - 1 \in 0 .. n /\ k # 0
    BY <1>4
  <2>2. m \in Nat /\ m + 1 <= L /\ to(k) \in Nat /\ to(k) <= L /\ to(k) >= m + 1
    BY <1>4, <1>5
  <2>3. g[k - 1] = SubSeq(w, 1, m)
    <3>1. CASE k - 1 = 0
      <4>1. m = 0
        BY <1>1, <3>1
      <4> QED
        BY <2>1, <3>1, <4>1
    <3>2. CASE k - 1 # 0
      <4>1. Min({(k - 1) * P, L}) = (k - 1) * P
        <5>. HIDE DEF m
        <5>1. Min({m, L}) = IF m <= L THEN m ELSE L
          BY <1>1, <2>2, MinOfTwo
        <5> QED
          BY <1>1, <2>2, <5>1 DEF m
      <4>2. to(k - 1) = m
        BY <4>1 DEF to
      <4> QED
        BY <2>1, <3>2, <4>2
    <3> QED
      BY <3>1, <3>2
  <2>4. rows[k] = SubSeq(w, m + 1, to(k)) /\ g[k] = SubSeq(w, 1, to(k))
    <3>. HIDE DEF rows
    <3> QED
      BY <1>6, <2>1
  <2>. HIDE DEF m, g, rows
  <2>5. 1 \in 1 .. Len(w) + 1 /\ m \in 1 - 1 .. Len(w) /\ to(k) \in m .. Len(w)
    BY <1>1, <1>2, <2>2
  <2>6. SubSeq(w, 1, m) \o SubSeq(w, m + 1, to(k)) = SubSeq(w, 1, to(k))
    BY <1>2, <2>5, ConcatAdjacentSubSeq
  <2> QED
    BY <2>3, <2>4, <2>6
<1>9. g[n] = w
  <2>1. n \in 0 .. n
    BY <1>4
  <2>2. CASE n = 0
    <3>1. L = 0
      <4>1. 0 * P = 0
        BY <1>1
      <4> QED
        BY <1>1, <1>4, <2>2, <4>1
    <3>2. w = <<>>
      BY <1>2, <3>1
    <3> QED
      BY <1>7, <2>2, <3>2
  <2>3. CASE n # 0
    <3>1. Min({n * P, L}) = L
      <4>. DEFINE m == n * P
      <4>1. m \in Nat /\ L <= m
        BY <1>1, <1>4
      <4>. HIDE DEF m
      <4>2. Min({m, L}) = IF m <= L THEN m ELSE L
        BY <1>1, <4>1, MinOfTwo
      <4>3. Min({m, L}) = L
        BY <1>1, <4>1, <4>2
      <4> QED
        BY <4>3 DEF m
    <3>2. g[n] = SubSeq(w, 1, Len(w))
      BY <1>2, <2>1, <2>3, <3>1 DEF to
    <3>. HIDE DEF g
    <3> QED
      BY <1>2, <3>2, SubSeqFull
  <2> QED
    BY <2>2, <2>3
<1>10. rows \in Seq(Seq(X)) /\ Len(rows) = n
  <2>1. \A k \in 1 .. n : rows[k] \in Seq(X)
    <3>. HIDE DEF rows, X, cut
    <3> QED
      BY <1>6
  <2>2. \A k \in 1 .. n : Window(log, k - 1) \in Seq(X)
    BY <2>1
  <2>. HIDE DEF X
  <2> QED
    BY <1>4, <2>2
<1>. HIDE DEF g, rows, X
<1>11. Appends(g, rows)
  BY <1>7, <1>8, <1>10 DEF Appends
<1>12. FlattenSeq(rows) = w
  BY <1>9, <1>10, <1>11, FlattenIsOne
<1> QED
  BY <1>12 DEF WindowsHoldTheLog, rows, n, w

\* What rounding down means, for a dividend and a divisor of any size.
LEMMA Rounding ==
  ASSUME NEW a \in Nat, NEW b \in Nat \ {0}
  PROVE  /\ a \div b \in Nat
         /\ b * (a \div b) <= a
         /\ a < b * ((a \div b) + 1)
OBVIOUS

\* A multiple grows with its factor.
LEMMA Multiples ==
  ASSUME NEW b \in Nat \ {0}, NEW x \in Int, NEW y \in Int, b * x < b * y
  PROVE  x < y
OBVIOUS

\* Factors in order have multiples in order.
LEMMA MultiplesInOrder ==
  ASSUME NEW b \in Nat, NEW x \in Int, NEW y \in Int, x <= y
  PROVE  b * x <= b * y
<1>1. PICK d \in Nat : y = x + d
  <2>1. y - x \in Nat /\ y = x + (y - x)
    OBVIOUS
  <2> QED
    BY <2>1
<1>2. b * d \in Nat /\ b * x \in Int
  OBVIOUS
<1>3. b * y = b * x + b * d
  BY <1>1
<1> QED
  BY <1>2, <1>3

\* The texts stay texts of their fields, and the log a log.
THEOREM ChunksTyped == ChunksSpec => []ChunksTypeOK
<1>. DEFINE Texts_ == text = [f \in ToSet(FieldOrder) |-> text[f]]
<1>1. ChunksInit => ChunksTypeOK /\ Texts_
  BY ChunksAssumption DEF ChunksInit, ChunksTypeOK
<1>2. ChunksTypeOK /\ Texts_ /\ [ChunksNext]_chunksVars => ChunksTypeOK' /\ Texts_'
  <2> SUFFICES ASSUME ChunksTypeOK, Texts_, [ChunksNext]_chunksVars PROVE ChunksTypeOK' /\ Texts_'
    OBVIOUS
  <2>1. CASE UNCHANGED chunksVars
    BY <2>1 DEF chunksVars, ChunksTypeOK
  <2>2. ASSUME NEW f \in ToSet(FieldOrder), EditField(f) PROVE ChunksTypeOK' /\ Texts_'
    <3>1. PICK new \in TextsOf[f] : text' = [text EXCEPT ![f] = new]
      BY <2>2 DEF EditField
    <3> QED
      BY <2>2, <3>1 DEF EditField, ChunksTypeOK
  <2>3. CASE AppendEntry
    BY <2>3 DEF AppendEntry, ChunksTypeOK
  <2> QED
    BY <2>1, <2>2, <2>3 DEF ChunksNext
<1> QED
  BY <1>1, <1>2, PTL DEF ChunksSpec

\* An entry added to a log rewrites its last window only: _window_chunks, for any
\* budget, any entries per window, any log.
THEOREM OldWindowsStand == ChunksSpec => []WindowsStand
<1>1. log \in Seq(EntryLengths) => WindowsStand
  <2> SUFFICES ASSUME log \in Seq(EntryLengths), NEW length \in EntryLengths,
                      NEW n \in 0 .. WindowCount(Append(log, length)) - 2
               PROVE  /\ n < WindowCount(log)
                      /\ Window(Append(log, length), n) = Window(log, n)
    BY DEF WindowsStand
  <2> DEFINE L == Len(log)
             longer == Append(log, length)
             P == PerWindow
  <2>1. L \in Nat /\ P \in Nat \ {0} /\ Len(longer) = L + 1
    BY ChunksAssumption DEF ChunksAssumption
  <2>2. WindowCount(longer) = (L + P) \div P
    BY <2>1 DEF WindowCount
  <2>3. P * ((L + P) \div P) <= L + P /\ (L + P) \div P \in Nat
    BY <2>1, Rounding
  <2>4. n \in Nat /\ n + 2 <= (L + P) \div P
    BY <2>1, <2>2, <2>3
  <2>5. P * (n + 2) <= P * ((L + P) \div P)
    <3>1. \A m \in Nat : n + 2 <= m => P * (n + 2) <= P * m
      BY <2>1, <2>4, MultiplesInOrder
    <3> QED
      BY <2>3, <2>4, <3>1
  <2>6. P * n + P <= L
    BY <2>1, <2>3, <2>4, <2>5
  <2>7. n < WindowCount(log)
    <3>1. L + P - 1 < P * (((L + P - 1) \div P) + 1) /\ (L + P - 1) \div P \in Nat
      BY <2>1, Rounding
    <3>2. P * (n + 1) < P * (((L + P - 1) \div P) + 1)
      BY <2>1, <2>4, <2>6, <3>1
    <3>3. n + 1 < ((L + P - 1) \div P) + 1
      BY <2>1, <2>4, <3>1, <3>2, Multiples
    <3> QED BY <2>1, <2>4, <3>1, <3>3 DEF WindowCount
  <2>8. \A i \in 1 .. P : n * P + i \in 1 .. L
    BY <2>1, <2>4, <2>6
  <2>9. \A i \in 1 .. P : longer[n * P + i] = log[n * P + i]
    BY <2>1, <2>8
  <2>10. Min({P, L - n * P}) = P /\ Min({P, (L + 1) - n * P}) = P
    BY <2>1, <2>4, <2>6 DEF Min
  <2> QED
    BY <2>1, <2>7, <2>9, <2>10 DEF Window
<1> QED
  BY <1>1, ChunksTyped, PTL DEF ChunksTypeOK

\* The chunks of an object follow its content: split_text cuts without loss into the
\* fewest pieces the atoms allow, and _window_chunks keeps every entry of a log, and its
\* old windows as they were when one is added; for any texts, logs, budget and window.
THEOREM ChunksFollow == ChunksSpec => []ChunksFollowTheText
<1>1. ChunksTypeOK => PiecesKeepTheText /\ WindowsHoldTheLog
  BY KeepsTheText, HoldsTheLog
<1>2. ChunksTypeOK /\ WindowsStand => ChunksFollowTheText
  BY <1>1 DEF ChunksFollowTheText
<1> QED
  BY <1>2, ChunksTyped, OldWindowsStand, PTL
=============================================================================
