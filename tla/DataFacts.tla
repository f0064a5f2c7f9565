----------------------------- MODULE DataFacts -----------------------------
(***************************************************************************)
(* What the proofs need to know of data: induction over the natural        *)
(* numbers with a set in place of a predicate, and what follows from it    *)
(* for finite sets and for the loops of the code; sequences that are put   *)
(* together and taken apart; and digits of five bits.  No variables.       *)
(***************************************************************************)
EXTENDS Integers, FiniteSets, FiniteSetsExt, SequencesExt,
        WellFoundedInduction, FiniteSetTheorems, SequenceTheorems, TLAPS

(* Every set of natural numbers that is not empty has a least element. *)
LEMMA LeastNatural ==
    ASSUME NEW S \in SUBSET Nat, S # {}
    PROVE  \E n \in S : \A m \in S : n <= m
  <1>1. PICK n \in S : \A m \in S : ~ (<<m, n>> \in OpToRel(<, Nat))
    BY NatLessThanWellFounded, WFMin
  <1>2. \A m \in S : ~ (m < n)
    BY <1>1, Zenon DEF OpToRel
  <1>3. \E x \in S : \A m \in S : ~ (m < x)
    BY <1>2
  <1> QED BY <1>3

(* A set with 0 and with every successor holds all natural numbers. *)
LEMMA InductionOnSet ==
    ASSUME NEW S, 0 \in S, \A n \in Nat : n \in S => n + 1 \in S
    PROVE  \A n \in Nat : n \in S
  <1> SUFFICES ASSUME NEW k \in Nat, k \notin S PROVE FALSE
    OBVIOUS
  <1> DEFINE Bad == {n \in Nat : n \notin S}
  <1>1. PICK b \in Bad : \A m \in Bad : b <= m
    BY LeastNatural
  <1>2. b \in Nat /\ b # 0 /\ b - 1 \in Nat /\ b - 1 \notin Bad
    BY <1>1
  <1> QED BY <1>1, <1>2

(* A finite set of integers that is not empty has a largest element. *)
LEMMA FiniteSetHasMax ==
    ASSUME NEW S \in SUBSET Int, IsFiniteSet(S), S # {}
    PROVE  \E x \in S : \A y \in S : x >= y
  <1> DEFINE HasMax(T) == \E x \in T : \A y \in T : x >= y
             Sizes == {n \in Nat : \A T \in SUBSET Int :
                          IsFiniteSet(T) /\ Cardinality(T) = n + 1 => HasMax(T)}
  <1>1. 0 \in Sizes
    <2> SUFFICES ASSUME NEW T \in SUBSET Int, IsFiniteSet(T), Cardinality(T) = 1
                 PROVE  HasMax(T)
      OBVIOUS
    <2>1. PICK x : T = {x}
      BY FS_Singleton
    <2> QED BY <2>1
  <1>2. ASSUME NEW n \in Nat, n \in Sizes PROVE n + 1 \in Sizes
    <2> SUFFICES ASSUME NEW T \in SUBSET Int, IsFiniteSet(T), Cardinality(T) = n + 2
                 PROVE  HasMax(T)
      OBVIOUS
    <2>1. T # {}
      BY FS_EmptySet
    <2>2. PICK z \in T : TRUE
      BY <2>1
    <2>3. IsFiniteSet(T \ {z}) /\ Cardinality(T \ {z}) = n + 1
      BY FS_RemoveElement
    <2>4. PICK x \in T \ {z} : \A y \in T \ {z} : x >= y
      BY <1>2, <2>3
    <2>5. CASE x >= z
      BY <2>4, <2>5
    <2>6. CASE ~ (x >= z)
      BY <2>4, <2>6
    <2> QED BY <2>5, <2>6
  <1>3. \A n \in Nat : n \in Sizes
    <2> HIDE DEF Sizes
    <2> QED BY <1>1, <1>2, InductionOnSet
  <1>4. Cardinality(S) \in Nat /\ Cardinality(S) # 0
    BY FS_CardinalityType, FS_EmptySet
  <1>5. Cardinality(S) - 1 \in Sizes
    BY <1>3, <1>4
  <1> QED BY <1>4, <1>5

(* What Max stands for then. *)
LEMMA MaxOfFinite ==
    ASSUME NEW S \in SUBSET Int, IsFiniteSet(S), S # {}
    PROVE  Max(S) \in S /\ \A y \in S : Max(S) >= y
  BY FiniteSetHasMax DEF Max

(* What Min stands for. *)
LEMMA MinOfNaturals ==
    ASSUME NEW S \in SUBSET Nat, S # {}
    PROVE  Min(S) \in S /\ \A y \in S : Min(S) <= y
  BY LeastNatural DEF Min

(* f holds what a loop of n turns, turn i of which does g[i], has computed  *)
(* before the first turn and after each of them.                            *)
Turns(f, T, b, n, g) ==
    /\ f \in [0 .. n -> T] /\ f[0] = b
    /\ \A i \in 1 .. n : f[i] = g[i][f[i - 1]]

(* Every loop computes something. *)
LEMMA LoopExists ==
    ASSUME NEW T, NEW b \in T, NEW n \in Nat, NEW g \in [1 .. n -> [T -> T]]
    PROVE  \E f : Turns(f, T, b, n, g)
  <1> DEFINE Upto(f, k) == /\ f \in [0 .. k -> T] /\ f[0] = b
                           /\ \A i \in 1 .. k : f[i] = g[i][f[i - 1]]
             Has == {k \in Nat : k <= n => \E f : Upto(f, k)}
  <1> HIDE DEF Upto, Has
  <1>1. 0 \in Has
    <2>1. Upto([i \in 0 .. 0 |-> b], 0)
      BY DEF Upto
    <2> QED BY <2>1 DEF Has
  <1>2. ASSUME NEW k \in Nat, k \in Has PROVE k + 1 \in Has
    <2> SUFFICES ASSUME k + 1 <= n PROVE \E f : Upto(f, k + 1)
      BY DEF Has
    <2>1. PICK f : Upto(f, k)
      BY <1>2 DEF Has
    <2> DEFINE h == [i \in 0 .. k + 1 |-> IF i = k + 1 THEN g[k + 1][f[k]] ELSE f[i]]
    <2>2. f[k] \in T /\ k + 1 \in 1 .. n
      BY <2>1 DEF Upto
    <2>3. g[k + 1] \in [T -> T]
      BY <2>2
    <2>4. g[k + 1][f[k]] \in T
      BY <2>2, <2>3
    <2>5. h \in [0 .. k + 1 -> T] /\ h[0] = b
      BY <2>1, <2>4 DEF Upto
    <2>6. ASSUME NEW i \in 1 .. k + 1 PROVE h[i] = g[i][h[i - 1]]
      <3>1. CASE i = k + 1
        BY <3>1
      <3>2. CASE i # k + 1
        <4>1. i \in 1 .. k /\ i - 1 \in 0 .. k + 1 /\ i - 1 # k + 1 /\ i \in 0 .. k + 1
          BY <3>2
        <4>2. f[i] = g[i][f[i - 1]]
          BY <2>1, <4>1 DEF Upto
        <4> QED BY <3>2, <4>1, <4>2
      <3> QED BY <3>1, <3>2
    <2>7. Upto(h, k + 1)
      BY <2>5, <2>6 DEF Upto
    <2> QED BY <2>7
  <1>3. \A k \in Nat : k \in Has
    BY <1>1, <1>2, InductionOnSet
  <1>4. \E f : Upto(f, n)
    BY <1>3 DEF Has
  <1> QED BY <1>4 DEF Upto, Turns

(* A loop of N turns, whose states are A, goes through the states s, of     *)
(* which s[i] has used up q[i] of the turns at most, and stays in the last. *)
GoesThrough(A, N, s, K, q) ==
    /\ A[0] = s[0]
    /\ \A i \in 1 .. K : \/ s[i] = s[i - 1] /\ q[i] >= q[i - 1]
                         \/ /\ q[i] > q[i - 1]
                            /\ \A n \in 1 .. N : A[n - 1] = s[i - 1] => A[n] = s[i]
    /\ \A n \in 1 .. N : A[n - 1] = s[K] => A[n] = s[K]

(* It ends there. *)
LEMMA LoopFollows ==
    ASSUME NEW N \in Nat, NEW K \in Nat, NEW A, NEW s, NEW q \in [0 .. K -> 0 .. N],
           GoesThrough(A, N, s, K, q)
    PROVE  A[N] = s[K]
  <1> USE DEF GoesThrough
  <1> DEFINE Reached(i) == \E k \in 0 .. N : k <= q[i] /\ A[k] = s[i]
             At == {i \in Nat : i <= K => Reached(i)}
  <1>1. 0 \in At
    <2>1. 0 \in 0 .. K /\ q[0] \in 0 .. N /\ 0 \in 0 .. N
      OBVIOUS
    <2>2. 0 <= q[0]
      BY <2>1
    <2> QED BY <2>1, <2>2
  <1>2. ASSUME NEW i \in Nat, i \in At PROVE i + 1 \in At
    <2>1. SUFFICES ASSUME i + 1 <= K PROVE Reached(i + 1)
      OBVIOUS
    <2>2. i + 1 \in 1 .. K /\ (i + 1) - 1 = i /\ q[i] \in 0 .. N /\ q[i + 1] \in 0 .. N
      BY <2>1
    <2>3. PICK k \in 0 .. N : k <= q[i] /\ A[k] = s[i]
      BY <1>2, <2>1
    <2>4. CASE s[i + 1] = s[i] /\ q[i + 1] >= q[i]
      <3>1. k <= q[i + 1] /\ A[k] = s[i + 1]
        BY <2>2, <2>3, <2>4
      <3> QED BY <3>1
    <2>5. CASE q[i + 1] > q[i] /\ \A n \in 1 .. N : A[n - 1] = s[i] => A[n] = s[i + 1]
      <3>1. k + 1 \in 0 .. N /\ k + 1 \in 1 .. N /\ (k + 1) - 1 = k /\ k + 1 <= q[i + 1]
        BY <2>2, <2>3, <2>5
      <3>2. A[k + 1] = s[i + 1]
        BY <2>3, <2>5, <3>1
      <3> QED BY <3>1, <3>2
    <2> QED BY <2>2, <2>4, <2>5
  <1>3. K \in At
    <2> HIDE DEF At
    <2> QED BY <1>1, <1>2, InductionOnSet
  <1>4. PICK k \in 0 .. N : A[k] = s[K]
    BY <1>3
  <1> DEFINE End == {n \in Nat : k + n <= N => A[k + n] = s[K]}
  <1>5. 0 \in End
    BY <1>4
  <1>6. ASSUME NEW n \in Nat, n \in End PROVE n + 1 \in End
    <2>1. SUFFICES ASSUME k + (n + 1) <= N PROVE A[k + (n + 1)] = s[K]
      OBVIOUS
    <2> DEFINE m == k + (n + 1)
    <2>2. m \in 1 .. N /\ m - 1 = k + n /\ A[k + n] = s[K]
      BY <1>6, <2>1
    <2> QED BY <2>2
  <1>7. N - k \in End
    <2> HIDE DEF End
    <2>1. N - k \in Nat
      OBVIOUS
    <2> QED BY <1>5, <1>6, <2>1, InductionOnSet
  <1> QED BY <1>7

-----------------------------------------------------------------------------
(* Sequences. *)

(* Strings over fewer characters. *)
LEMMA SeqMonotone ==
    ASSUME NEW S, NEW T, S \subseteq T, NEW s \in Seq(S)
    PROVE  s \in Seq(T) /\ Len(s) \in Nat /\ \A i \in 1 .. Len(s) : s[i] \in S
  <1>1. Len(s) \in Nat /\ \A i \in 1 .. Len(s) : s[i] \in S
    BY ElementOfSeq
  <1>2. s \in [1 .. Len(s) -> T]
    BY <1>1, LenProperties
  <1> QED BY <1>1, <1>2, SeqDef

(* The parts of a string that c separates. *)
LEMMA Joined ==
    ASSUME NEW S, NEW c \in S, NEW a \in Seq(S), NEW x \in Seq(S)
    PROVE  LET k == a \o <<c>> \o x
           IN  /\ k \in Seq(S)
               /\ Len(k) = Len(a) + 1 + Len(x)
               /\ \A i \in 1 .. Len(a) : k[i] = a[i]
               /\ k[Len(a) + 1] = c
               /\ \A i \in 1 .. Len(x) : k[Len(a) + 1 + i] = x[i]
  <1> DEFINE h == a \o <<c>>
             k == h \o x
  <1>1. /\ h \in Seq(S) /\ Len(h) = Len(a) + 1
        /\ \A i \in 1 .. Len(a) : h[i] = a[i]
        /\ h[Len(a) + 1] = c
    OBVIOUS
  <1> HIDE DEF h
  <1>2. /\ k \in Seq(S) /\ Len(k) = Len(h) + Len(x)
        /\ \A i \in 1 .. Len(h) + Len(x) : k[i] = IF i <= Len(h) THEN h[i] ELSE x[i - Len(h)]
    BY <1>1, ConcatProperties
  <1> HIDE DEF k
  <1>3. Len(a) \in Nat /\ Len(x) \in Nat
    OBVIOUS
  <1>4. \A i \in 1 .. Len(a) : k[i] = a[i]
    BY <1>1, <1>2, <1>3
  <1>5. k[Len(a) + 1] = c
    BY <1>1, <1>2, <1>3
  <1>6. ASSUME NEW i \in 1 .. Len(x) PROVE k[Len(a) + 1 + i] = x[i]
    BY <1>1, <1>2, <1>3
  <1> QED BY <1>1, <1>2, <1>4, <1>5, <1>6 DEF k, h

(* A string is split in one way at the first c. *)
LEMMA SplitAtFirst ==
    ASSUME NEW S, NEW c \in S, NEW a \in Seq(S), NEW x \in Seq(S),
           NEW b \in Seq(S), NEW y \in Seq(S),
           \A i \in 1 .. Len(a) : a[i] # c, \A i \in 1 .. Len(b) : b[i] # c,
           a \o <<c>> \o x = b \o <<c>> \o y
    PROVE  a = b /\ x = y
  <1> DEFINE k == a \o <<c>> \o x
             l == b \o <<c>> \o y
  <1>1. /\ Len(k) = Len(a) + 1 + Len(x)
        /\ \A i \in 1 .. Len(a) : k[i] = a[i]
        /\ k[Len(a) + 1] = c
        /\ \A i \in 1 .. Len(x) : k[Len(a) + 1 + i] = x[i]
    BY Joined
  <1>2. /\ Len(l) = Len(b) + 1 + Len(y)
        /\ \A i \in 1 .. Len(b) : l[i] = b[i]
        /\ l[Len(b) + 1] = c
        /\ \A i \in 1 .. Len(y) : l[Len(b) + 1 + i] = y[i]
    BY Joined
  <1>3. k = l
    OBVIOUS
  <1>4. Len(a) \in Nat /\ Len(b) \in Nat /\ Len(x) \in Nat /\ Len(y) \in Nat
    OBVIOUS
  <1> HIDE DEF k, l
  <1>5. Len(a) = Len(b)
    <2>1. ASSUME Len(a) < Len(b) PROVE FALSE
      <3>1. Len(a) + 1 \in 1 .. Len(b)
        BY <1>4, <2>1
      <3>2. l[Len(a) + 1] = b[Len(a) + 1]
        BY <1>2, <3>1
      <3> QED BY <1>1, <1>3, <3>1, <3>2
    <2>2. ASSUME Len(b) < Len(a) PROVE FALSE
      <3>1. Len(b) + 1 \in 1 .. Len(a)
        BY <1>4, <2>2
      <3>2. k[Len(b) + 1] = a[Len(b) + 1]
        BY <1>1, <3>1
      <3> QED BY <1>2, <1>3, <3>1, <3>2
    <2> QED BY <1>4, <2>1, <2>2
  <1>6. Len(x) = Len(y)
    BY <1>1, <1>2, <1>3, <1>4, <1>5
  <1>7. \A i \in 1 .. Len(a) : a[i] = b[i]
    BY <1>1, <1>2, <1>3, <1>5
  <1>8. \A i \in 1 .. Len(x) : x[i] = y[i]
    BY <1>1, <1>2, <1>3, <1>5, <1>6
  <1> QED BY <1>5, <1>6, <1>7, <1>8, SeqEqual

(* A beginning of a string, character by character. *)
LEMMA Beginning ==
    ASSUME NEW S, NEW s \in Seq(S), NEW n \in 0 .. Len(s)
    PROVE  /\ SubSeq(s, 1, n) \in Seq(S) /\ Len(SubSeq(s, 1, n)) = n
           /\ \A j \in 1 .. n : SubSeq(s, 1, n)[j] = s[j]
  <1>1. \A i \in 1 .. n : s[i] \in S
    BY ElementOfSeq
  <1>2. n \in Nat /\ 1 \in Int /\ n \in Int
    OBVIOUS
  <1>3. /\ SubSeq(s, 1, n) \in Seq(S) /\ Len(SubSeq(s, 1, n)) = IF 1 <= n THEN n - 1 + 1 ELSE 0
        /\ \A i \in 1 .. n - 1 + 1 : SubSeq(s, 1, n)[i] = s[1 + i - 1]
    BY <1>1, <1>2, SubSeqProperties
  <1> QED BY <1>2, <1>3

(* A string cut short. *)
LEMMA CutOf ==
    ASSUME NEW S, NEW s \in Seq(S), NEW m \in 0 .. Len(s)
    PROVE  LET c == SubSeq(s, 1, m)
           IN  c \in Seq(S) /\ Len(c) = m /\ \A k \in 1 .. m : c[k] = s[k]
  <1>1. Len(s) \in Nat /\ m \in Nat /\ m <= Len(s)
    OBVIOUS
  <1> QED BY <1>1

(* The data cut short. *)
LEMMA CutTyped ==
    ASSUME NEW S, NEW data \in Seq(S), NEW m \in 0 .. Len(data)
    PROVE  LET c == SubSeq(data, 1, m)
           IN  /\ c \in Seq(S) /\ Len(c) = m /\ \A k \in 1 .. m : c[k] = data[k]
               /\ \A i \in Nat \ {0}, j \in Nat : j <= m => SubSeq(c, i, j) = SubSeq(data, i, j)
  <1> DEFINE c == SubSeq(data, 1, m)
  <1>0. Len(data) \in Nat /\ m \in Nat /\ \A k \in 1 .. Len(data) : data[k] \in S
    BY ElementOfSeq
  <1>1. c \in Seq(S) /\ Len(c) = m /\ \A k \in 1 .. m : c[k] = data[k]
    BY CutOf
  <1> HIDE DEF c
  <1>2. ASSUME NEW i \in Nat \ {0}, NEW j \in Nat, j <= m PROVE SubSeq(c, i, j) = SubSeq(data, i, j)
    <2> DEFINE x == SubSeq(c, i, j)
               y == SubSeq(data, i, j)
    <2>1. \A k \in i .. j : k \in 1 .. m /\ c[k] = data[k] /\ data[k] \in S /\ c[k] \in S
      BY <1>0, <1>1, <1>2
    <2>2. i \in Int /\ j \in Int
      OBVIOUS
    <2>3. /\ x \in Seq(S) /\ Len(x) = (IF i <= j THEN j - i + 1 ELSE 0)
          /\ \A k \in 1 .. j - i + 1 : x[k] = c[i + k - 1]
      BY <2>1, <2>2, SubSeqProperties
    <2>4. /\ y \in Seq(S) /\ Len(y) = (IF i <= j THEN j - i + 1 ELSE 0)
          /\ \A k \in 1 .. j - i + 1 : y[k] = data[i + k - 1]
      BY <2>1, <2>2, SubSeqProperties
    <2> HIDE DEF x, y
    <2>5. ASSUME NEW k \in 1 .. Len(x) PROVE x[k] = y[k]
      <3>1. k \in 1 .. j - i + 1 /\ i + k - 1 \in i .. j
        BY <2>3
      <3> QED BY <2>1, <2>3, <2>4, <3>1
    <2>6. x = y
      BY <2>3, <2>4, <2>5, SeqEqual
    <2> QED BY <2>6 DEF x, y
  <1> QED BY <1>1, <1>2 DEF c

(* Three characters in a row. *)
LEMMA Triple ==
    ASSUME NEW S, NEW s \in Seq(S), NEW i \in 1 .. Len(s) - 2
    PROVE  SubSeq(s, i, i + 2) = <<s[i], s[i + 1], s[i + 2]>>
  <1>1. Len(s) \in Nat /\ i \in Int /\ i + 2 \in Int /\ \A k \in i .. i + 2 : k \in 1 .. Len(s)
    OBVIOUS
  <1>2. \A k \in i .. i + 2 : s[k] \in S
    BY <1>1, ElementOfSeq
  <1>3. /\ SubSeq(s, i, i + 2) \in Seq(S)
        /\ Len(SubSeq(s, i, i + 2)) = IF i <= i + 2 THEN (i + 2) - i + 1 ELSE 0
        /\ \A k \in 1 .. (i + 2) - i + 1 : SubSeq(s, i, i + 2)[k] = s[i + k - 1]
    BY <1>1, <1>2, SubSeqProperties
  <1>4. (i + 2) - i + 1 = 3 /\ i <= i + 2 /\ i + 1 - 1 = i /\ i + 2 - 1 = i + 1 /\ i + 3 - 1 = i + 2
    BY <1>1
  <1> DEFINE a == SubSeq(s, i, i + 2)
             b == <<s[i], s[i + 1], s[i + 2]>>
  <1>5. a \in Seq(S) /\ Len(a) = 3 /\ a[1] = s[i] /\ a[2] = s[i + 1] /\ a[3] = s[i + 2]
    <2>1. 1 \in 1 .. 3 /\ 2 \in 1 .. 3 /\ 3 \in 1 .. 3
      OBVIOUS
    <2> QED BY <1>3, <1>4, <2>1, ZenonT(40)
  <1>6. s[i] \in S /\ s[i + 1] \in S /\ s[i + 2] \in S
    BY <1>1, <1>2
  <1>7. b \in Seq(S) /\ Len(b) = 3 /\ b[1] = s[i] /\ b[2] = s[i + 1] /\ b[3] = s[i + 2]
    BY <1>6
  <1> HIDE DEF a, b
  <1>8. \A k \in 1 .. 3 : a[k] = b[k]
    BY <1>5, <1>7
  <1>9. a = b
    BY <1>5, <1>7, <1>8, SeqEqual
  <1> QED BY <1>9 DEF a, b

(* One character more. *)
LEMMA Appended ==
    ASSUME NEW a \in Seq(Int), NEW g \in Int
    PROVE  /\ Append(a, g) \in Seq(Int) /\ Len(Append(a, g)) = Len(a) + 1
           /\ \A i \in 1 .. Len(a) : Append(a, g)[i] = a[i]
           /\ Append(a, g)[Len(a) + 1] = g
  BY AppendProperties

(* A string of one character, and one that continues it. *)
LEMMA OneCharacter ==
    ASSUME NEW p \in Int, NEW g \in Int
    PROVE  Append(<<p>>, g) = <<p, g>> /\ Len(<<p>>) = 1 /\ <<p>> # <<>> /\ Append(<<>>, p) = <<p>>
           /\ Len(<<p, g>>) = 2 /\ <<p, g>>[2] = g
  <1>1. Append(<<>>, p) = <<p>> /\ Len(<<p>>) = 1 /\ <<p>> # <<>>
    OBVIOUS
  <1> DEFINE a == <<p>>
             c == <<p, g>>
  <1>2. a \in Seq(Int) /\ Len(a) = 1 /\ a[1] = p
    OBVIOUS
  <1>3. c \in Seq(Int) /\ Len(c) = 2 /\ c[1] = p /\ c[2] = g
    OBVIOUS
  <1> HIDE DEF a, c
  <1>4. Append(a, g) \in Seq(Int) /\ Len(Append(a, g)) = 2 /\ Append(a, g)[1] = p /\ Append(a, g)[2] = g
    <2>1. /\ Append(a, g) \in Seq(Int) /\ Len(Append(a, g)) = Len(a) + 1
          /\ \A i \in 1 .. Len(a) : Append(a, g)[i] = a[i]
          /\ Append(a, g)[Len(a) + 1] = g
      BY <1>2, Appended, Zenon
    <2>2. 1 \in 1 .. Len(a) /\ Len(a) + 1 = 2
      BY <1>2
    <2> QED BY <1>2, <2>1, <2>2, Zenon
  <1>5. \A i \in 1 .. 2 : i = 1 \/ i = 2
    OBVIOUS
  <1>6. Append(a, g) = c
    BY <1>3, <1>4, <1>5, SeqEqual
  <1> QED BY <1>1, <1>3, <1>6 DEF a, c

(* Concatenation, as an operator that the provers leave alone. *)
Cat(a, b) == a \o b

(* Two strings, one after the other. *)
LEMMA CatProperties ==
    ASSUME NEW S, NEW a \in Seq(S), NEW b \in Seq(S)
    PROVE  /\ Cat(a, b) \in Seq(S) /\ Len(Cat(a, b)) = Len(a) + Len(b)
           /\ \A i \in 1 .. Len(a) + Len(b) : Cat(a, b)[i] = IF i <= Len(a) THEN a[i] ELSE b[i - Len(a)]
  BY ConcatProperties DEF Cat

(* Concatenation is associative. *)
LEMMA Reassociated ==
    ASSUME NEW S, NEW a \in Seq(S), NEW b \in Seq(S), NEW c \in Seq(S)
    PROVE  Cat(Cat(a, b), c) = Cat(a, Cat(b, c))
  <1> DEFINE A == Len(a)
             B == Len(b)
             C == Len(c)
             ab == Cat(a, b)
             bc == Cat(b, c)
             l == Cat(ab, c)
             r == Cat(a, bc)
  <1>0. A \in Nat /\ B \in Nat /\ C \in Nat
    OBVIOUS
  <1>1. /\ ab \in Seq(S) /\ Len(ab) = A + B
        /\ \A i \in 1 .. A + B : ab[i] = IF i <= A THEN a[i] ELSE b[i - A]
    BY CatProperties
  <1>2. /\ bc \in Seq(S) /\ Len(bc) = B + C
        /\ \A i \in 1 .. B + C : bc[i] = IF i <= B THEN b[i] ELSE c[i - B]
    BY CatProperties
  <1> HIDE DEF ab, bc
  <1>3. /\ l \in Seq(S) /\ Len(l) = Len(ab) + C
        /\ \A i \in 1 .. Len(ab) + C : l[i] = IF i <= Len(ab) THEN ab[i] ELSE c[i - Len(ab)]
    <2>1. ab \in Seq(S)
      BY <1>1, Zenon
    <2> QED BY <2>1, CatProperties
  <1>4. /\ r \in Seq(S) /\ Len(r) = A + Len(bc)
        /\ \A i \in 1 .. A + Len(bc) : r[i] = IF i <= A THEN a[i] ELSE bc[i - A]
    <2>1. bc \in Seq(S)
      BY <1>2, Zenon
    <2> QED BY <2>1, CatProperties
  <1> HIDE DEF l, r, A, B, C
  <1>5. Len(l) = A + B + C /\ Len(r) = A + B + C
    BY <1>0, <1>1, <1>2, <1>3, <1>4
  <1>6. ASSUME NEW i \in 1 .. A + B + C PROVE l[i] = r[i]
    <2>1. CASE i <= A
      <3>1. i \in 1 .. A + B /\ i <= A + B /\ i \in 1 .. (A + B) + C /\ i \in 1 .. A + (B + C)
        BY <1>0, <2>1
      <3>2. l[i] = ab[i] /\ ab[i] = a[i]
        BY <1>1, <1>3, <2>1, <3>1
      <3>3. r[i] = a[i]
        BY <1>2, <1>4, <2>1, <3>1
      <3> QED BY <3>2, <3>3
    <2>2. CASE i > A /\ i <= A + B
      <3>1. i \in 1 .. A + B /\ i - A \in 1 .. B + C /\ i - A <= B /\ ~ (i <= A)
        BY <1>0, <2>2
      <3>2. l[i] = b[i - A]
        BY <1>0, <1>1, <1>3, <2>2, <3>1
      <3>3. r[i] = bc[i - A]
        BY <1>0, <1>2, <1>4, <2>2, <3>1
      <3> QED BY <1>2, <3>1, <3>2, <3>3
    <2>3. CASE i > A + B
      <3>1. i - A \in 1 .. B + C /\ ~ (i - A <= B) /\ ~ (i <= A) /\ ~ (i <= A + B) /\ i - (A + B) = (i - A) - B
        BY <1>0, <2>3
      <3>2. l[i] = c[i - (A + B)]
        BY <1>0, <1>1, <1>3, <2>3, <3>1
      <3>3. r[i] = bc[i - A]
        BY <1>0, <1>2, <1>4, <2>3, <3>1
      <3> QED BY <1>2, <3>1, <3>2, <3>3
    <2> QED BY <1>0, <2>1, <2>2, <2>3
  <1>7. l = r
    BY <1>3, <1>4, <1>5, <1>6, SeqEqual
  <1> QED BY <1>7 DEF l, r, ab, bc

(* What two strings have in front can be taken away. *)
LEMMA Cancelled ==
    ASSUME NEW S, NEW a \in Seq(S), NEW b \in Seq(S), NEW c \in Seq(S), Cat(a, b) = Cat(a, c)
    PROVE  b = c
  <1> DEFINE l == Cat(a, b)
             r == Cat(a, c)
  <1>0. Len(a) \in Nat /\ Len(b) \in Nat /\ Len(c) \in Nat
    OBVIOUS
  <1>1. Len(l) = Len(a) + Len(b)
        /\ \A i \in 1 .. Len(a) + Len(b) : l[i] = IF i <= Len(a) THEN a[i] ELSE b[i - Len(a)]
    BY CatProperties
  <1>2. Len(r) = Len(a) + Len(c)
        /\ \A i \in 1 .. Len(a) + Len(c) : r[i] = IF i <= Len(a) THEN a[i] ELSE c[i - Len(a)]
    BY CatProperties
  <1>3. l = r
    OBVIOUS
  <1> HIDE DEF l, r
  <1>4. Len(b) = Len(c)
    BY <1>0, <1>1, <1>2, <1>3
  <1>5. ASSUME NEW i \in 1 .. Len(b) PROVE b[i] = c[i]
    <2>1. Len(a) + i \in 1 .. Len(a) + Len(b) /\ ~ (Len(a) + i <= Len(a)) /\ (Len(a) + i) - Len(a) = i
      BY <1>0
    <2>2. l[Len(a) + i] = b[i]
      BY <1>1, <2>1
    <2>3. r[Len(a) + i] = c[i]
      BY <1>2, <1>4, <2>1
    <2> QED BY <1>3, <2>2, <2>3
  <1> QED BY <1>4, <1>5, SeqEqual

(* The characters of a part in the middle. *)
LEMMA PartInside ==
    ASSUME NEW S, NEW a \in Seq(S), NEW b \in Seq(S), NEW x \in Seq(S)
    PROVE  /\ Len(Cat(a, b)) = Len(a) + Len(b)
           /\ Len(Cat(a, Cat(b, x))) = Len(a) + Len(b) + Len(x)
           /\ \A j \in 1 .. Len(b) : Cat(a, Cat(b, x))[Len(a) + j] = b[j]
  <1> DEFINE bx == Cat(b, x)
             k == Cat(a, bx)
  <1>0. Len(a) \in Nat /\ Len(b) \in Nat /\ Len(x) \in Nat
    OBVIOUS
  <1>1. /\ bx \in Seq(S) /\ Len(bx) = Len(b) + Len(x)
        /\ \A i \in 1 .. Len(b) + Len(x) : bx[i] = IF i <= Len(b) THEN b[i] ELSE x[i - Len(b)]
    BY CatProperties
  <1> HIDE DEF bx
  <1>2. /\ k \in Seq(S) /\ Len(k) = Len(a) + Len(bx)
        /\ \A i \in 1 .. Len(a) + Len(bx) : k[i] = IF i <= Len(a) THEN a[i] ELSE bx[i - Len(a)]
    <2>1. bx \in Seq(S)
      BY <1>1, Zenon
    <2> QED BY <2>1, CatProperties
  <1> HIDE DEF k
  <1>3. ASSUME NEW j \in 1 .. Len(b) PROVE k[Len(a) + j] = b[j]
    <2>1. /\ Len(a) + j \in 1 .. Len(a) + Len(bx) /\ ~ (Len(a) + j <= Len(a)) /\ (Len(a) + j) - Len(a) = j
          /\ j \in 1 .. Len(b) + Len(x) /\ j <= Len(b)
      BY <1>0, <1>1
    <2>2. k[Len(a) + j] = bx[j]
      BY <1>2, <2>1
    <2> QED BY <1>1, <2>1, <2>2
  <1>4. Len(Cat(a, b)) = Len(a) + Len(b)
    BY CatProperties
  <1>5. Len(k) = Len(a) + Len(b) + Len(x)
    BY <1>0, <1>1, <1>2
  <1> QED BY <1>3, <1>4, <1>5 DEF k, bx

(* FlattenSeq appends one string after the other. *)
LEMMA FlattenTurns ==
    ASSUME NEW S, NEW r \in Seq(Seq(S))
    PROVE  \E f \in [0 .. Len(r) -> Seq(S)] :
               /\ f[0] = <<>> /\ FlattenSeq(r) = f[Len(r)]
               /\ \A i \in 1 .. Len(r) : f[i] = Cat(f[i - 1], r[i])
  <1> DEFINE n == Len(r)
             T == Seq(S)
             F == CHOOSE flatten : flatten = [i \in 1 .. Len(r) |->
                      IF i = 1 THEN r[i] ELSE Cat(flatten[i - 1], r[i])]
  <1>0. n \in Nat /\ <<>> \in T /\ \A i \in 1 .. n : r[i] \in T
    BY ElementOfSeq
  <1>1. FlattenSeq(r) = IF n = 0 THEN r ELSE F[n]
    BY DEF FlattenSeq, Cat
  <1>2. PICK f \in [0 .. n -> T] : f[0] = <<>> /\ \A i \in 1 .. n : f[i] = Cat(f[i - 1], r[i])
    <2> DEFINE g == [i \in 1 .. n |-> [x \in T |-> Cat(x, r[i])]]
    <2>1. ASSUME NEW i \in 1 .. n, NEW x \in T PROVE Cat(x, r[i]) \in T
      <3>1. r[i] \in T
        BY <1>0
      <3> QED BY <3>1, CatProperties
    <2>2. g \in [1 .. n -> [T -> T]]
      BY <2>1
    <2>3. \A i \in 1 .. n : \A x \in T : g[i][x] = Cat(x, r[i])
      OBVIOUS
    <2> DEFINE b == <<>>
    <2>b. b \in T /\ n \in Nat
      BY <1>0
    <2> HIDE DEF g, n, T, F, b
    <2>c. PICK f : Turns(f, T, b, n, g)
      BY <2>2, <2>b, LoopExists
    <2>4. f \in [0 .. n -> T] /\ f[0] = b /\ \A i \in 1 .. n : f[i] = g[i][f[i - 1]]
      BY <2>c DEF Turns
    <2>5. ASSUME NEW i \in 1 .. n PROVE f[i] = Cat(f[i - 1], r[i])
      <3>1. i - 1 \in 0 .. n
        BY <1>0
      <3>2. f[i - 1] \in T
        BY <2>4, <3>1
      <3> QED BY <2>3, <2>4, <3>2
    <2> QED BY <2>4, <2>5 DEF b
  <1> HIDE DEF T
  <1>3. ASSUME n # 0 PROVE F[n] = f[n]
    <2> DEFINE h == [i \in 1 .. n |-> f[i]]
    <2>1. h = [i \in 1 .. Len(r) |-> IF i = 1 THEN r[i] ELSE Cat(h[i - 1], r[i])]
      <3>1. ASSUME NEW i \in 1 .. n PROVE f[i] = IF i = 1 THEN r[i] ELSE Cat(h[i - 1], r[i])
        <4>1. CASE i = 1
          <5>1. f[1] = Cat(<<>>, r[1])
            <6>1. f[1] = Cat(f[1 - 1], r[1]) /\ 1 - 1 = 0
              BY <1>2, <4>1
            <6> QED BY <1>2, <6>1
          <5>2. r[1] \in Seq(S)
            BY <1>0, <4>1 DEF T
          <5> QED BY <4>1, <5>1, <5>2, ConcatEmptySeq DEF Cat
        <4>2. CASE i # 1
          <5>1. i - 1 \in 1 .. n
            BY <1>0, <4>2
          <5> QED BY <1>2, <4>2, <5>1
        <4> QED BY <4>1, <4>2
      <3> QED BY <3>1
    <2>2. F = [i \in 1 .. Len(r) |-> IF i = 1 THEN r[i] ELSE Cat(F[i - 1], r[i])]
      <3> HIDE DEF h
      <3> QED BY <2>1
    <2> HIDE DEF F
    <2> DEFINE Same == {i \in Nat : i \in 1 .. n => F[i] = h[i]}
    <2>3. \A i \in 1 .. n : F[i] = IF i = 1 THEN r[i] ELSE Cat(F[i - 1], r[i])
      BY <2>2
    <2>4. \A i \in 1 .. n : h[i] = IF i = 1 THEN r[i] ELSE Cat(h[i - 1], r[i])
      BY <2>1
    <2> HIDE DEF h
    <2>5. 0 \in Same
      BY <1>0
    <2>6. ASSUME NEW i \in Nat, i \in Same PROVE i + 1 \in Same
      <3> SUFFICES ASSUME i + 1 \in 1 .. n PROVE F[i + 1] = h[i + 1]
        OBVIOUS
      <3>1. CASE i = 0
        BY <2>3, <2>4, <3>1
      <3>2. CASE i # 0
        <4>1. i \in 1 .. n /\ (i + 1) - 1 = i /\ i + 1 # 1
          BY <1>0, <3>2
        <4>2. F[i] = h[i]
          BY <2>6, <4>1
        <4> QED BY <2>3, <2>4, <4>1, <4>2
      <3> QED BY <3>1, <3>2
    <2>7. \A i \in Nat : i \in Same
      <3> HIDE DEF Same
      <3> QED BY <2>5, <2>6, InductionOnSet
    <2>8. n \in 1 .. n
      BY <1>0, <1>3
    <2>9. F[n] = h[n]
      BY <1>0, <2>7, <2>8
    <2> QED BY <2>8, <2>9 DEF h
  <1>4. FlattenSeq(r) = f[n]
    <2>1. CASE n = 0
      <3>1. r = <<>>
        BY <2>1
      <3> QED BY <1>1, <1>2, <2>1, <3>1
    <2>2. CASE n # 0
      BY <1>1, <1>3, <2>2
    <2> QED BY <2>1, <2>2
  <1> QED BY <1>2, <1>4 DEF T

(* What is put together from strings over S is one over S. *)
LEMMA FlattenOver ==
    ASSUME NEW S, NEW r \in Seq(Seq(S))
    PROVE  FlattenSeq(r) \in Seq(S)
  <1>0. Len(r) \in Nat
    OBVIOUS
  <1>1. PICK f \in [0 .. Len(r) -> Seq(S)] : FlattenSeq(r) = f[Len(r)]
    BY FlattenTurns, Zenon
  <1> QED BY <1>0, <1>1

(* FlattenSeq of empty strings and of the characters of s, one by one and   *)
(* in their order, is s; K counts the characters.                           *)
LEMMA FlattenKept ==
    ASSUME NEW S, NEW s \in Seq(S), NEW r \in Seq(Seq(S)), NEW K \in [0 .. Len(r) -> 0 .. Len(s)],
           K[0] = 0, K[Len(r)] = Len(s),
           \A i \in 1 .. Len(r) : \/ r[i] = <<>> /\ K[i] = K[i - 1]
                                  \/ r[i] = <<s[K[i]]>> /\ K[i] = K[i - 1] + 1
    PROVE  FlattenSeq(r) = s
  <1> DEFINE n == Len(r)
  <1>1. n \in Nat /\ Len(s) \in Nat /\ \A i \in 1 .. n : r[i] \in Seq(S)
    BY ElementOfSeq
  <1>2. PICK f \in [0 .. n -> Seq(S)] :
               /\ f[0] = <<>> /\ FlattenSeq(r) = f[n]
               /\ \A i \in 1 .. n : f[i] = Cat(f[i - 1], r[i])
    BY FlattenTurns
  <1> HIDE DEF n
  <1> DEFINE At == {i \in Nat : i <= n => Len(f[i]) = K[i] /\ \A k \in 1 .. K[i] : f[i][k] = s[k]}
  <1>3. 0 \in At
    BY <1>2
  <1>4. ASSUME NEW i \in Nat, i \in At PROVE i + 1 \in At
    <2>1. SUFFICES ASSUME i + 1 <= n
                   PROVE  Len(f[i + 1]) = K[i + 1] /\ \A k \in 1 .. K[i + 1] : f[i + 1][k] = s[k]
      OBVIOUS
    <2> DEFINE a == f[i]
               b == r[i + 1]
               c == f[i + 1]
    <2>2. i + 1 \in 1 .. n /\ (i + 1) - 1 = i /\ i \in 0 .. n /\ i + 1 \in 0 .. n
      BY <1>1, <2>1
    <2>3. /\ a \in Seq(S) /\ Len(a) = K[i] /\ \A k \in 1 .. K[i] : a[k] = s[k]
          /\ K[i] \in Nat /\ K[i + 1] \in Nat
      <3>1. K[i] \in 0 .. Len(s) /\ K[i + 1] \in 0 .. Len(s) /\ a \in Seq(S)
        BY <2>2, Zenon DEF n
      <3>2. K[i] \in Nat /\ K[i + 1] \in Nat
        BY <1>1, <3>1
      <3>3. i <= n
        BY <1>1, <2>1
      <3> QED BY <1>4, <3>1, <3>2, <3>3, Zenon
    <2>4. c = Cat(a, b) /\ b \in Seq(S)
      BY <1>1, <1>2, <2>2
    <2>5. \/ b = <<>> /\ K[i + 1] = K[i]
          \/ b = <<s[K[i + 1]]>> /\ K[i + 1] = K[i] + 1
      BY <2>2 DEF n
    <2> HIDE DEF a, b, c
    <2>6. Len(c) = Len(a) + Len(b) /\ \A k \in 1 .. Len(a) + Len(b) : c[k] = IF k <= Len(a) THEN a[k] ELSE b[k - Len(a)]
      <3>1. a \in Seq(S) /\ b \in Seq(S)
        BY <2>3, <2>4
      <3>2. Len(Cat(a, b)) = Len(a) + Len(b) /\ \A k \in 1 .. Len(a) + Len(b) :
                Cat(a, b)[k] = IF k <= Len(a) THEN a[k] ELSE b[k - Len(a)]
        BY <3>1, CatProperties
      <3> QED BY <2>4, <3>2, Zenon
    <2>7. CASE b = <<>> /\ K[i + 1] = K[i]
      <3> DEFINE m == K[i]
      <3>1. Len(b) = 0
        BY <2>7
      <3>2. m \in Nat /\ Len(a) = m /\ Len(a) + Len(b) = m
        BY <2>3, <3>1
      <3>3. Len(c) = m /\ \A k \in 1 .. m : c[k] = IF k <= m THEN a[k] ELSE b[k - m]
        BY <2>6, <3>2, Zenon
      <3> HIDE DEF m
      <3>4. \A k \in 1 .. m : c[k] = a[k]
        BY <3>2, <3>3
      <3> QED BY <2>3, <2>7, <3>3, <3>4, Zenon DEF c, m
    <2>8. CASE b = <<s[K[i + 1]]>> /\ K[i + 1] = K[i] + 1
      <3> DEFINE m == K[i]
      <3>1. Len(b) = 1 /\ b[1] = s[m + 1]
        BY <2>8
      <3> HIDE DEF m
      <3>2. m \in Nat /\ Len(c) = m + 1 /\ \A k \in 1 .. m + 1 : c[k] = IF k <= m THEN a[k] ELSE b[k - m]
        BY <2>3, <2>6, <3>1 DEF m
      <3>3. ASSUME NEW k \in 1 .. m + 1 PROVE c[k] = s[k]
        <4>1. CASE k <= m
          BY <2>3, <3>2, <4>1 DEF m
        <4>2. CASE ~ (k <= m)
          <5>1. k = m + 1 /\ k - m = 1
            BY <3>2, <4>2
          <5> QED BY <3>1, <3>2, <4>2, <5>1, Zenon
        <4> QED BY <4>1, <4>2
      <3> QED BY <2>8, <3>2, <3>3 DEF c, m
    <2> QED BY <2>5, <2>7, <2>8
  <1>5. n \in At
    <2> HIDE DEF At
    <2> QED BY <1>1, <1>3, <1>4, InductionOnSet
  <1>6. f[n] \in Seq(S) /\ Len(f[n]) = Len(s) /\ \A k \in 1 .. Len(s) : f[n][k] = s[k]
    <2>1. n \in 0 .. n /\ n <= n
      BY <1>1
    <2>2. f[n] \in Seq(S) /\ K[n] = Len(s)
      BY <2>1, Zenon DEF n
    <2> QED BY <1>5, <2>1, <2>2, Zenon
  <1> QED BY <1>2, <1>6, SeqEqual

(* Nothing is cut out of a text when every character is kept. *)
LEMMA NothingCutOut ==
    ASSUME NEW S, NEW s \in Seq(S), NEW r, r = [i \in DOMAIN s |-> <<s[i]>>]
    PROVE  FlattenSeq(r) = s
  <1> DEFINE n == Len(s)
             K == [i \in 0 .. n |-> i]
  <1>1. n \in Nat /\ DOMAIN s = 1 .. n /\ \A i \in 1 .. n : s[i] \in S
    BY ElementOfSeq, LenProperties
  <1>2. r \in [1 .. n -> Seq(S)] /\ \A i \in 1 .. n : r[i] = <<s[i]>>
    <2>1. \A i \in 1 .. n : <<s[i]>> \in Seq(S)
      BY <1>1
    <2> QED BY <1>1, <2>1, Zenon
  <1>3. r \in Seq(Seq(S)) /\ Len(r) = n
    <2> HIDE DEF n
    <2> QED BY <1>1, <1>2, SeqDef, LenProperties
  <1>4. /\ K \in [0 .. n -> 0 .. n] /\ K[0] = 0 /\ K[n] = n
        /\ \A i \in 1 .. n : K[i] = i /\ K[i] = K[i - 1] + 1
    <2> HIDE DEF n
    <2> QED BY <1>1
  <1>5. \A i \in 1 .. n : r[i] = <<s[K[i]]>> /\ K[i] = K[i - 1] + 1
    BY <1>2, <1>4, Zenon
  <1> HIDE DEF K
  <1> QED BY <1>3, <1>4, <1>5, FlattenKept DEF n

(* A character that is put in where there was none is cut out again. *)
LEMMA PutInAndCutOut ==
    ASSUME NEW S, NEW s \in Seq(S), NEW x \in S, \A i \in 1 .. Len(s) : s[i] # x, NEW j \in 1 .. Len(s)
    PROVE  LET t == Cat(Cat(SubSeq(s, 1, j - 1), <<x>>), SubSeq(s, j, Len(s)))
           IN  FlattenSeq([i \in DOMAIN t |-> IF t[i] = x THEN <<>> ELSE <<t[i]>>]) = s /\ t # <<>>
  <1> DEFINE n == Len(s)
             a == SubSeq(s, 1, j - 1)
             b == SubSeq(s, j, n)
             c == Cat(a, <<x>>)
             t == Cat(c, b)
             r == [i \in DOMAIN t |-> IF t[i] = x THEN <<>> ELSE <<t[i]>>]
             K == [i \in 0 .. n + 1 |-> IF i < j THEN i ELSE i - 1]
  <1>1. n \in Nat /\ DOMAIN s = 1 .. n /\ \A i \in 1 .. n : s[i] \in S
    BY ElementOfSeq, LenProperties
  <1> HIDE DEF n
  <1>2. /\ a \in Seq(S) /\ Len(a) = j - 1 /\ \A i \in 1 .. j - 1 : a[i] = s[i]
        /\ b \in Seq(S) /\ Len(b) = n - j + 1 /\ \A i \in 1 .. n - j + 1 : b[i] = s[j + i - 1]
    <2>1. j \in 1 .. n
      BY DEF n
    <2> QED BY <1>1, <2>1, SubSeqProperties DEF n
  <1> HIDE DEF a, b
  <1> DEFINE y == <<x>>
  <1>3. y \in Seq(S) /\ Len(y) = 1 /\ y[1] = x /\ j \in 1 .. n
    BY DEF n
  <1> HIDE DEF y
  <1>4. c \in Seq(S) /\ Len(c) = j /\ c[j] = x /\ \A i \in 1 .. j - 1 : c[i] = s[i]
    <2>1. /\ Cat(a, y) \in Seq(S) /\ Len(Cat(a, y)) = Len(a) + Len(y)
          /\ \A i \in 1 .. Len(a) + Len(y) : Cat(a, y)[i] = IF i <= Len(a) THEN a[i] ELSE y[i - Len(a)]
      BY <1>2, <1>3, CatProperties
    <2>2. c = Cat(a, y)
      BY DEF y
    <2> HIDE DEF c
    <2>3. c \in Seq(S) /\ Len(c) = j /\ \A i \in 1 .. j : c[i] = IF i <= j - 1 THEN a[i] ELSE y[i - (j - 1)]
      BY <1>2, <1>3, <2>1, <2>2
    <2>4. \A i \in 1 .. j - 1 : i \in 1 .. j /\ i <= j - 1
      BY <1>1, <1>3
    <2>5. j \in 1 .. j /\ ~ (j <= j - 1) /\ j - (j - 1) = 1
      BY <1>1, <1>3
    <2> QED BY <1>2, <1>3, <2>3, <2>4, <2>5
  <1> HIDE DEF c
  <1>5. /\ t \in Seq(S) /\ Len(t) = n + 1 /\ t[j] = x
        /\ \A i \in 1 .. n + 1 : (i < j => t[i] = s[i]) /\ (i > j => t[i] = s[i - 1])
    <2>1. /\ t \in Seq(S) /\ Len(t) = Len(c) + Len(b)
          /\ \A i \in 1 .. Len(c) + Len(b) : t[i] = IF i <= Len(c) THEN c[i] ELSE b[i - Len(c)]
      BY <1>2, <1>4, CatProperties
    <2> HIDE DEF t
    <2>2. Len(c) + Len(b) = n + 1
      BY <1>1, <1>2, <1>3, <1>4
    <2>3. \A i \in 1 .. n + 1 : t[i] = IF i <= j THEN c[i] ELSE b[i - j]
      BY <1>4, <2>1, <2>2
    <2>4. ASSUME NEW i \in 1 .. n + 1, i > j PROVE t[i] = s[i - 1]
      <3>1. i - j \in 1 .. n - j + 1 /\ j + (i - j) - 1 = i - 1 /\ ~ (i <= j)
        BY <1>1, <1>3, <2>4
      <3>2. t[i] = b[i - j]
        BY <2>3, <3>1
      <3> QED BY <1>2, <3>1, <3>2
    <2>5. ASSUME NEW i \in 1 .. n + 1, i < j PROVE t[i] = s[i]
      <3>1. i \in 1 .. j - 1 /\ i <= j
        BY <1>1, <1>3, <2>5
      <3> QED BY <1>4, <2>3, <3>1
    <2>6. j \in 1 .. n + 1 /\ j <= j
      BY <1>1, <1>3
    <2> QED BY <1>4, <2>1, <2>2, <2>3, <2>4, <2>5, <2>6
  <1> HIDE DEF t
  <1>6. /\ K \in [0 .. n + 1 -> 0 .. n] /\ K[0] = 0 /\ K[n + 1] = n
        /\ \A i \in 1 .. n + 1 :
              \/ i = j /\ K[i] = K[i - 1]
              \/ i # j /\ K[i] = K[i - 1] + 1 /\ t[i] = s[K[i]] /\ K[i] \in 1 .. n
    <2>1. K \in [0 .. n + 1 -> 0 .. n] /\ K[0] = 0 /\ K[n + 1] = n
      BY <1>1, <1>3
    <2>2. \A i \in 0 .. n + 1 : K[i] = IF i < j THEN i ELSE i - 1
      OBVIOUS
    <2> HIDE DEF K
    <2>3. ASSUME NEW i \in 1 .. n + 1
          PROVE  \/ i = j /\ K[i] = K[i - 1]
                 \/ i # j /\ K[i] = K[i - 1] + 1 /\ t[i] = s[K[i]] /\ K[i] \in 1 .. n
      <3>1. K[i] = (IF i < j THEN i ELSE i - 1) /\ K[i - 1] = IF i - 1 < j THEN i - 1 ELSE (i - 1) - 1
        <4>1. i \in 0 .. n + 1 /\ i - 1 \in 0 .. n + 1
          BY <1>1
        <4> QED BY <2>2, <4>1
      <3>2. CASE i = j
        BY <1>1, <3>1, <3>2
      <3>3. CASE i < j
        <4>1. K[i] = i /\ K[i - 1] = i - 1 /\ i \in 1 .. n /\ i # j
          BY <1>1, <1>3, <3>1, <3>3
        <4> QED BY <1>5, <3>3, <4>1
      <3>4. CASE i > j
        <4>1. K[i] = i - 1 /\ K[i - 1] = i - 2 /\ i - 1 \in 1 .. n /\ i # j
          BY <1>1, <1>3, <3>1, <3>4
        <4> QED BY <1>5, <3>4, <4>1
      <3> QED BY <1>1, <1>3, <3>2, <3>3, <3>4
    <2> QED BY <2>1, <2>3
  <1>7. DOMAIN t = 1 .. n + 1 /\ \A i \in 1 .. n + 1 : t[i] \in S
    BY <1>5, ElementOfSeq, LenProperties
  <1>8. r \in [1 .. n + 1 -> Seq(S)]
    <2>1. <<>> \in Seq(S) /\ \A z \in S : <<z>> \in Seq(S)
      OBVIOUS
    <2> QED BY <1>7, <2>1, Zenon
  <1>9. \A i \in 1 .. n + 1 : \/ r[i] = <<>> /\ K[i] = K[i - 1]
                              \/ r[i] = <<s[K[i]]>> /\ K[i] = K[i - 1] + 1
    BY <1>5, <1>6, <1>7, Zenon DEF n
  <1> HIDE DEF r, K
  <1>10. r \in Seq(Seq(S)) /\ Len(r) = n + 1
    BY <1>1, <1>8, SeqDef, LenProperties
  <1>11. FlattenSeq(r) = s
    <2>1. K \in [0 .. Len(r) -> 0 .. Len(s)] /\ K[0] = 0 /\ K[Len(r)] = Len(s)
      BY <1>6, <1>10 DEF n
    <2>2. \A i \in 1 .. Len(r) : \/ r[i] = <<>> /\ K[i] = K[i - 1]
                                 \/ r[i] = <<s[K[i]]>> /\ K[i] = K[i - 1] + 1
      BY <1>9, <1>10, Zenon
    <2> QED BY <1>10, <2>1, <2>2, FlattenKept
  <1>12. t # <<>>
    BY <1>1, <1>5
  <1> QED BY <1>11, <1>12 DEF t, r, c, b, a, n

(* t begins with s. *)
Begins(s, t) == Len(s) <= Len(t) /\ \A i \in 1 .. Len(s) : s[i] = t[i]

(* As the specification says it. *)
LEMMA BeginsIsPrefix ==
    ASSUME NEW S, NEW s \in Seq(S), NEW t \in Seq(S), Begins(s, t)
    PROVE  IsPrefix(s, t)
  <1> DEFINE n == Len(s)
             y == SubSeq(t, 1, n)
  <1>0. n \in Nat /\ Len(t) \in Nat /\ n <= Len(t) /\ \A i \in 1 .. n : s[i] = t[i]
    BY DEF Begins
  <1>1. y \in Seq(S) /\ Len(y) = n /\ \A i \in 1 .. n : y[i] = t[i]
    BY <1>0
  <1>2. y = s
    <2> HIDE DEF y
    <2> QED BY <1>0, <1>1, SeqEqual
  <1>3. SubSeq(s, 1, n) = s
    BY SubSeqFull
  <1> QED BY <1>0, <1>2, <1>3 DEF IsPrefix

(* A string inside another one. *)
Holds(data, i, s) == i + Len(s) - 1 <= Len(data) /\ \A k \in 1 .. Len(s) : data[i + (k - 1)] = s[k]

(* It can be cut out again. *)
LEMMA HeldIsPart ==
    ASSUME NEW S, NEW data \in Seq(S), NEW i \in Nat \ {0}, NEW s \in Seq(S), Holds(data, i, s)
    PROVE  SubSeq(data, i, i + Len(s) - 1) = s
  <1> DEFINE n == Len(s)
             j == i + Len(s) - 1
             y == SubSeq(data, i, j)
  <1>0. n \in Nat /\ j \in Int /\ i \in Int /\ j <= Len(data) /\ j - i + 1 = n /\ Len(data) \in Nat
    BY DEF Holds
  <1>1. \A k \in i .. j : data[k] \in S
    <2>1. \A k \in 1 .. Len(data) : data[k] \in S
      BY ElementOfSeq
    <2>2. \A k \in i .. j : k \in 1 .. Len(data)
      BY <1>0
    <2> QED BY <2>1, <2>2
  <1> HIDE DEF j
  <1>2. /\ y \in Seq(S) /\ Len(y) = (IF i <= j THEN j - i + 1 ELSE 0)
        /\ \A k \in 1 .. j - i + 1 : y[k] = data[i + k - 1]
    <2> QED BY <1>0, <1>1, SubSeqProperties
  <1>3. Len(y) = n
    BY <1>0, <1>2
  <1> HIDE DEF y
  <1>4. ASSUME NEW k \in 1 .. n PROVE y[k] = s[k]
    <2>1. k \in 1 .. j - i + 1 /\ i + k - 1 = i + (k - 1)
      BY <1>0
    <2>2. data[i + (k - 1)] = s[k]
      BY DEF Holds
    <2> QED BY <1>2, <2>1, <2>2
  <1> HIDE DEF n
  <1>5. y = s
    BY <1>2, <1>3, <1>4, SeqEqual DEF n
  <1> QED BY <1>5 DEF y, j

(* Two strings in a row. *)
LEMMA HoldsBoth ==
    ASSUME NEW S, NEW data \in Seq(S), NEW i \in Nat \ {0}, NEW a \in Seq(S), NEW b \in Seq(S),
           Holds(data, i, a \o b)
    PROVE  Holds(data, i, a) /\ Holds(data, i + Len(a), b)
  <1> DEFINE c == a \o b
  <1>0. Len(a) \in Nat /\ Len(b) \in Nat /\ Len(data) \in Nat
    OBVIOUS
  <1>1. /\ Len(c) = Len(a) + Len(b)
        /\ \A k \in 1 .. Len(a) : c[k] = a[k]
        /\ \A k \in 1 .. Len(b) : c[Len(a) + k] = b[k]
    <2>1. /\ Len(c) = Len(a) + Len(b)
          /\ \A k \in 1 .. Len(a) + Len(b) : c[k] = IF k <= Len(a) THEN a[k] ELSE b[k - Len(a)]
      BY ConcatProperties
    <2> HIDE DEF c
    <2>2. ASSUME NEW k \in 1 .. Len(b) PROVE c[Len(a) + k] = b[k]
      <3>1. Len(a) + k \in 1 .. Len(a) + Len(b) /\ ~ (Len(a) + k <= Len(a)) /\ (Len(a) + k) - Len(a) = k
        BY <1>0
      <3> QED BY <2>1, <3>1, Zenon
    <2> QED BY <1>0, <2>1, <2>2
  <1>2. i + Len(c) - 1 <= Len(data) /\ \A k \in 1 .. Len(c) : data[i + (k - 1)] = c[k]
    BY DEF Holds
  <1> HIDE DEF c
  <1>3. Holds(data, i, a)
    <2>1. i + Len(a) - 1 <= Len(data)
      BY <1>0, <1>1, <1>2
    <2>2. \A k \in 1 .. Len(a) : k \in 1 .. Len(c)
      BY <1>0, <1>1
    <2> QED BY <1>1, <1>2, <2>1, <2>2 DEF Holds
  <1>4. Holds(data, i + Len(a), b)
    <2>1. (i + Len(a)) + Len(b) - 1 <= Len(data)
      BY <1>0, <1>1, <1>2
    <2>2. ASSUME NEW k \in 1 .. Len(b) PROVE data[(i + Len(a)) + (k - 1)] = b[k]
      <3>1. Len(a) + k \in 1 .. Len(c) /\ i + ((Len(a) + k) - 1) = (i + Len(a)) + (k - 1)
        BY <1>0, <1>1
      <3>2. data[i + ((Len(a) + k) - 1)] = c[Len(a) + k]
        BY <1>2, <3>1
      <3> QED BY <1>1, <3>1, <3>2
    <2> QED BY <2>1, <2>2 DEF Holds
  <1> QED BY <1>3, <1>4

-----------------------------------------------------------------------------
(* Digits of five bits. *)

(* Shifting by one more bit. *)
LEMMA HalfOfQuotient ==
    ASSUME NEW n \in Nat, NEW p \in Nat \ {0}
    PROVE  n \div p \in Nat /\ (n \div p) \div 2 = n \div (2 * p)
  OBVIOUS

(* The powers of two that the encoding needs. *)
LEMMA Powers ==
    /\ 2 ^ 0 = 1 /\ 2 ^ 1 = 2 /\ 2 ^ 2 = 4 /\ 2 ^ 3 = 8 /\ 2 ^ 4 = 16 /\ 2 ^ 5 = 32 /\ 2 ^ 6 = 64
    /\ 2 ^ 7 = 128 /\ 2 ^ 8 = 256 /\ 2 ^ 9 = 512 /\ 2 ^ 10 = 1024 /\ 2 ^ 11 = 2048 /\ 2 ^ 15 = 32768
  OBVIOUS

(* A digit v behind the bits of a byte b that the buffer u holds, c being   *)
(* the next byte, and the buffer w that it leaves.                          *)
Fits(b, c, u, v, w, m, q, r) ==
    u % m = b \div q /\ v = ((256 * b + c) \div r) % 32 /\ w = (u * 32 + v) % 32768

(* The buffer then holds the first bits of b, or all of them and the first  *)
(* ones of c.                                                               *)
Begun(b, w, p, q) == w % p = b \div q

Filled(b, c, w, p, q) == (w \div p) % 256 = b /\ w % p = c \div q

(* Behind one bit of the byte. *)
LEMMA Behind1 ==
    ASSUME NEW b \in 0 .. 255, NEW c \in 0 .. 255, NEW u \in Nat, NEW v \in Nat, NEW w \in Nat,
           Fits(b, c, u, v, w, 2, 128, 1024)
    PROVE  Begun(b, w, 64, 4)
  <1>0. u % 2 = b \div 128 /\ v = ((256 * b + c) \div 1024) % 32 /\ w = (u * 32 + v) % 32768
    BY DEF Fits
  <1>1. v = (b \div 4) % 32
    BY <1>0
  <1>2. PICK x \in Nat : u = 2 * x + (b \div 128)
    <2>1. u \div 2 \in Nat /\ u = 2 * (u \div 2) + (u % 2)
      OBVIOUS
    <2> QED BY <1>0, <2>1
  <1>3. u * 32 + v = 64 * x + (b \div 4)
    BY <1>1, <1>2
  <1>4. w = (64 * x + (b \div 4)) % 32768
    BY <1>0, <1>3
  <1> QED BY <1>4 DEF Begun

(* Behind two bits. *)
LEMMA Behind2 ==
    ASSUME NEW b \in 0 .. 255, NEW c \in 0 .. 255, NEW u \in Nat, NEW v \in Nat, NEW w \in Nat,
           Fits(b, c, u, v, w, 4, 64, 512)
    PROVE  Begun(b, w, 128, 2)
  <1>0. u % 4 = b \div 64 /\ v = ((256 * b + c) \div 512) % 32 /\ w = (u * 32 + v) % 32768
    BY DEF Fits
  <1>1. v = (b \div 2) % 32
    BY <1>0
  <1>2. PICK x \in Nat : u = 4 * x + (b \div 64)
    <2>1. u \div 4 \in Nat /\ u = 4 * (u \div 4) + (u % 4)
      OBVIOUS
    <2> QED BY <1>0, <2>1
  <1>3. u * 32 + v = 128 * x + (b \div 2)
    BY <1>1, <1>2
  <1>4. w = (128 * x + (b \div 2)) % 32768
    BY <1>0, <1>3
  <1> QED BY <1>4 DEF Begun

(* Behind three bits: the digit fills the byte. *)
LEMMA Behind3 ==
    ASSUME NEW b \in 0 .. 255, NEW c \in 0 .. 255, NEW u \in Nat, NEW v \in Nat, NEW w \in Nat,
           Fits(b, c, u, v, w, 8, 32, 256)
    PROVE  Filled(b, c, w, 1, 256)
  <1>0. u % 8 = b \div 32 /\ v = ((256 * b + c) \div 256) % 32 /\ w = (u * 32 + v) % 32768
    BY DEF Fits
  <1>1. PICK f \in 0 .. 0 : f = c \div 256
    OBVIOUS
  <1>2. v = 1 * (b % 32) + f
    BY <1>0, <1>1
  <1>3. PICK x \in Nat : u = 8 * x + (b \div 32)
    <2>1. u \div 8 \in Nat /\ u = 8 * (u \div 8) + (u % 8)
      OBVIOUS
    <2> QED BY <1>0, <2>1
  <1>4. u * 32 + v = 256 * x + 1 * b + f
    BY <1>2, <1>3
  <1>5. w = (256 * x + 1 * b + f) % 32768
    BY <1>0, <1>4
  <1>6. w % 1 = f
    BY <1>5
  <1>7. (w \div 1) % 256 = b
    BY <1>5
  <1> QED BY <1>1, <1>6, <1>7 DEF Filled

(* Behind four bits: the digit fills the byte and begins the next. *)
LEMMA Behind4 ==
    ASSUME NEW b \in 0 .. 255, NEW c \in 0 .. 255, NEW u \in Nat, NEW v \in Nat, NEW w \in Nat,
           Fits(b, c, u, v, w, 16, 16, 128)
    PROVE  Filled(b, c, w, 2, 128)
  <1>0. u % 16 = b \div 16 /\ v = ((256 * b + c) \div 128) % 32 /\ w = (u * 32 + v) % 32768
    BY DEF Fits
  <1>1. PICK f \in 0 .. 1 : f = c \div 128
    OBVIOUS
  <1>2. v = 2 * (b % 16) + f
    BY <1>0, <1>1
  <1>3. PICK x \in Nat : u = 16 * x + (b \div 16)
    <2>1. u \div 16 \in Nat /\ u = 16 * (u \div 16) + (u % 16)
      OBVIOUS
    <2> QED BY <1>0, <2>1
  <1>4. u * 32 + v = 512 * x + 2 * b + f
    BY <1>2, <1>3
  <1>5. w = (512 * x + 2 * b + f) % 32768
    BY <1>0, <1>4
  <1>6. w % 2 = f
    BY <1>5
  <1>7. (w \div 2) % 256 = b
    BY <1>5
  <1> QED BY <1>1, <1>6, <1>7 DEF Filled

(* The same behind five bits. *)
LEMMA Behind5 ==
    ASSUME NEW b \in 0 .. 255, NEW c \in 0 .. 255, NEW u \in Nat, NEW v \in Nat, NEW w \in Nat,
           Fits(b, c, u, v, w, 32, 8, 64)
    PROVE  Filled(b, c, w, 4, 64)
  <1>0. u % 32 = b \div 8 /\ v = ((256 * b + c) \div 64) % 32 /\ w = (u * 32 + v) % 32768
    BY DEF Fits
  <1>1. PICK f \in 0 .. 3 : f = c \div 64
    OBVIOUS
  <1>2. v = 4 * (b % 8) + f
    BY <1>0, <1>1
  <1>3. PICK x \in Nat : u = 32 * x + (b \div 8)
    <2>1. u \div 32 \in Nat /\ u = 32 * (u \div 32) + (u % 32)
      OBVIOUS
    <2> QED BY <1>0, <2>1
  <1>4. u * 32 + v = 1024 * x + 4 * b + f
    BY <1>2, <1>3
  <1>5. w = (1024 * x + 4 * b + f) % 32768
    BY <1>0, <1>4
  <1>6. w % 4 = f
    BY <1>5
  <1>7. (w \div 4) % 256 = b
    BY <1>5
  <1> QED BY <1>1, <1>6, <1>7 DEF Filled

(* The same behind six bits. *)
LEMMA Behind6 ==
    ASSUME NEW b \in 0 .. 255, NEW c \in 0 .. 255, NEW u \in Nat, NEW v \in Nat, NEW w \in Nat,
           Fits(b, c, u, v, w, 64, 4, 32)
    PROVE  Filled(b, c, w, 8, 32)
  <1>0. u % 64 = b \div 4 /\ v = ((256 * b + c) \div 32) % 32 /\ w = (u * 32 + v) % 32768
    BY DEF Fits
  <1>1. PICK f \in 0 .. 7 : f = c \div 32
    OBVIOUS
  <1>2. v = 8 * (b % 4) + f
    BY <1>0, <1>1
  <1>3. PICK x \in Nat : u = 64 * x + (b \div 4)
    <2>1. u \div 64 \in Nat /\ u = 64 * (u \div 64) + (u % 64)
      OBVIOUS
    <2> QED BY <1>0, <2>1
  <1>4. u * 32 + v = 2048 * x + 8 * b + f
    BY <1>2, <1>3
  <1>5. w = (2048 * x + 8 * b + f) % 32768
    BY <1>0, <1>4
  <1>6. w % 8 = f
    BY <1>5
  <1>7. (w \div 8) % 256 = b
    BY <1>5
  <1> QED BY <1>1, <1>6, <1>7 DEF Filled

(* The same behind seven bits. *)
LEMMA Behind7 ==
    ASSUME NEW b \in 0 .. 255, NEW c \in 0 .. 255, NEW u \in Nat, NEW v \in Nat, NEW w \in Nat,
           Fits(b, c, u, v, w, 128, 2, 16)
    PROVE  Filled(b, c, w, 16, 16)
  <1>0. u % 128 = b \div 2 /\ v = ((256 * b + c) \div 16) % 32 /\ w = (u * 32 + v) % 32768
    BY DEF Fits
  <1>1. PICK f \in 0 .. 15 : f = c \div 16
    OBVIOUS
  <1>2. v = 16 * (b % 2) + f
    BY <1>0, <1>1
  <1>3. PICK x \in Nat : u = 128 * x + (b \div 2)
    <2>1. u \div 128 \in Nat /\ u = 128 * (u \div 128) + (u % 128)
      OBVIOUS
    <2> QED BY <1>0, <2>1
  <1>4. u * 32 + v = 4096 * x + 16 * b + f
    BY <1>2, <1>3
  <1>5. w = (4096 * x + 16 * b + f) % 32768
    BY <1>0, <1>4
  <1>6. w % 16 = f
    BY <1>5
  <1>7. (w \div 16) % 256 = b
    BY <1>5
  <1> QED BY <1>1, <1>6, <1>7 DEF Filled

(* A digit completes the byte of which bits bits are there, or does not. *)
LEMMA DigitShifts ==
    ASSUME NEW b \in 0 .. 255, NEW c \in 0 .. 255, NEW u \in Nat, NEW bits \in 0 .. 7,
           NEW v \in Nat, NEW w \in Nat,
           Fits(b, c, u, v, w, 2 ^ bits, 2 ^ (8 - bits), 2 ^ (16 - 5 - bits))
    PROVE  /\ bits + 5 < 8 => Begun(b, w, 2 ^ (bits + 5), 2 ^ (8 - (bits + 5)))
           /\ ~ (bits + 5 < 8) => Filled(b, c, w, 2 ^ ((bits + 5) - 8), 2 ^ (8 - ((bits + 5) - 8)))
  <1>0. CASE bits = 0
    <2>1. 8 - bits = 8 /\ 16 - 5 - bits = 11
      BY <1>0
    <2>2. 2 ^ bits = 1 /\ 2 ^ (8 - bits) = 256 /\ 2 ^ (16 - 5 - bits) = 2048
      BY <1>0, <2>1, Powers
    <2>3. Fits(b, c, u, v, w, 1, 256, 2048)
      BY <2>2
    <2>4. Begun(b, w, 32, 8)
      <3>1. v = ((256 * b + c) \div 2048) % 32 /\ w = (u * 32 + v) % 32768
        BY <2>3 DEF Fits
      <3>2. v = (b \div 8) % 32 /\ b \div 8 \in 0 .. 31
        BY <3>1
      <3>3. w % 32 = b \div 8
        BY <3>1, <3>2
      <3> QED BY <3>3 DEF Begun
    <2>5. bits + 5 = 5 /\ 8 - (bits + 5) = 3
      BY <1>0
    <2>6. 2 ^ (bits + 5) = 32 /\ 2 ^ (8 - (bits + 5)) = 8
      <3>1. 2 ^ (bits + 5) = 2 ^ 5
        BY <2>5, Zenon
      <3>2. 2 ^ (8 - (bits + 5)) = 2 ^ 3
        BY <2>5, Zenon
      <3> QED BY <3>1, <3>2, Powers
    <2>7. bits + 5 < 8
      BY <1>0
    <2> QED BY <2>4, <2>6, <2>7
  <1>1. CASE bits = 1
    <2>1. 8 - bits = 7 /\ 16 - 5 - bits = 10
      BY <1>1
    <2>2. 2 ^ bits = 2 /\ 2 ^ (8 - bits) = 128 /\ 2 ^ (16 - 5 - bits) = 1024
      BY <1>1, <2>1, Powers
    <2>3. Fits(b, c, u, v, w, 2, 128, 1024)
      BY <2>2
    <2>4. Begun(b, w, 64, 4)
      BY <2>3, Behind1, ZenonT(40)
    <2>5. bits + 5 = 6 /\ 8 - (bits + 5) = 2
      BY <1>1
    <2>6. 2 ^ (bits + 5) = 64 /\ 2 ^ (8 - (bits + 5)) = 4
      <3>1. 2 ^ (bits + 5) = 2 ^ 6
        BY <2>5, Zenon
      <3>2. 2 ^ (8 - (bits + 5)) = 2 ^ 2
        BY <2>5, Zenon
      <3> QED BY <3>1, <3>2, Powers
    <2>7. bits + 5 < 8
      BY <1>1
    <2> QED BY <2>4, <2>6, <2>7
  <1>2. CASE bits = 2
    <2>1. 8 - bits = 6 /\ 16 - 5 - bits = 9
      BY <1>2
    <2>2. 2 ^ bits = 4 /\ 2 ^ (8 - bits) = 64 /\ 2 ^ (16 - 5 - bits) = 512
      BY <1>2, <2>1, Powers
    <2>3. Fits(b, c, u, v, w, 4, 64, 512)
      BY <2>2
    <2>4. Begun(b, w, 128, 2)
      BY <2>3, Behind2
    <2>5. bits + 5 = 7 /\ 8 - (bits + 5) = 1
      BY <1>2
    <2>6. 2 ^ (bits + 5) = 128 /\ 2 ^ (8 - (bits + 5)) = 2
      <3>1. 2 ^ (bits + 5) = 2 ^ 7
        BY <2>5, Zenon
      <3>2. 2 ^ (8 - (bits + 5)) = 2 ^ 1
        BY <2>5, Zenon
      <3> QED BY <3>1, <3>2, Powers
    <2>7. bits + 5 < 8
      BY <1>2
    <2> QED BY <2>4, <2>6, <2>7
  <1>3. CASE bits = 3
    <2>1. 8 - bits = 5 /\ 16 - 5 - bits = 8
      BY <1>3
    <2>2. 2 ^ bits = 8 /\ 2 ^ (8 - bits) = 32 /\ 2 ^ (16 - 5 - bits) = 256
      BY <1>3, <2>1, Powers
    <2>3. Fits(b, c, u, v, w, 8, 32, 256)
      BY <2>2
    <2>4. Filled(b, c, w, 1, 256)
      BY <2>3, Behind3
    <2>5. (bits + 5) - 8 = 0 /\ 8 - ((bits + 5) - 8) = 8
      BY <1>3
    <2>6. 2 ^ ((bits + 5) - 8) = 1 /\ 2 ^ (8 - ((bits + 5) - 8)) = 256
      BY <2>5, Powers
    <2>7. ~ (bits + 5 < 8)
      BY <1>3
    <2> QED BY <2>4, <2>6, <2>7
  <1>4. CASE bits = 4
    <2>1. 8 - bits = 4 /\ 16 - 5 - bits = 7
      BY <1>4
    <2>2. 2 ^ bits = 16 /\ 2 ^ (8 - bits) = 16 /\ 2 ^ (16 - 5 - bits) = 128
      BY <1>4, <2>1, Powers
    <2>3. Fits(b, c, u, v, w, 16, 16, 128)
      BY <2>2
    <2>4. Filled(b, c, w, 2, 128)
      BY <2>3, Behind4
    <2>5. (bits + 5) - 8 = 1 /\ 8 - ((bits + 5) - 8) = 7
      BY <1>4
    <2>6. 2 ^ ((bits + 5) - 8) = 2 /\ 2 ^ (8 - ((bits + 5) - 8)) = 128
      BY <2>5, Powers
    <2>7. ~ (bits + 5 < 8)
      BY <1>4
    <2> QED BY <2>4, <2>6, <2>7
  <1>5. CASE bits = 5
    <2>1. 8 - bits = 3 /\ 16 - 5 - bits = 6
      BY <1>5
    <2>2. 2 ^ bits = 32 /\ 2 ^ (8 - bits) = 8 /\ 2 ^ (16 - 5 - bits) = 64
      BY <1>5, <2>1, Powers
    <2>3. Fits(b, c, u, v, w, 32, 8, 64)
      BY <2>2
    <2>4. Filled(b, c, w, 4, 64)
      BY <2>3, Behind5
    <2>5. (bits + 5) - 8 = 2 /\ 8 - ((bits + 5) - 8) = 6
      BY <1>5
    <2>6. 2 ^ ((bits + 5) - 8) = 4 /\ 2 ^ (8 - ((bits + 5) - 8)) = 64
      BY <2>5, Powers
    <2>7. ~ (bits + 5 < 8)
      BY <1>5
    <2> QED BY <2>4, <2>6, <2>7
  <1>6. CASE bits = 6
    <2>1. 8 - bits = 2 /\ 16 - 5 - bits = 5
      BY <1>6
    <2>2. 2 ^ bits = 64 /\ 2 ^ (8 - bits) = 4 /\ 2 ^ (16 - 5 - bits) = 32
      BY <1>6, <2>1, Powers
    <2>3. Fits(b, c, u, v, w, 64, 4, 32)
      BY <2>2
    <2>4. Filled(b, c, w, 8, 32)
      BY <2>3, Behind6
    <2>5. (bits + 5) - 8 = 3 /\ 8 - ((bits + 5) - 8) = 5
      BY <1>6
    <2>6. 2 ^ ((bits + 5) - 8) = 8 /\ 2 ^ (8 - ((bits + 5) - 8)) = 32
      BY <2>5, Powers
    <2>7. ~ (bits + 5 < 8)
      BY <1>6
    <2> QED BY <2>4, <2>6, <2>7
  <1>7. CASE bits = 7
    <2>1. 8 - bits = 1 /\ 16 - 5 - bits = 4
      BY <1>7
    <2>2. 2 ^ bits = 128 /\ 2 ^ (8 - bits) = 2 /\ 2 ^ (16 - 5 - bits) = 16
      BY <1>7, <2>1, Powers
    <2>3. Fits(b, c, u, v, w, 128, 2, 16)
      BY <2>2
    <2>4. Filled(b, c, w, 16, 16)
      BY <2>3, Behind7
    <2>5. (bits + 5) - 8 = 4 /\ 8 - ((bits + 5) - 8) = 4
      BY <1>7
    <2>6. 2 ^ ((bits + 5) - 8) = 16 /\ 2 ^ (8 - ((bits + 5) - 8)) = 16
      BY <2>5, Powers
    <2>7. ~ (bits + 5 < 8)
      BY <1>7
    <2> QED BY <2>4, <2>6, <2>7
  <1> QED BY <1>0, <1>1, <1>2, <1>3, <1>4, <1>5, <1>6, <1>7

=============================================================================
