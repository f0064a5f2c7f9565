----------------------- MODULE ClockSkewDetectorProofs -----------------------
(***************************************************************************)
(* Proofs about ClockSkewDetector, for any capacity of the ring, any set   *)
(* of goroutines, any thresholds and any offsets.                          *)
(***************************************************************************)
EXTENDS ClockSkewDetector, DataFacts

-----------------------------------------------------------------------------
(* Sums of sequences. *)

(* f holds the sums of the beginnings of s. *)
ArePartialSums(f, s) ==
    /\ f \in [0 .. Len(s) -> Int]
    /\ f[0] = 0
    /\ \A n \in 1 .. Len(s) : f[n] = f[n - 1] + s[n]

(* Every sequence of integers has partial sums. *)
LEMMA PartialSumsExist ==
    ASSUME NEW s \in Seq(Int)
    PROVE  \E f : ArePartialSums(f, s)
  <1> DEFINE Upto(f, k) == /\ f \in [0 .. k -> Int] /\ f[0] = 0
                           /\ \A n \in 1 .. k : f[n] = f[n - 1] + s[n]
             Has == {k \in Nat : k <= Len(s) => \E f : Upto(f, k)}
  <1> HIDE DEF Upto, Has
  <1>1. 0 \in Has
    <2>1. Upto([n \in 0 .. 0 |-> 0], 0)
      BY DEF Upto
    <2> QED BY <2>1 DEF Has
  <1>2. ASSUME NEW k \in Nat, k \in Has PROVE k + 1 \in Has
    <2> SUFFICES ASSUME k + 1 <= Len(s) PROVE \E f : Upto(f, k + 1)
      BY DEF Has
    <2>0. k <= Len(s) /\ s[k + 1] \in Int
      OBVIOUS
    <2>1. PICK f : Upto(f, k)
      BY <1>2, <2>0 DEF Has
    <2>2. s[k + 1] \in Int
      BY <2>0
    <2> DEFINE h == [n \in 0 .. k + 1 |-> IF n = k + 1 THEN f[k] + s[k + 1] ELSE f[n]]
    <2>3. h \in [0 .. k + 1 -> Int] /\ h[0] = 0
      BY <2>1, <2>2 DEF Upto
    <2>4. ASSUME NEW n \in 1 .. k + 1 PROVE h[n] = h[n - 1] + s[n]
      <3>1. CASE n = k + 1
        BY <3>1
      <3>2. CASE n # k + 1
        <4>1. n \in 1 .. k /\ n - 1 \in 0 .. k + 1 /\ n - 1 # k + 1 /\ n \in 0 .. k + 1
          BY <3>2
        <4> QED BY <4>1, <2>1 DEF Upto
      <3> QED BY <3>1, <3>2
    <2>5. Upto(h, k + 1)
      BY <2>3, <2>4 DEF Upto
    <2> QED BY <2>5
  <1>3. \A k \in Nat : k \in Has
    BY <1>1, <1>2, InductionOnSet
  <1>4. Len(s) \in Nat
    OBVIOUS
  <1>5. \E f : Upto(f, Len(s))
    BY <1>3, <1>4 DEF Has
  <1> QED BY <1>5 DEF Upto, ArePartialSums

(* There is only one way to add up. *)
LEMMA PartialSumsUnique ==
    ASSUME NEW s \in Seq(Int), NEW f, NEW h, ArePartialSums(f, s), ArePartialSums(h, s)
    PROVE  f[Len(s)] = h[Len(s)]
  <1> DEFINE Same == {n \in Nat : n <= Len(s) => f[n] = h[n]}
  <1>1. 0 \in Same
    BY DEF ArePartialSums
  <1>2. ASSUME NEW n \in Nat, n \in Same PROVE n + 1 \in Same
    BY <1>2 DEF ArePartialSums
  <1>3. \A n \in Nat : n \in Same
    <2> HIDE DEF Same
    <2> QED BY <1>1, <1>2, InductionOnSet
  <1> QED BY <1>3

(* SumOf is the last of the partial sums. *)
LEMMA SumIsPartialSum ==
    ASSUME NEW s \in Seq(Int), NEW f, ArePartialSums(f, s)
    PROVE  SumOf(s) = f[Len(s)] /\ SumOf(s) \in Int
  <1> DEFINE Eq(u) == u = [n \in 0 .. Len(s) |-> IF n = 0 THEN 0 ELSE u[n - 1] + s[n]]
             u0 == CHOOSE u : Eq(u)
  <1>1. SumOf(s) = u0[Len(s)]
    BY DEF SumOf
  <1>2. Eq(f)
    BY DEF ArePartialSums
  <1>3. Eq(u0)
    BY <1>2
  <1> HIDE DEF u0
  <1>4. ArePartialSums(u0, s)
    <2>0. Len(s) \in Nat
      OBVIOUS
    <2>1. DOMAIN u0 = 0 .. Len(s) /\ u0[0] = 0 /\ \A n \in 1 .. Len(s) : u0[n] = u0[n - 1] + s[n]
      <3> HIDE DEF Eq
      <3>1. u0 = [n \in 0 .. Len(s) |-> IF n = 0 THEN 0 ELSE u0[n - 1] + s[n]]
        BY <1>3 DEF Eq
      <3> QED BY <2>0, <3>1
    <2>2. u0 = [n \in 0 .. Len(s) |-> u0[n]]
      BY <1>3
    <2> DEFINE Typed == {n \in Nat : n <= Len(s) => u0[n] \in Int}
    <2>3. 0 \in Typed
      BY <2>1
    <2>4. ASSUME NEW n \in Nat, n \in Typed PROVE n + 1 \in Typed
      BY <2>1, <2>4
    <2>5. \A n \in Nat : n \in Typed
      <3> HIDE DEF Typed
      <3> QED BY <2>3, <2>4, InductionOnSet
    <2>6. u0 \in [0 .. Len(s) -> Int]
      BY <2>2, <2>5
    <2> QED BY <2>1, <2>6 DEF ArePartialSums
  <1>5. f[Len(s)] \in Int
    BY DEF ArePartialSums
  <1> QED BY <1>1, <1>4, <1>5, PartialSumsUnique

(* Record adds the new sample to the sum ... *)
LEMMA SumOfAppend ==
    ASSUME NEW s \in Seq(Int), NEW m \in Int
    PROVE  SumOf(Append(s, m)) = SumOf(s) + m
  <1>1. PICK f : ArePartialSums(f, s)
    BY PartialSumsExist
  <1> DEFINE h == [n \in 0 .. Len(s) + 1 |-> IF n = Len(s) + 1 THEN f[Len(s)] + m ELSE f[n]]
  <1>2. Append(s, m) \in Seq(Int) /\ Len(Append(s, m)) = Len(s) + 1
        /\ (\A n \in 1 .. Len(s) : Append(s, m)[n] = s[n]) /\ Append(s, m)[Len(s) + 1] = m
    OBVIOUS
  <1>3. ArePartialSums(h, Append(s, m))
    <2>1. h \in [0 .. Len(s) + 1 -> Int] /\ h[0] = 0
      BY <1>1, SMTT(30) DEF ArePartialSums
    <2>2. ASSUME NEW n \in 1 .. Len(s) + 1 PROVE h[n] = h[n - 1] + Append(s, m)[n]
      BY <1>1, <1>2 DEF ArePartialSums
    <2> QED BY <1>2, <2>1, <2>2 DEF ArePartialSums
  <1>4. h[Len(s) + 1] = f[Len(s)] + m
    OBVIOUS
  <1> HIDE DEF h
  <1> QED BY <1>1, <1>2, <1>3, <1>4, SumIsPartialSum

(* ... and subtracts the oldest. *)
LEMMA SumOfTail ==
    ASSUME NEW s \in Seq(Int), s # <<>>
    PROVE  SumOf(Tail(s)) = SumOf(s) - s[1]
  <1>1. PICK f : ArePartialSums(f, s)
    BY PartialSumsExist
  <1> DEFINE h == [n \in 0 .. Len(s) - 1 |-> f[n + 1] - s[1]]
  <1>2. Tail(s) \in Seq(Int) /\ Len(Tail(s)) = Len(s) - 1 /\ Len(s) \in Nat /\ Len(s) > 0
        /\ \A n \in 1 .. Len(s) - 1 : Tail(s)[n] = s[n + 1]
    OBVIOUS
  <1>3. s[1] \in Int /\ f[1] = s[1]
    BY <1>1, <1>2 DEF ArePartialSums
  <1>4. ArePartialSums(h, Tail(s))
    <2>1. h \in [0 .. Len(s) - 1 -> Int] /\ h[0] = 0
      BY <1>1, <1>2, <1>3 DEF ArePartialSums
    <2>2. ASSUME NEW n \in 1 .. Len(s) - 1 PROVE h[n] = h[n - 1] + Tail(s)[n]
      <3>1. n + 1 \in 1 .. Len(s) /\ n \in 0 .. Len(s) - 1 /\ n - 1 \in 0 .. Len(s) - 1
            /\ n \in 0 .. Len(s) /\ (n + 1) - 1 = n /\ (n - 1) + 1 = n
        BY <1>2
      <3>2. f[n + 1] = f[n] + s[n + 1] /\ f[n] \in Int /\ s[n + 1] \in Int
        BY <1>1, <3>1, SMTT(30) DEF ArePartialSums
      <3>3. h[n] = f[n + 1] - s[1] /\ h[n - 1] = f[n] - s[1]
        BY <3>1
      <3> HIDE DEF h
      <3> QED BY <1>2, <1>3, <3>2, <3>3
    <2> QED BY <1>2, <2>1, <2>2 DEF ArePartialSums
  <1>5. h[Len(s) - 1] = f[Len(s)] - s[1]
    BY <1>2
  <1> HIDE DEF h
  <1> QED BY <1>1, <1>2, <1>4, <1>5, SumIsPartialSum

(* The mean lies between the smallest and the largest sample. *)
LEMMA SumBounds ==
    ASSUME NEW s \in Seq(Int), NEW lo \in Int, NEW hi \in Int,
           \A n \in 1 .. Len(s) : lo <= s[n] /\ s[n] <= hi
    PROVE  /\ SumOf(s) \in Int
           /\ Len(s) * lo <= SumOf(s) /\ SumOf(s) <= Len(s) * hi
  <1>1. PICK f : ArePartialSums(f, s)
    BY PartialSumsExist
  <1> DEFINE Within == {n \in Nat : n <= Len(s) => n * lo <= f[n] /\ f[n] <= n * hi}
  <1>2. 0 \in Within
    BY <1>1 DEF ArePartialSums
  <1>3. ASSUME NEW n \in Nat, n \in Within PROVE n + 1 \in Within
    <2> SUFFICES ASSUME n + 1 <= Len(s)
                 PROVE  (n + 1) * lo <= f[n + 1] /\ f[n + 1] <= (n + 1) * hi
      OBVIOUS
    <2>0. n + 1 \in 1 .. Len(s) /\ (n + 1) - 1 = n /\ n \in 0 .. Len(s)
      OBVIOUS
    <2>1. f[n + 1] = f[n] + s[n + 1] /\ f[n] \in Int /\ s[n + 1] \in Int
      BY <1>1, <2>0, SMTT(30) DEF ArePartialSums
    <2>2. n * lo <= f[n] /\ f[n] <= n * hi /\ lo <= s[n + 1] /\ s[n + 1] <= hi
      BY <1>3
    <2>3. (n + 1) * lo = n * lo + lo /\ (n + 1) * hi = n * hi + hi /\ n * lo \in Int /\ n * hi \in Int
      OBVIOUS
    <2> QED BY <2>1, <2>2, <2>3
  <1>4. \A n \in Nat : n \in Within
    <2> HIDE DEF Within
    <2> QED BY <1>2, <1>3, InductionOnSet
  <1>5. Len(s) \in Within
    BY <1>4
  <1> QED BY <1>1, <1>5, SumIsPartialSum

-----------------------------------------------------------------------------
(* Counting the samples that have a property. *)

(* Where the elements of s are in V, and how many they are. *)
Places(s, V) == {j \in 1 .. Len(s) : s[j] \in V}
CountIn(s, V) == Cardinality(Places(s, V))

One(m, V) == IF m \in V THEN 1 ELSE 0

(* A ring holds a natural number of samples. *)
LEMMA CountIsNat ==
    ASSUME NEW S, NEW s \in Seq(S), NEW V
    PROVE  /\ IsFiniteSet(Places(s, V))
           /\ CountIn(s, V) \in 0 .. Len(s) /\ CountIn(s, V) \in Nat
  <1>1. Len(s) \in Nat
    OBVIOUS
  <1>2. IsFiniteSet(1 .. Len(s)) /\ Cardinality(1 .. Len(s)) = Len(s)
    <2>1. /\ IsFiniteSet(1 .. Len(s))
          /\ Cardinality(1 .. Len(s)) = IF 1 > Len(s) THEN 0 ELSE Len(s) - 1 + 1
      BY <1>1, FS_Interval
    <2> QED BY <1>1, <2>1
  <1>3. Places(s, V) \in SUBSET (1 .. Len(s))
    BY DEF Places
  <1>4. /\ IsFiniteSet(Places(s, V)) /\ Cardinality(Places(s, V)) <= Len(s)
        /\ Cardinality(Places(s, V)) \in Nat
    BY <1>2, <1>3, FS_Subset, FS_CardinalityType
  <1> QED BY <1>1, <1>4 DEF CountIn

(* A sample more. *)
LEMMA CountInAppend ==
    ASSUME NEW S, NEW s \in Seq(S), NEW m \in S, NEW V
    PROVE  CountIn(Append(s, m), V) = CountIn(s, V) + One(m, V)
  <1>1. /\ Len(Append(s, m)) = Len(s) + 1 /\ Append(s, m)[Len(s) + 1] = m
        /\ \A j \in 1 .. Len(s) : Append(s, m)[j] = s[j]
        /\ Len(s) \in Nat
    OBVIOUS
  <1>2. Places(Append(s, m), V) = IF m \in V THEN Places(s, V) \cup {Len(s) + 1} ELSE Places(s, V)
    BY <1>1 DEF Places
  <1>3. IsFiniteSet(Places(s, V)) /\ CountIn(s, V) \in Nat
    BY CountIsNat
  <1>4. Len(s) + 1 \notin Places(s, V)
    BY <1>1 DEF Places
  <1>5. Cardinality(Places(s, V) \cup {Len(s) + 1}) = Cardinality(Places(s, V)) + 1
    BY <1>3, <1>4, FS_AddElement
  <1> QED BY <1>2, <1>3, <1>5 DEF CountIn, One

(* A sample replaced. *)
LEMMA CountInExcept ==
    ASSUME NEW S, NEW s \in Seq(S), NEW m \in S, NEW k \in 1 .. Len(s), NEW V
    PROVE  CountIn([s EXCEPT ![k] = m], V) = CountIn(s, V) - One(s[k], V) + One(m, V)
  <1> DEFINE t == [s EXCEPT ![k] = m]
             J == Places(s, V)
             K == Places(t, V)
  <1>1. t \in Seq(S) /\ Len(t) = Len(s) /\ t[k] = m /\ \A j \in 1 .. Len(s) : j # k => t[j] = s[j]
    OBVIOUS
  <1> HIDE DEF t
  <1>2. K \ {k} = J \ {k} /\ (k \in K <=> m \in V) /\ (k \in J <=> s[k] \in V)
    BY <1>1 DEF Places
  <1>3. IsFiniteSet(J) /\ IsFiniteSet(K) /\ Cardinality(J) \in Nat /\ Cardinality(K) \in Nat
    BY <1>1, CountIsNat DEF CountIn
  <1> HIDE DEF J, K
  <1>4. /\ Cardinality(J \ {k}) = IF k \in J THEN Cardinality(J) - 1 ELSE Cardinality(J)
        /\ Cardinality(K \ {k}) = IF k \in K THEN Cardinality(K) - 1 ELSE Cardinality(K)
    BY <1>3, FS_RemoveElement
  <1>5. Cardinality(K) = Cardinality(J) - One(s[k], V) + One(m, V)
    <2> DEFINE cJ == Cardinality(J)
               cK == Cardinality(K)
               rest == Cardinality(J \ {k})
    <2>1. rest = Cardinality(K \ {k})
      BY <1>2
    <2>2. cJ \in Nat /\ cK \in Nat
      BY <1>3
    <2>3. /\ rest = (IF s[k] \in V THEN cJ - 1 ELSE cJ)
          /\ rest = (IF m \in V THEN cK - 1 ELSE cK)
      BY <2>1, <1>2, <1>4
    <2> HIDE DEF cJ, cK, rest
    <2>4. cK = cJ - One(s[k], V) + One(m, V)
      BY <2>2, <2>3 DEF One
    <2> QED BY <2>4 DEF cJ, cK
  <1> QED BY <1>5 DEF CountIn, J, K, t

(* Rearranged samples. *)
LEMMA CountInRearranged ==
    ASSUME NEW S, NEW s \in Seq(S), NEW q \in Seq(S), NEW V, Len(q) = Len(s),
           NEW f \in Bijection(1 .. Len(s), 1 .. Len(s)),
           \A j \in 1 .. Len(s) : q[j] = s[f[j]]
    PROVE  CountIn(q, V) = CountIn(s, V)
  <1> DEFINE J == Places(q, V)
             K == Places(s, V)
             h == [j \in J |-> f[j]]
  <1>1. /\ f \in [1 .. Len(s) -> 1 .. Len(s)]
        /\ \A a, b \in 1 .. Len(s) : f[a] = f[b] => a = b
        /\ \A b \in 1 .. Len(s) : \E a \in 1 .. Len(s) : f[a] = b
    BY DEF Bijection, Injection, Surjection, IsInjective
  <1>2. h \in [J -> K]
    BY <1>1 DEF Places
  <1>3. \A a, b \in J : h[a] = h[b] => a = b
    BY <1>1 DEF Places
  <1>4. ASSUME NEW b \in K PROVE \E a \in J : h[a] = b
    <2>1. b \in 1 .. Len(s) /\ s[b] \in V
      BY DEF Places
    <2>2. PICK a \in 1 .. Len(s) : f[a] = b
      BY <1>1, <2>1
    <2>3. a \in J
      BY <2>1, <2>2 DEF Places
    <2> QED BY <2>2, <2>3
  <1> HIDE DEF h
  <1>5. h \in Bijection(J, K)
    BY <1>2, <1>3, <1>4 DEF Bijection, Injection, Surjection, IsInjective
  <1>6. ExistsBijection(J, K)
    BY <1>5 DEF ExistsBijection
  <1>7. IsFiniteSet(J)
    BY CountIsNat
  <1> HIDE DEF J, K
  <1>8. Cardinality(J) = Cardinality(K)
    BY <1>6, <1>7, FS_Bijection
  <1> QED BY <1>8 DEF CountIn, J, K

-----------------------------------------------------------------------------
(* The ring. *)

RingTyped(s) ==
    /\ s.buffer \in Seq(Samples)
    /\ s.writeIdx \in 0 .. Capacity - 1
    /\ s.length \in 0 .. Capacity
    /\ s.sum \in Int
    /\ s.nonZeroCount \in Nat

(* Where the ring s keeps its j-th oldest sample. *)
Slot(s, j) ==
    IF s.length < Capacity THEN j
    ELSE IF s.writeIdx + j <= Capacity THEN s.writeIdx + j ELSE s.writeIdx + j - Capacity

(* The ring s holds the samples q, oldest first, with their aggregates. *)
RingHolds(s, q) ==
    /\ RingTyped(s)
    /\ q \in Seq(Samples)
    /\ Len(s.buffer) = s.length /\ Len(q) = s.length
    /\ s.length < Capacity => s.writeIdx = s.length
    /\ \A j \in 1 .. s.length : q[j] = s.buffer[Slot(s, j)]
    /\ s.sum = SumOf(q)
    /\ s.nonZeroCount = CountIn(s.buffer, Int \ {0})

(* The capacity of the ring is a positive number. *)
LEMMA CapacityIsNat == Capacity \in Nat /\ Capacity > 0
  BY ConstantsAssumption DEF ConstantsAssumption

(* Samples are integers. *)
LEMMA SamplesAreInt ==
    ASSUME NEW q \in Seq(Samples)
    PROVE  q \in Seq(Int)
  <1>1. \A m \in Samples : m \in Int
    BY ConstantsAssumption DEF ConstantsAssumption
  <1>2. \A j \in 1 .. Len(q) : q[j] \in Samples
    OBVIOUS
  <1>3. \A j \in 1 .. Len(q) : q[j] \in Int
    BY <1>1, <1>2
  <1> QED BY <1>3

(* The write index goes round. *)
LEMMA NextIdxWraps ==
    ASSUME NEW n \in 0 .. Capacity - 1
    PROVE  NextIdx(n) = IF n + 1 = Capacity THEN 0 ELSE n + 1
  <1>1. Capacity \in Nat /\ Capacity > 0
    BY CapacityIsNat
  <1>2. CASE n + 1 = Capacity
    BY <1>1, <1>2 DEF NextIdx
  <1>3. CASE n + 1 < Capacity
    BY <1>1, <1>3 DEF NextIdx
  <1> QED BY <1>1, <1>2, <1>3

(* NonZero counts the samples outside {0}. *)
LEMMA NonZeroIsOne ==
    ASSUME NEW m \in Int
    PROVE  NonZero(m) = One(m, Int \ {0}) /\ NonZero(m) \in {0, 1}
  BY DEF NonZero, One

(* Record on a ring that is not full. *)
LEMMA PushAppends ==
    ASSUME NEW s, NEW q, RingHolds(s, q), NEW m \in Samples, s.length < Capacity
    PROVE  RingHolds(Push(s, m), Append(q, m))
  <1> DEFINE p == Push(s, m)
             r == Append(q, m)
  <1>1. Capacity \in Nat /\ Capacity > 0 /\ m \in Int
    BY CapacityIsNat, ConstantsAssumption DEF ConstantsAssumption
  <1>2. /\ s.buffer \in Seq(Samples) /\ s.length \in 0 .. Capacity /\ s.sum \in Int /\ s.nonZeroCount \in Nat
        /\ q \in Seq(Samples) /\ Len(s.buffer) = s.length /\ Len(q) = s.length
        /\ \A j \in 1 .. s.length : q[j] = s.buffer[j]
        /\ s.sum = SumOf(q) /\ s.nonZeroCount = CountIn(s.buffer, Int \ {0})
    BY DEF RingHolds, RingTyped, Slot
  <1>3. /\ p.buffer = Append(s.buffer, m) /\ p.writeIdx = NextIdx(s.length)
        /\ p.length = s.length + 1 /\ p.sum = s.sum + m
        /\ p.nonZeroCount = s.nonZeroCount + NonZero(m)
    BY DEF Push
  <1> HIDE DEF p
  <1>4. /\ p.buffer \in Seq(Samples) /\ Len(p.buffer) = p.length
        /\ \A j \in 1 .. s.length : p.buffer[j] = s.buffer[j]
        /\ p.buffer[s.length + 1] = m
    BY <1>2, <1>3
  <1>5. /\ r \in Seq(Samples) /\ Len(r) = p.length
        /\ \A j \in 1 .. s.length : r[j] = q[j]
        /\ r[s.length + 1] = m
    BY <1>2, <1>3
  <1>6. p.writeIdx = IF s.length + 1 = Capacity THEN 0 ELSE s.length + 1
    BY <1>1, <1>2, <1>3, NextIdxWraps
  <1>7. p.nonZeroCount = CountIn(p.buffer, Int \ {0}) /\ p.nonZeroCount \in Nat
    BY <1>1, <1>2, <1>3, CountInAppend, NonZeroIsOne
  <1>8. p.sum = SumOf(r) /\ p.sum \in Int
    BY <1>1, <1>2, <1>3, SamplesAreInt, SumOfAppend
  <1>9. p.length \in 1 .. Capacity /\ p.length \in 0 .. Capacity /\ p.writeIdx \in 0 .. Capacity - 1
    BY <1>1, <1>2, <1>3, <1>6, SMTT(30)
  <1>10. RingTyped(p)
    BY <1>4, <1>9, <1>7, <1>8 DEF RingTyped
  <1> HIDE DEF r
  <1>11. ASSUME NEW j \in 1 .. p.length PROVE r[j] = p.buffer[Slot(p, j)]
    <2>1. Slot(p, j) = j
      <3>1. CASE p.length < Capacity
        BY <3>1 DEF Slot
      <3>2. CASE p.length = Capacity
        <4>1. p.writeIdx = 0 /\ j \in 1 .. Capacity
          BY <1>1, <1>2, <1>3, <1>6, <3>2
        <4> QED BY <1>1, <3>2, <4>1 DEF Slot
      <3> QED BY <1>1, <1>9, <3>1, <3>2
    <2>2. r[j] = p.buffer[j]
      BY <1>2, <1>3, <1>4, <1>5
    <2> QED BY <2>1, <2>2
  <1>12. p.length < Capacity => p.writeIdx = p.length
    BY <1>1, <1>2, <1>3, <1>6
  <1> QED BY <1>4, <1>5, <1>7, <1>8, <1>10, <1>11, <1>12 DEF RingHolds, p, r

(* Record on a full ring: the oldest sample makes room. *)
LEMMA PushReplaces ==
    ASSUME NEW s, NEW q, RingHolds(s, q), NEW m \in Samples, s.length >= Capacity
    PROVE  RingHolds(Push(s, m), Append(Tail(q), m))
  <1> DEFINE p == Push(s, m)
             w == s.writeIdx
             old == s.buffer[w + 1]
             r == Append(Tail(q), m)
  <1>1. Capacity \in Nat /\ Capacity > 0 /\ m \in Int
    BY CapacityIsNat, ConstantsAssumption DEF ConstantsAssumption
  <1>2. /\ s.buffer \in Seq(Samples) /\ s.length = Capacity /\ s.sum \in Int /\ s.nonZeroCount \in Nat
        /\ w \in 0 .. Capacity - 1
        /\ q \in Seq(Samples) /\ Len(s.buffer) = Capacity /\ Len(q) = Capacity
        /\ \A j \in 1 .. Capacity : q[j] = s.buffer[Slot(s, j)]
        /\ s.sum = SumOf(q) /\ s.nonZeroCount = CountIn(s.buffer, Int \ {0})
    BY <1>1 DEF RingHolds, RingTyped
  <1>3. /\ p.buffer = [s.buffer EXCEPT ![w + 1] = m] /\ p.writeIdx = NextIdx(w)
        /\ p.length = Capacity /\ p.sum = s.sum - old + m
        /\ p.nonZeroCount = s.nonZeroCount - NonZero(old) + NonZero(m)
    <2>1. ~ (s.length < Capacity)
      BY <1>1, <1>2
    <2> QED BY <1>2, <2>1 DEF Push
  <1> HIDE DEF p
  <1>4. /\ w + 1 \in 1 .. Len(s.buffer) /\ p.buffer \in Seq(Samples) /\ Len(p.buffer) = Capacity
        /\ \A j \in 1 .. Capacity : j # w + 1 => p.buffer[j] = s.buffer[j]
        /\ p.buffer[w + 1] = m
    BY <1>1, <1>2, <1>3
  <1>5. q # <<>> /\ old = q[1] /\ old \in Samples /\ old \in Int
    <2>1. Slot(s, 1) = w + 1 /\ 1 \in 1 .. Capacity
      BY <1>1, <1>2 DEF Slot
    <2>2. old = q[1]
      BY <1>2, <2>1
    <2>3. q[1] \in Samples /\ q # <<>>
      BY <1>1, <1>2
    <2> QED BY <2>2, <2>3, ConstantsAssumption DEF ConstantsAssumption
  <1>6. /\ Tail(q) \in Seq(Samples) /\ Len(Tail(q)) = Capacity - 1
        /\ \A j \in 1 .. Capacity - 1 : Tail(q)[j] = q[j + 1]
    BY <1>1, <1>2, <1>5
  <1>7. /\ r \in Seq(Samples) /\ Len(r) = Capacity
        /\ \A j \in 1 .. Capacity - 1 : r[j] = q[j + 1]
        /\ r[Capacity] = m
    BY <1>1, <1>6
  <1>8. p.writeIdx = IF w + 1 = Capacity THEN 0 ELSE w + 1
    BY <1>2, <1>3, NextIdxWraps
  <1> HIDE DEF w, old
  <1>9. p.nonZeroCount = CountIn(p.buffer, Int \ {0}) /\ p.nonZeroCount \in Nat
    <2>1. CountIn(p.buffer, Int \ {0}) =
             CountIn(s.buffer, Int \ {0}) - One(old, Int \ {0}) + One(m, Int \ {0})
      <3>1. CountIn([s.buffer EXCEPT ![w + 1] = m], Int \ {0}) =
               CountIn(s.buffer, Int \ {0}) - One(s.buffer[w + 1], Int \ {0}) + One(m, Int \ {0})
        BY <1>2, <1>4, CountInExcept
      <3> QED BY <1>3, <3>1 DEF old
    <2>2. CountIn(p.buffer, Int \ {0}) \in Nat
      BY <1>4, CountIsNat
    <2> QED BY <1>1, <1>2, <1>3, <1>5, <2>1, <2>2, NonZeroIsOne
  <1>10. p.sum = SumOf(r) /\ p.sum \in Int
    <2>1. SumOf(Tail(q)) = SumOf(q) - old
      BY <1>2, <1>5, SamplesAreInt, SumOfTail
    <2>2. SumOf(r) = SumOf(Tail(q)) + m
      BY <1>1, <1>6, SamplesAreInt, SumOfAppend
    <2> QED BY <1>1, <1>2, <1>3, <1>5, <2>1, <2>2
  <1>11. RingTyped(p)
    BY <1>1, <1>2, <1>3, <1>4, <1>8, <1>9, <1>10 DEF RingTyped
  <1> HIDE DEF r
  <1>12. ASSUME NEW j \in 1 .. Capacity PROVE r[j] = p.buffer[Slot(p, j)]
    <2>1. CASE j = Capacity
      <3>1. Slot(p, j) = w + 1
        BY <1>1, <1>2, <1>3, <1>8, <2>1 DEF Slot
      <3> QED BY <1>4, <1>7, <2>1, <3>1
    <2>2. CASE j < Capacity
      <3>1. j \in 1 .. Capacity - 1 /\ j + 1 \in 1 .. Capacity
        BY <1>1, <2>2
      <3>2. s.length = Capacity /\ s.writeIdx = w
        BY <1>2 DEF w
      <3>3. /\ Slot(p, j) = Slot(s, j + 1) /\ Slot(p, j) # w + 1 /\ Slot(p, j) \in 1 .. Capacity
        BY <1>1, <1>2, <1>3, <1>8, <3>1, <3>2 DEF Slot
      <3>4. q[j + 1] = s.buffer[Slot(p, j)]
        BY <1>2, <3>1, <3>3
      <3> QED BY <1>4, <1>7, <3>1, <3>3, <3>4
    <2> QED BY <1>1, <2>1, <2>2
  <1> QED BY <1>1, <1>3, <1>4, <1>7, <1>9, <1>10, <1>11, <1>12, SMTT(30) DEF RingHolds, p, r

(* The slots of a ring are its samples in another order. *)
LEMMA RingCount ==
    ASSUME NEW s, NEW q, RingHolds(s, q), NEW V
    PROVE  CountIn(q, V) = CountIn(s.buffer, V)
  <1> DEFINE n == s.length
             w == s.writeIdx
             f == [j \in 1 .. n |-> Slot(s, j)]
  <1>1. Capacity \in Nat /\ Capacity > 0
    BY CapacityIsNat
  <1>2. /\ s.buffer \in Seq(Samples) /\ q \in Seq(Samples) /\ Len(s.buffer) = n /\ Len(q) = n
        /\ n \in 0 .. Capacity /\ w \in 0 .. Capacity - 1
        /\ \A j \in 1 .. n : q[j] = s.buffer[Slot(s, j)]
    BY DEF RingHolds, RingTyped
  <1>3. \A j \in 1 .. n : Slot(s, j) = IF n < Capacity THEN j
                          ELSE IF w + j <= Capacity THEN w + j ELSE w + j - Capacity
    BY DEF Slot
  <1> HIDE DEF n, w
  <1>4. ASSUME NEW j \in 1 .. n PROVE Slot(s, j) \in 1 .. n
    BY <1>1, <1>2, <1>3
  <1>5. ASSUME NEW a \in 1 .. n, NEW b \in 1 .. n, Slot(s, a) = Slot(s, b) PROVE a = b
    BY <1>1, <1>2, <1>3, <1>5
  <1>6. ASSUME NEW b \in 1 .. n PROVE \E a \in 1 .. n : Slot(s, a) = b
    <2>1. CASE n < Capacity
      BY <1>3, <2>1
    <2>2. CASE n = Capacity
      <3>1. CASE b > w
        <4>1. b - w \in 1 .. n /\ Slot(s, b - w) = b
          BY <1>1, <1>2, <1>3, <2>2, <3>1
        <4> QED BY <4>1
      <3>2. CASE b <= w
        <4>1. b - w + Capacity \in 1 .. n /\ Slot(s, b - w + Capacity) = b
          BY <1>1, <1>2, <1>3, <2>2, <3>2
        <4> QED BY <4>1
      <3> QED BY <1>1, <1>2, <3>1, <3>2
    <2> QED BY <1>1, <1>2, <2>1, <2>2
  <1>7. /\ f \in [1 .. n -> 1 .. n]
        /\ \A a, b \in 1 .. n : f[a] = f[b] => a = b
        /\ \A b \in 1 .. n : \E a \in 1 .. n : f[a] = b
        /\ \A j \in 1 .. n : q[j] = s.buffer[f[j]]
    BY <1>2, <1>4, <1>5, <1>6
  <1> HIDE DEF f
  <1>8. f \in Bijection(1 .. n, 1 .. n)
    BY <1>7 DEF Bijection, Injection, Surjection, IsInjective
  <1>9. f \in Bijection(1 .. Len(s.buffer), 1 .. Len(s.buffer)) /\ Len(q) = Len(s.buffer)
        /\ \A j \in 1 .. Len(s.buffer) : q[j] = s.buffer[f[j]]
    BY <1>2, <1>7, <1>8
  <1>10. s.buffer \in Seq(Samples) /\ q \in Seq(Samples)
    BY <1>2
  <1> QED BY <1>9, <1>10, CountInRearranged

(* How many samples lie on the edge of the window. *)
LEMMA EdgeHitsCounts ==
    ASSUME NEW s \in Seq(Samples), NEW w
    PROVE  EdgeHits(s, w) = CountIn(s, {x \in Int : w > 0 /\ AbsVal(x) = w})
  <1>1. s \in Seq(Int)
    BY SamplesAreInt
  <1>2. {i \in DOMAIN s : w > 0 /\ AbsVal(s[i]) = w} =
           Places(s, {x \in Int : w > 0 /\ AbsVal(x) = w})
    BY <1>1 DEF Places
  <1> QED BY <1>2 DEF EdgeHits, CountIn

(* What Report computes from the ring is what follows from the samples. *)
LEMMA ReportOfRing ==
    ASSUME NEW s, NEW q, RingHolds(s, q), NEW w
    PROVE  Report(s, w) =
            [SampleCount  |-> Len(q),
             MeanOffset   |-> IF Len(q) < MinReport THEN 0 ELSE SumOf(q),
             NonZeroCount |-> Cardinality({i \in 1 .. Len(q) : q[i] # 0}),
             EdgeHitRatio |-> IF Len(q) < MinReport THEN 0 ELSE EdgeHits(q, w),
             Recommend    |-> Recommend(Len(q), SumOf(q), EdgeHits(q, w))]
  <1>1. /\ s.length = Len(q) /\ s.sum = SumOf(q)
        /\ s.nonZeroCount = CountIn(s.buffer, Int \ {0})
        /\ s.buffer \in Seq(Samples) /\ q \in Seq(Samples)
    BY DEF RingHolds, RingTyped
  <1>2. EdgeHits(s.buffer, w) = EdgeHits(q, w)
    <2> DEFINE V == {x \in Int : w > 0 /\ AbsVal(x) = w}
    <2>1. EdgeHits(s.buffer, w) = CountIn(s.buffer, V) /\ EdgeHits(q, w) = CountIn(q, V)
      BY <1>1, EdgeHitsCounts
    <2> HIDE DEF V
    <2> QED BY <2>1, RingCount
  <1>3. s.nonZeroCount = Cardinality({i \in 1 .. Len(q) : q[i] # 0})
    <2>1. s.nonZeroCount = CountIn(q, Int \ {0})
      BY <1>1, RingCount
    <2>2. q \in Seq(Int)
      BY <1>1, SamplesAreInt
    <2>3. Places(q, Int \ {0}) = {i \in 1 .. Len(q) : q[i] # 0}
      BY <2>2 DEF Places
    <2> QED BY <2>1, <2>3 DEF CountIn
  <1> QED BY <1>1, <1>2, <1>3 DEF Report

-----------------------------------------------------------------------------
(* The average. *)

(* A quotient between two integers is not rounded past them. *)
LEMMA RoundedWithin ==
    ASSUME NEW num \in Int, NEW den \in Nat \ {0}, NEW lo \in Int, NEW hi \in Int,
           den * lo <= num, num <= den * hi,
           NEW r \in Rounded(num, den)
    PROVE  r \in Int /\ lo <= r /\ r <= hi
  <1>1. r \in Int /\ AbsVal(2 * (num - r * den)) <= den
    BY DEF Rounded
  <1> DEFINE rd == r * den
             lod == den * lo
             hid == den * hi
  <1>2. rd \in Int /\ lod \in Int /\ hid \in Int
    BY <1>1
  <1>3. 2 * (num - rd) <= den /\ 2 * (num - rd) >= -den
    BY <1>1, <1>2 DEF AbsVal
  <1>4. ASSUME r > hi PROVE rd >= hid + den
    <2>1. PICK d \in Nat : r = hi + 1 + d
      <3>1. r - hi - 1 \in Nat /\ r = hi + 1 + (r - hi - 1)
        BY <1>1, <1>4
      <3> QED BY <3>1
    <2>2. (hi + 1 + d) * den = hi * den + den + d * den /\ d * den \in Nat /\ hi * den = den * hi
      OBVIOUS
    <2> QED BY <2>1, <2>2
  <1>5. ASSUME r < lo PROVE rd <= lod - den
    <2>1. PICK d \in Nat : r = lo - 1 - d
      <3>1. lo - 1 - r \in Nat /\ r = lo - 1 - (lo - 1 - r)
        BY <1>1, <1>5
      <3> QED BY <3>1
    <2>2. (lo - 1 - d) * den = lo * den - den - d * den /\ d * den \in Nat /\ lo * den = den * lo
      OBVIOUS
    <2> QED BY <2>1, <2>2
  <1> HIDE DEF rd, lod, hid
  <1>6. lod <= num /\ num <= hid
    BY DEF lod, hid
  <1> QED BY <1>1, <1>2, <1>3, <1>4, <1>5, <1>6

(* A number between two others stays between them when all are scaled. *)
LEMMA Scaled ==
    ASSUME NEW k \in Nat, NEW a \in Int, NEW b \in Int, a <= b
    PROVE  k * a <= k * b /\ k * a \in Int /\ k * b \in Int
  <1>1. PICK d \in Nat : b = a + d
    <2>1. b - a \in Nat /\ b = a + (b - a)
      OBVIOUS
    <2> QED BY <2>1
  <1>2. k * (a + d) = k * a + k * d /\ k * d \in Nat /\ k * a \in Int
    OBVIOUS
  <1> QED BY <1>1, <1>2

(* When the samples and the average so far lie between lo and hi, so does  *)
(* the numerator of the next average.                                      *)
LEMMA SmoothedNumWithin ==
    ASSUME NEW s, s.length \in Nat \ {0}, s.sum \in Int, NEW old \in Int,
           NEW lo \in Int, NEW hi \in Int,
           s.length * lo <= s.sum, s.sum <= s.length * hi,
           EmaScale * lo <= old, old <= EmaScale * hi
    PROVE  /\ SmoothedNum(s, old) \in Int
           /\ (5 * s.length) * (EmaScale * lo) <= SmoothedNum(s, old)
           /\ SmoothedNum(s, old) <= (5 * s.length) * (EmaScale * hi)
  <1> DEFINE n == s.length
             sum == s.sum
             E == EmaScale
  <1>1. E \in Nat \ {0}
    BY ConstantsAssumption DEF ConstantsAssumption
  <1>2. SmoothedNum(s, old) = E * sum + 4 * n * old
    BY DEF SmoothedNum
  <1>3. n \in Nat \ {0} /\ sum \in Int /\ n * lo <= sum /\ sum <= n * hi
        /\ E * lo <= old /\ old <= E * hi
    OBVIOUS
  <1> HIDE DEF n, sum, E
  <1>4. E * (n * lo) <= E * sum /\ E * sum <= E * (n * hi) /\ E * sum \in Int
        /\ E * (n * lo) \in Int /\ E * (n * hi) \in Int
    <2>1. n * lo \in Int /\ n * hi \in Int
      BY <1>3
    <2> QED BY <1>1, <1>3, <2>1, Scaled
  <1>5. n * (E * lo) <= n * old /\ n * old <= n * (E * hi) /\ n * old \in Int
        /\ n * (E * lo) \in Int /\ n * (E * hi) \in Int
    <2>1. E * lo \in Int /\ E * hi \in Int
      BY <1>1
    <2> QED BY <1>3, <2>1, Scaled
  <1>6. E * (n * lo) = n * (E * lo) /\ E * (n * hi) = n * (E * hi)
    BY <1>1, <1>3
  <1>7. 4 * n * old = 4 * (n * old) /\ (5 * n) * (E * lo) = 5 * (n * (E * lo))
        /\ (5 * n) * (E * hi) = 5 * (n * (E * hi))
    <2>1. E * lo \in Int /\ E * hi \in Int
      BY <1>1
    <2> DEFINE el == E * lo
               eh == E * hi
    <2> HIDE DEF el, eh
    <2>2. (5 * n) * el = 5 * (n * el) /\ (5 * n) * eh = 5 * (n * eh)
      BY <1>3, <2>1 DEF el, eh
    <2>3. 4 * n * old = 4 * (n * old)
      BY <1>3
    <2> QED BY <2>2, <2>3 DEF el, eh
  <1>8. /\ E * sum + 4 * n * old \in Int
        /\ (5 * n) * (E * lo) <= E * sum + 4 * n * old
        /\ E * sum + 4 * n * old <= (5 * n) * (E * hi)
    <2> DEFINE a == E * sum
               b == n * old
               l == n * (E * lo)
               h == n * (E * hi)
    <2>1. a \in Int /\ b \in Int /\ l \in Int /\ h \in Int
          /\ l <= a /\ a <= h /\ l <= b /\ b <= h
      BY <1>4, <1>5, <1>6
    <2> HIDE DEF a, b, l, h
    <2>2. a + 4 * b \in Int /\ 5 * l <= a + 4 * b /\ a + 4 * b <= 5 * h
      BY <2>1
    <2> QED BY <2>2, <1>7 DEF a, b, l, h
  <1> QED BY <1>2, <1>8 DEF n, sum, E

(* So do the next average, scaled, and the next offset. *)
LEMMA AverageWithin ==
    ASSUME NEW s, s.length \in Nat \ {0}, s.sum \in Int, NEW old \in Int,
           NEW lo \in Int, NEW hi \in Int,
           s.length * lo <= s.sum, s.sum <= s.length * hi,
           EmaScale * lo <= old, old <= EmaScale * hi
    PROVE  /\ \A r \in NewSmoothedScaled(s, old) :
                  r \in Int /\ EmaScale * lo <= r /\ r <= EmaScale * hi
           /\ \A r \in NewOffset(s, old) : r \in Int /\ lo <= r /\ r <= hi
  <1> DEFINE num == SmoothedNum(s, old)
             n == s.length
  <1>1. EmaScale \in Nat \ {0}
    BY ConstantsAssumption DEF ConstantsAssumption
  <1>2. /\ num \in Int /\ (5 * n) * (EmaScale * lo) <= num /\ num <= (5 * n) * (EmaScale * hi)
    BY SmoothedNumWithin
  <1>3. n \in Nat \ {0}
    OBVIOUS
  <1> HIDE DEF num, n
  <1>4. EmaScale * lo \in Int /\ EmaScale * hi \in Int /\ 5 * n \in Nat \ {0}
    BY <1>1, <1>3
  <1>5. \A r \in Rounded(num, 5 * n) : r \in Int /\ EmaScale * lo <= r /\ r <= EmaScale * hi
    BY <1>2, <1>4, RoundedWithin
  <1>6. 5 * EmaScale * n \in Nat \ {0}
        /\ (5 * EmaScale * n) * lo = (5 * n) * (EmaScale * lo)
        /\ (5 * EmaScale * n) * hi = (5 * n) * (EmaScale * hi)
    BY <1>1, <1>3
  <1>7. \A r \in Rounded(num, 5 * EmaScale * n) : r \in Int /\ lo <= r /\ r <= hi
    BY <1>2, <1>6, RoundedWithin
  <1> QED BY <1>5, <1>7 DEF NewSmoothedScaled, NewOffset, num, n

-----------------------------------------------------------------------------
(* The inductive invariant. *)

Updating == {"load", "storeSmoothed", "storeOffset"}
Labels == {"idle", "load", "storeSmoothed", "storeOffset", "clearOffset", "clearSmoothed"}

AtomicsTyped ==
    /\ autoAdjust \in BOOLEAN
    /\ offset \in Int
    /\ smoothedScaled \in Int
    /\ lastWindowUsed \in 0 .. MaxInt64
    /\ mu \in Threads \cup {NoOne}
    /\ pc \in [Threads -> Labels]
    /\ prev \in [Threads -> Int]

(* Who updates the average holds the mutex, and has put a sample in. *)
UpdatesUnderLock ==
    /\ \A t \in Threads : pc[t] \in Updating <=> mu = t
    /\ mu # NoOne => state.length > 0

DetectorInv ==
    /\ AtomicsTyped
    /\ RingHolds(state, recent)
    /\ UpdatesUnderLock
    /\ NoLostUpdate

(* The samples, and what is averaged from them, lie between lo and hi. *)
Between(lo, hi) ==
    /\ \A j \in 1 .. Len(recent) : lo <= recent[j] /\ recent[j] <= hi
    /\ lo <= offset /\ offset <= hi
    /\ EmaScale * lo <= smoothedScaled /\ smoothedScaled <= EmaScale * hi
    /\ \A t \in Threads : EmaScale * lo <= prev[t] /\ prev[t] <= EmaScale * hi

(* The ring of no samples. *)
LEMMA EmptyRing == RingHolds(EmptyState, <<>>)
  <1>1. Capacity \in Nat /\ Capacity > 0
    BY CapacityIsNat
  <1>2. ArePartialSums([n \in 0 .. 0 |-> 0], <<>>)
    BY DEF ArePartialSums
  <1>3. SumOf(<<>>) = 0
    BY <1>2, SumIsPartialSum
  <1>4. CountIn(<<>>, Int \ {0}) = 0
    <2>1. Places(<<>>, Int \ {0}) = {}
      BY DEF Places
    <2> QED BY <2>1, FS_EmptySet DEF CountIn
  <1>5. /\ EmptyState.buffer = <<>> /\ EmptyState.writeIdx = 0 /\ EmptyState.length = 0
        /\ EmptyState.sum = 0 /\ EmptyState.nonZeroCount = 0
    BY DEF EmptyState
  <1>6. RingTyped(EmptyState)
    BY <1>1, <1>5 DEF RingTyped
  <1> QED BY <1>3, <1>4, <1>5, <1>6 DEF RingHolds

(* A new detector has recorded nothing and holds nothing. *)
LEMMA InitDetector == Init => DetectorInv
  <1> SUFFICES ASSUME Init PROVE DetectorInv
    OBVIOUS
  <1>1. AtomicsTyped
    <2>1. autoAdjust \in BOOLEAN
      BY DEF Init
    <2>2. pc \in [Threads -> Labels]
      BY DEF Init, Labels
    <2>3. prev \in [Threads -> Int]
      BY DEF Init
    <2>4. lastWindowUsed \in 0 .. MaxInt64
      BY ConstantsAssumption DEF Init, ConstantsAssumption
    <2> QED BY <2>1, <2>2, <2>3, <2>4 DEF Init, AtomicsTyped
  <1>2. RingHolds(state, recent)
    BY EmptyRing DEF Init
  <1>3. UpdatesUnderLock
    BY ConstantsAssumption DEF Init, UpdatesUnderLock, Updating, ConstantsAssumption
  <1>4. NoLostUpdate
    BY DEF Init, NoLostUpdate
  <1> QED BY <1>1, <1>2, <1>3, <1>4 DEF DetectorInv

(* Record enters its sample, and keeps the mutex to update the average. *)
LEMMA RecordKeepsInv ==
    ASSUME DetectorInv, NEW t \in Threads, NEW m \in Samples, NEW w \in Windows, Record(t, m, w)
    PROVE  DetectorInv'
  <1> DEFINE s == Push(state, m)
             adjust == autoAdjust /\ s.length >= MinSamples
  <1>1. /\ pc[t] = "idle" /\ mu = NoOne
        /\ state' = s
        /\ lastWindowUsed' = ClampedWindow(w)
        /\ mu' = (IF adjust THEN t ELSE NoOne)
        /\ pc' = [pc EXCEPT ![t] = IF adjust THEN "load" ELSE "idle"]
        /\ recent' = IF Len(recent) < Capacity THEN Append(recent, m)
                     ELSE Append(Tail(recent), m)
        /\ UNCHANGED <<autoAdjust, offset, smoothedScaled, prev>>
    BY DEF Record, Goto, atomics
  <1>2. AtomicsTyped /\ RingHolds(state, recent) /\ UpdatesUnderLock /\ NoLostUpdate
    BY DEF DetectorInv
  <1>3. RingHolds(s, recent')
    <2>1. Len(recent) = state.length /\ state.length \in 0 .. Capacity
      BY <1>2 DEF RingHolds, RingTyped
    <2>2. CASE state.length < Capacity
      BY <1>1, <1>2, <2>1, <2>2, PushAppends
    <2>3. CASE state.length = Capacity
      <3>1. ~ (Len(recent) < Capacity) /\ state.length >= Capacity
        BY <2>1, <2>3, CapacityIsNat
      <3> QED BY <1>1, <1>2, <3>1, PushReplaces
    <2> QED BY <2>1, <2>2, <2>3, CapacityIsNat
  <1>4. adjust => s.length > 0
    <2>1. s.length \in 0 .. Capacity
      BY <1>3 DEF RingHolds, RingTyped
    <2> QED BY <2>1, ConstantsAssumption DEF ConstantsAssumption
  <1> HIDE DEF s, adjust
  <1>5. AtomicsTyped'
    <2>1. ClampedWindow(w) \in 0 .. MaxInt64
      BY ConstantsAssumption DEF ClampedWindow, ConstantsAssumption
    <2> QED BY <1>1, <1>2, <2>1 DEF AtomicsTyped, Labels
  <1>6. UpdatesUnderLock'
    <2>1. NoOne \notin Threads
      BY ConstantsAssumption DEF ConstantsAssumption
    <2>2. \A u \in Threads : pc[u] \notin Updating
      BY <1>1, <1>2, <2>1 DEF UpdatesUnderLock
    <2>3. pc \in [Threads -> Labels]
      BY <1>2 DEF AtomicsTyped
    <2>4. \A u \in Threads : pc'[u] = IF u = t THEN (IF adjust THEN "load" ELSE "idle") ELSE pc[u]
      BY <1>1, <2>3
    <2>5. \A u \in Threads : pc'[u] \in Updating <=> mu' = u
      BY <1>1, <2>1, <2>2, <2>4 DEF Updating
    <2>6. mu' # NoOne => state'.length > 0
      BY <1>1, <1>4
    <2> QED BY <2>5, <2>6 DEF UpdatesUnderLock
  <1>7. NoLostUpdate'
    BY <1>1, <1>2 DEF NoLostUpdate, AtomicsTyped
  <1>8. RingHolds(state, recent)'
    BY <1>1, <1>3
  <1> QED BY <1>5, <1>6, <1>7, <1>8 DEF DetectorInv

(* The ring's samples and their sum, for the bounds lo and hi. *)
LEMMA RingSumBetween ==
    ASSUME NEW s, NEW q, RingHolds(s, q), NEW lo \in Int, NEW hi \in Int,
           \A j \in 1 .. Len(q) : lo <= q[j] /\ q[j] <= hi
    PROVE  s.sum \in Int /\ s.length * lo <= s.sum /\ s.sum <= s.length * hi
  <1>1. q \in Seq(Int) /\ Len(q) = s.length /\ s.sum = SumOf(q)
    BY SamplesAreInt DEF RingHolds
  <1> QED BY <1>1, SumBounds

(* The steps of Record that update the average. *)
LEMMA UpdateKeepsInv ==
    ASSUME DetectorInv, NEW t \in Threads, RecordSteps(t)
    PROVE  DetectorInv'
  <1>1. AtomicsTyped /\ RingHolds(state, recent) /\ UpdatesUnderLock /\ NoLostUpdate
    BY DEF DetectorInv
  <1>2. NoOne \notin Threads
    BY ConstantsAssumption DEF ConstantsAssumption
  <1>3. pc[t] \in Updating
    BY DEF RecordSteps, LoadSmoothed, StoreSmoothed, StoreOffset, Updating
  <1>4. mu = t /\ state.length > 0 /\ \A u \in Threads \ {t} : pc[u] \notin Updating
    BY <1>1, <1>2, <1>3 DEF UpdatesUnderLock
  <1>5. UNCHANGED <<state, recent, autoAdjust, lastWindowUsed>>
    BY DEF RecordSteps, LoadSmoothed, StoreSmoothed, StoreOffset, atomics
  <1>6. RingHolds(state, recent)'
    BY <1>1, <1>5
  <1>7. pc \in [Threads -> Labels] /\ prev \in [Threads -> Int] /\ prev[t] \in Int
    BY <1>1 DEF AtomicsTyped
  <1>8. CASE LoadSmoothed(t)
    <2>1. /\ pc' = [pc EXCEPT ![t] = "storeSmoothed"]
          /\ prev' = [prev EXCEPT ![t] = smoothedScaled]
          /\ UNCHANGED <<offset, smoothedScaled, mu>>
      BY <1>8 DEF LoadSmoothed, Goto, atomics
    <2>2. AtomicsTyped'
      BY <1>1, <1>5, <2>1 DEF AtomicsTyped, Labels
    <2>3. UpdatesUnderLock'
      BY <1>4, <1>5, <1>7, <2>1 DEF UpdatesUnderLock, Updating
    <2>4. NoLostUpdate'
      BY <1>4, <1>7, <2>1 DEF NoLostUpdate, Updating
    <2> QED BY <1>6, <2>2, <2>3, <2>4 DEF DetectorInv
  <1>9. CASE StoreSmoothed(t)
    <2>1. /\ pc' = [pc EXCEPT ![t] = "storeOffset"]
          /\ smoothedScaled' \in NewSmoothedScaled(state, prev[t])
          /\ UNCHANGED <<offset, mu, prev>>
      BY <1>9 DEF StoreSmoothed, Goto
    <2>2. smoothedScaled' \in Int
      <3>1. SmoothedNum(state, prev[t]) \in Int /\ 5 * state.length \in Nat \ {0}
        <4>1. state.sum \in Int /\ state.length \in Nat \ {0}
          BY <1>1, <1>4 DEF RingHolds, RingTyped
        <4> QED BY <4>1, <1>7, ConstantsAssumption DEF SmoothedNum, ConstantsAssumption
      <3> QED BY <2>1, <3>1 DEF NewSmoothedScaled, Rounded
    <2>3. AtomicsTyped'
      BY <1>1, <1>5, <2>1, <2>2 DEF AtomicsTyped, Labels
    <2>4. UpdatesUnderLock'
      BY <1>4, <1>5, <1>7, <2>1 DEF UpdatesUnderLock, Updating
    <2>5. NoLostUpdate'
      BY <1>4, <1>7, <2>1 DEF NoLostUpdate, Updating
    <2> QED BY <1>6, <2>3, <2>4, <2>5 DEF DetectorInv
  <1>10. CASE StoreOffset(t)
    <2>1. /\ pc' = [pc EXCEPT ![t] = "idle"]
          /\ offset' \in NewOffset(state, prev[t])
          /\ mu' = NoOne
          /\ prev' = [prev EXCEPT ![t] = 0]
          /\ UNCHANGED smoothedScaled
      BY <1>10 DEF StoreOffset, Goto
    <2>2. offset' \in Int
      <3>1. SmoothedNum(state, prev[t]) \in Int /\ 5 * EmaScale * state.length \in Nat \ {0}
        <4>1. state.sum \in Int /\ state.length \in Nat \ {0} /\ EmaScale \in Nat \ {0}
          BY <1>1, <1>4, ConstantsAssumption DEF RingHolds, RingTyped, ConstantsAssumption
        <4> QED BY <4>1, <1>7 DEF SmoothedNum
      <3> QED BY <2>1, <3>1 DEF NewOffset, Rounded
    <2>3. AtomicsTyped'
      BY <1>1, <1>5, <2>1, <2>2 DEF AtomicsTyped, Labels
    <2>4. UpdatesUnderLock'
      BY <1>2, <1>4, <1>5, <1>7, <2>1 DEF UpdatesUnderLock, Updating
    <2>5. NoLostUpdate'
      BY <1>4, <1>7, <2>1 DEF NoLostUpdate, Updating
    <2> QED BY <1>6, <2>3, <2>4, <2>5 DEF DetectorInv
  <1> QED BY <1>8, <1>9, <1>10 DEF RecordSteps

(* EnableAutoAdjust, DisableAutoAdjust and Reset. *)
LEMMA OperateKeepsInv ==
    ASSUME DetectorInv, NEW t \in Threads,
           EnableAutoAdjust(t) \/ DisableAuto(t) \/ DisableSteps(t) \/ Reset(t)
    PROVE  DetectorInv'
  <1>1. AtomicsTyped /\ RingHolds(state, recent) /\ UpdatesUnderLock /\ NoLostUpdate
    BY DEF DetectorInv
  <1>2. NoOne \notin Threads
    BY ConstantsAssumption DEF ConstantsAssumption
  <1>3. pc \in [Threads -> Labels]
    BY <1>1 DEF AtomicsTyped
  <1>4. CASE EnableAutoAdjust(t)
    <2>1. autoAdjust' = TRUE
          /\ UNCHANGED <<state, offset, smoothedScaled, lastWindowUsed, mu, pc, prev, recent>>
      BY <1>4 DEF EnableAutoAdjust, local
    <2> QED BY <1>1, <2>1 DEF DetectorInv, AtomicsTyped, UpdatesUnderLock, NoLostUpdate
  <1>5. CASE DisableAuto(t)
    <2>1. /\ pc[t] = "idle" /\ autoAdjust' = FALSE /\ pc' = [pc EXCEPT ![t] = "clearOffset"]
          /\ UNCHANGED <<state, offset, smoothedScaled, lastWindowUsed, mu, prev, recent>>
      BY <1>5 DEF DisableAuto, Goto
    <2>2. AtomicsTyped'
      BY <1>1, <2>1 DEF AtomicsTyped, Labels
    <2>3. UpdatesUnderLock' /\ NoLostUpdate'
      BY <1>1, <1>3, <2>1 DEF UpdatesUnderLock, Updating, NoLostUpdate
    <2> QED BY <1>1, <2>1, <2>2, <2>3 DEF DetectorInv
  <1>6. CASE ClearOffset(t)
    <2>1. /\ pc[t] = "clearOffset" /\ offset' = 0 /\ pc' = [pc EXCEPT ![t] = "clearSmoothed"]
          /\ UNCHANGED <<state, autoAdjust, smoothedScaled, lastWindowUsed, mu, prev, recent>>
      BY <1>6 DEF ClearOffset, Goto
    <2>2. AtomicsTyped'
      BY <1>1, <2>1 DEF AtomicsTyped, Labels
    <2>3. UpdatesUnderLock' /\ NoLostUpdate'
      BY <1>1, <1>3, <2>1 DEF UpdatesUnderLock, Updating, NoLostUpdate
    <2> QED BY <1>1, <2>1, <2>2, <2>3 DEF DetectorInv
  <1>7. CASE ClearSmoothed(t)
    <2>1. /\ pc[t] = "clearSmoothed" /\ smoothedScaled' = 0 /\ pc' = [pc EXCEPT ![t] = "idle"]
          /\ UNCHANGED <<state, autoAdjust, offset, lastWindowUsed, mu, prev, recent>>
      BY <1>7 DEF ClearSmoothed, Goto
    <2>2. AtomicsTyped'
      BY <1>1, <2>1 DEF AtomicsTyped, Labels
    <2>3. UpdatesUnderLock' /\ NoLostUpdate'
      BY <1>1, <1>3, <2>1 DEF UpdatesUnderLock, Updating, NoLostUpdate
    <2> QED BY <1>1, <2>1, <2>2, <2>3 DEF DetectorInv
  <1>8. CASE Reset(t)
    <2>1. /\ mu = NoOne /\ state' = EmptyState /\ offset' = 0 /\ smoothedScaled' = 0
          /\ recent' = <<>> /\ UNCHANGED <<autoAdjust, lastWindowUsed, mu, pc, prev>>
      BY <1>8 DEF Reset, local
    <2>2. AtomicsTyped'
      BY <1>1, <2>1 DEF AtomicsTyped
    <2>3. UpdatesUnderLock' /\ NoLostUpdate'
      BY <1>1, <2>1 DEF UpdatesUnderLock, NoLostUpdate
    <2>4. RingHolds(state, recent)'
      BY <2>1, EmptyRing
    <2> QED BY <2>2, <2>3, <2>4 DEF DetectorInv
  <1> QED BY <1>4, <1>5, <1>6, <1>7, <1>8 DEF DisableSteps

(* Every step of the detector keeps the invariant. *)
LEMMA NextKeepsInv == DetectorInv /\ [Next]_vars => DetectorInv'
  <1> SUFFICES ASSUME DetectorInv, [Next]_vars PROVE DetectorInv'
    OBVIOUS
  <1>1. CASE UNCHANGED vars
    BY <1>1 DEF vars, atomics, local, DetectorInv, AtomicsTyped, UpdatesUnderLock, NoLostUpdate
  <1>2. CASE Next
    BY <1>2, RecordKeepsInv, UpdateKeepsInv, OperateKeepsInv DEF Next
  <1> QED BY <1>1, <1>2

-----------------------------------------------------------------------------
(* The bounds. *)

(* The correction of a new detector, 0, is within bounds. *)
LEMMA InitBetween ==
    ASSUME NEW lo \in Int, NEW hi \in Int, lo <= 0, 0 <= hi, Init
    PROVE  Between(lo, hi)
  <1>1. EmaScale * lo <= 0 /\ 0 <= EmaScale * hi
    <2>1. EmaScale \in Nat
      BY ConstantsAssumption DEF ConstantsAssumption
    <2>2. EmaScale * lo <= EmaScale * 0 /\ EmaScale * 0 <= EmaScale * hi
      BY <2>1, Scaled
    <2> QED BY <2>1, <2>2
  <1> QED BY <1>1 DEF Init, Between

(* A sample between lo and hi leaves everything there. *)
LEMMA RecordKeepsBetween ==
    ASSUME DetectorInv, NEW lo \in Int, NEW hi \in Int, Between(lo, hi),
           NEW t \in Threads, NEW m \in Samples, NEW w \in Windows, Record(t, m, w),
           lo <= m, m <= hi
    PROVE  Between(lo, hi)'
  <1>1. /\ recent' = IF Len(recent) < Capacity THEN Append(recent, m)
                     ELSE Append(Tail(recent), m)
        /\ UNCHANGED <<offset, smoothedScaled, prev>>
    BY DEF Record, atomics
  <1>2. recent \in Seq(Samples) /\ Len(recent) \in 0 .. Capacity
    BY DEF DetectorInv, RingHolds, RingTyped
  <1>3. \A j \in 1 .. Len(recent) : lo <= recent[j] /\ recent[j] <= hi
    BY DEF Between
  <1>4. ASSUME NEW j \in 1 .. Len(recent') PROVE lo <= recent'[j] /\ recent'[j] <= hi
    <2>1. CASE Len(recent) < Capacity
      <3>1. recent' = Append(recent, m)
        BY <1>1, <2>1
      <3>2. recent'[j] = IF j = Len(recent) + 1 THEN m ELSE recent[j]
        BY <1>2, <3>1
      <3> QED BY <1>2, <1>3, <3>1, <3>2
    <2>2. CASE ~ (Len(recent) < Capacity)
      <3>1. recent' = Append(Tail(recent), m) /\ recent # <<>>
        BY <1>1, <1>2, <2>2, CapacityIsNat
      <3>2. Len(recent') = Len(recent) /\ Tail(recent) \in Seq(Samples)
            /\ Len(Tail(recent)) = Len(recent) - 1
            /\ \A i \in 1 .. Len(recent) - 1 : Tail(recent)[i] = recent[i + 1]
        BY <1>2, <3>1
      <3>3. CASE j = Len(recent)
        <4>1. recent'[j] = m
          BY <1>2, <3>1, <3>2, <3>3
        <4> QED BY <4>1
      <3>4. CASE j # Len(recent)
        <4>1. j \in 1 .. Len(recent) - 1 /\ j + 1 \in 1 .. Len(recent)
          BY <1>2, <3>2, <3>4
        <4>2. recent'[j] = recent[j + 1]
          BY <1>2, <3>1, <3>2, <4>1
        <4> QED BY <1>3, <4>1, <4>2
      <3> QED BY <3>3, <3>4
    <2> QED BY <2>1, <2>2
  <1> QED BY <1>1, <1>4 DEF Between

(* So do the updates of the average ... *)
LEMMA UpdateKeepsBetween ==
    ASSUME DetectorInv, NEW lo \in Int, NEW hi \in Int, lo <= 0, 0 <= hi, Between(lo, hi),
           NEW t \in Threads, RecordSteps(t)
    PROVE  Between(lo, hi)'
  <1>1. AtomicsTyped /\ RingHolds(state, recent) /\ UpdatesUnderLock
    BY DEF DetectorInv
  <1>2. pc[t] \in Updating
    BY DEF RecordSteps, LoadSmoothed, StoreSmoothed, StoreOffset, Updating
  <1>3. state.length \in Nat \ {0} /\ prev[t] \in Int /\ prev \in [Threads -> Int]
    <2>1. mu = t /\ mu # NoOne
      BY <1>1, <1>2, ConstantsAssumption DEF UpdatesUnderLock, ConstantsAssumption
    <2> QED BY <1>1, <2>1 DEF UpdatesUnderLock, RingHolds, RingTyped, AtomicsTyped
  <1>4. UNCHANGED recent
    BY DEF RecordSteps, LoadSmoothed, StoreSmoothed, StoreOffset
  <1>5. /\ \A j \in 1 .. Len(recent) : lo <= recent[j] /\ recent[j] <= hi
        /\ EmaScale * lo <= prev[t] /\ prev[t] <= EmaScale * hi
        /\ EmaScale * lo <= smoothedScaled /\ smoothedScaled <= EmaScale * hi
    BY DEF Between
  <1>6. state.sum \in Int /\ state.length * lo <= state.sum /\ state.sum <= state.length * hi
    BY <1>1, <1>5, RingSumBetween
  <1>7. /\ \A r \in NewSmoothedScaled(state, prev[t]) :
              r \in Int /\ EmaScale * lo <= r /\ r <= EmaScale * hi
        /\ \A r \in NewOffset(state, prev[t]) : r \in Int /\ lo <= r /\ r <= hi
    BY <1>3, <1>5, <1>6, AverageWithin
  <1>8. EmaScale * lo <= 0 /\ 0 <= EmaScale * hi
    <2>1. EmaScale \in Nat
      BY ConstantsAssumption DEF ConstantsAssumption
    <2>2. EmaScale * lo <= EmaScale * 0 /\ EmaScale * 0 <= EmaScale * hi
      BY <2>1, Scaled
    <2> QED BY <2>1, <2>2
  <1>9. CASE LoadSmoothed(t)
    <2>1. prev' = [prev EXCEPT ![t] = smoothedScaled] /\ UNCHANGED <<offset, smoothedScaled>>
      BY <1>9 DEF LoadSmoothed, atomics
    <2> QED BY <1>3, <1>4, <1>5, <2>1 DEF Between
  <1>10. CASE StoreSmoothed(t)
    <2>1. smoothedScaled' \in NewSmoothedScaled(state, prev[t]) /\ UNCHANGED <<offset, prev>>
      BY <1>10 DEF StoreSmoothed
    <2>2. EmaScale * lo <= smoothedScaled' /\ smoothedScaled' <= EmaScale * hi
      BY <1>7, <2>1
    <2> QED BY <1>4, <1>5, <2>1, <2>2 DEF Between
  <1>11. CASE StoreOffset(t)
    <2>1. /\ offset' \in NewOffset(state, prev[t])
          /\ prev' = [prev EXCEPT ![t] = 0] /\ UNCHANGED smoothedScaled
      BY <1>11 DEF StoreOffset
    <2>2. lo <= offset' /\ offset' <= hi
      BY <1>7, <2>1
    <2>3. \A u \in Threads : prev'[u] = IF u = t THEN 0 ELSE prev[u]
      BY <1>3, <2>1
    <2> QED BY <1>4, <1>5, <1>8, <2>1, <2>2, <2>3 DEF Between
  <1> QED BY <1>9, <1>10, <1>11 DEF RecordSteps

(* ... and the zeros of DisableAutoAdjust and Reset. *)
LEMMA OperateKeepsBetween ==
    ASSUME NEW lo \in Int, NEW hi \in Int, lo <= 0, 0 <= hi, Between(lo, hi),
           NEW t \in Threads,
           EnableAutoAdjust(t) \/ DisableAuto(t) \/ DisableSteps(t) \/ Reset(t)
    PROVE  Between(lo, hi)'
  <1>1. EmaScale * lo <= 0 /\ 0 <= EmaScale * hi
    <2>1. EmaScale \in Nat
      BY ConstantsAssumption DEF ConstantsAssumption
    <2>2. EmaScale * lo <= EmaScale * 0 /\ EmaScale * 0 <= EmaScale * hi
      BY <2>1, Scaled
    <2> QED BY <2>1, <2>2
  <1>2. UNCHANGED prev
    BY DEF EnableAutoAdjust, DisableAuto, DisableSteps, ClearOffset, ClearSmoothed, Reset, local
  <1>3. recent' = recent \/ recent' = <<>>
    BY DEF EnableAutoAdjust, DisableAuto, DisableSteps, ClearOffset, ClearSmoothed, Reset, local
  <1>4. offset' \in {offset, 0} /\ smoothedScaled' \in {smoothedScaled, 0}
    BY DEF EnableAutoAdjust, DisableAuto, DisableSteps, ClearOffset, ClearSmoothed, Reset, local
  <1> QED BY <1>1, <1>2, <1>3, <1>4 DEF Between

(* No sample is larger than MaxSample. *)
LEMMA MaxSampleBounds ==
    /\ MaxSample \in Nat
    /\ \A m \in Samples : -MaxSample <= m /\ m <= MaxSample
  <1> DEFINE Sizes == {AbsVal(m) : m \in Samples}
             f == [m \in Samples |-> AbsVal(m)]
  <1>1. Samples \subseteq Int /\ IsFiniteSet(Samples)
    BY ConstantsAssumption DEF ConstantsAssumption
  <1>2. f \in [Samples -> Sizes] /\ \A x \in Sizes : \E m \in Samples : f[m] = x
    OBVIOUS
  <1>3. f \in Surjection(Samples, Sizes)
    BY <1>2 DEF Surjection
  <1>4. IsFiniteSet(Sizes)
    BY <1>1, <1>3, FS_Surjection
  <1>5. IsFiniteSet(Sizes \cup {0})
    BY <1>4, FS_AddElement
  <1>6. \A m \in Samples : AbsVal(m) \in Nat /\ -AbsVal(m) <= m /\ m <= AbsVal(m)
    BY <1>1 DEF AbsVal
  <1>7. Sizes \cup {0} \in SUBSET Int /\ Sizes \cup {0} # {} /\ \A x \in Sizes \cup {0} : x \in Nat
    BY <1>6
  <1>8. MaxSample \in Sizes \cup {0} /\ \A x \in Sizes \cup {0} : MaxSample >= x
    BY <1>5, <1>7, MaxOfFinite DEF MaxSample
  <1>9. MaxSample \in Nat
    BY <1>7, <1>8
  <1>10. ASSUME NEW m \in Samples PROVE -MaxSample <= m /\ m <= MaxSample
    <2>1. AbsVal(m) <= MaxSample /\ AbsVal(m) \in Nat /\ -AbsVal(m) <= m /\ m <= AbsVal(m) /\ m \in Int
      BY <1>1, <1>6, <1>8
    <2> QED BY <1>9, <2>1
  <1> QED BY <1>9, <1>10

(* Every step keeps the correction and its average within the bounds that  *)
(* the samples are in.                                                     *)
LEMMA NextKeepsBetween ==
    DetectorInv /\ Between(-MaxSample, MaxSample) /\ [Next]_vars => Between(-MaxSample, MaxSample)'
  <1> DEFINE hi == MaxSample
             lo == -MaxSample
  <1> SUFFICES ASSUME DetectorInv, Between(lo, hi), [Next]_vars PROVE Between(lo, hi)'
    OBVIOUS
  <1>1. lo \in Int /\ hi \in Int /\ lo <= 0 /\ 0 <= hi /\ \A m \in Samples : lo <= m /\ m <= hi
    BY MaxSampleBounds
  <1> HIDE DEF lo, hi
  <1>2. CASE UNCHANGED vars
    BY <1>2 DEF vars, atomics, local, Between
  <1>3. ASSUME NEW t \in Threads, NEW m \in Samples, NEW w \in Windows, Record(t, m, w)
        PROVE  Between(lo, hi)'
    BY <1>1, <1>3, RecordKeepsBetween
  <1>4. ASSUME NEW t \in Threads, RecordSteps(t) PROVE Between(lo, hi)'
    BY <1>1, <1>4, UpdateKeepsBetween
  <1>5. ASSUME NEW t \in Threads,
               EnableAutoAdjust(t) \/ DisableAuto(t) \/ DisableSteps(t) \/ Reset(t)
        PROVE  Between(lo, hi)'
    BY <1>1, <1>5, OperateKeepsBetween
  <1> QED BY <1>2, <1>3, <1>4, <1>5 DEF Next

-----------------------------------------------------------------------------
(* The theorems. *)

(* The inductive invariant: the ring with its running aggregates holds the  *)
(* last samples, and the average is updated by the owner of the mutex.      *)
THEOREM DetectorInvariant == Spec => []DetectorInv
  BY InitDetector, NextKeepsInv, PTL DEF Spec

(* The types; the ring never outgrows its capacity, and the next index is   *)
(* inside it, for every capacity (Record's write to the ring).              *)
THEOREM DetectorTypeCorrect == Spec => []TypeOK
  <1>1. DetectorInv => TypeOK
    <2> SUFFICES ASSUME DetectorInv PROVE TypeOK
      OBVIOUS
    <2>1. AtomicsTyped /\ RingTyped(state) /\ Len(state.buffer) = state.length
          /\ state.nonZeroCount = CountIn(state.buffer, Int \ {0})
      BY DEF DetectorInv, RingHolds
    <2>2. state.buffer \in BoundedSeq(Samples, Capacity)
      <3>1. state.buffer \in [1 .. state.length -> Samples] /\ state.length \in 0 .. Capacity
        BY <2>1 DEF RingTyped
      <3> QED BY <3>1 DEF BoundedSeq, SeqOf
    <2>3. state.nonZeroCount \in 0 .. Capacity
      <3>1. CountIn(state.buffer, Int \ {0}) \in 0 .. Len(state.buffer)
        BY <2>1, CountIsNat DEF RingTyped
      <3> QED BY <2>1, <3>1, CapacityIsNat DEF RingTyped
    <2> QED BY <2>1, <2>2, <2>3 DEF TypeOK, AtomicsTyped, RingTyped, Labels
  <1> QED BY <1>1, DetectorInvariant, PTL

(* Report says what follows from the last Capacity samples recorded since   *)
(* the last Reset, however often the ring has wrapped (Record, Report).     *)
THEOREM ReportIsRight == Spec => []ReportIsOfLastSamples
  <1>1. DetectorInv => ReportIsOfLastSamples
    BY ReportOfRing DEF DetectorInv, ReportIsOfLastSamples
  <1> QED BY <1>1, DetectorInvariant, PTL

(* No Record overwrites another's update of the average: "must stay under   *)
(* lock" (src/skew.go:104-105).                                             *)
THEOREM NoUpdateIsLost == Spec => []NoLostUpdate
  <1>1. DetectorInv => NoLostUpdate
    BY DEF DetectorInv
  <1> QED BY <1>1, DetectorInvariant, PTL

(* The correction never exceeds the largest offset ever matched, whatever   *)
(* races with DisableAutoAdjust and however the halves are rounded.         *)
THEOREM OffsetIsBounded == Spec => []OffsetWithinSamples
  <1>1. Init => Between(-MaxSample, MaxSample)
    <2>1. -MaxSample \in Int /\ MaxSample \in Int /\ -MaxSample <= 0 /\ 0 <= MaxSample
      BY MaxSampleBounds
    <2> QED BY <2>1, InitBetween
  <1>2. DetectorInv /\ Between(-MaxSample, MaxSample) => OffsetWithinSamples
    <2> SUFFICES ASSUME DetectorInv, Between(-MaxSample, MaxSample) PROVE OffsetWithinSamples
      OBVIOUS
    <2>1. offset \in Int /\ smoothedScaled \in Int
      BY DEF DetectorInv, AtomicsTyped
    <2>2. MaxSample \in Nat /\ EmaScale \in Nat
      BY MaxSampleBounds, ConstantsAssumption DEF ConstantsAssumption
    <2> DEFINE k == EmaScale * MaxSample
    <2>3. k \in Nat /\ EmaScale * (-MaxSample) = -k
      BY <2>2
    <2>4. -MaxSample <= offset /\ offset <= MaxSample /\ -k <= smoothedScaled /\ smoothedScaled <= k
      BY <2>3 DEF Between
    <2> HIDE DEF k
    <2>5. AbsVal(offset) <= MaxSample /\ AbsVal(smoothedScaled) <= k
      BY <2>1, <2>2, <2>3, <2>4 DEF AbsVal
    <2> QED BY <2>5 DEF OffsetWithinSamples, k
  <1> QED BY <1>1, <1>2, InitDetector, NextKeepsInv, NextKeepsBetween, PTL DEF Spec

=============================================================================
