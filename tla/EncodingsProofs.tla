-------------------------- MODULE EncodingsProofs --------------------------
(***************************************************************************)
(* Proofs about Encodings: that secrets, URIs and migration payloads of    *)
(* any length read back, also cut short or from other exporters; that      *)
(* contexts and replay keys stay apart; what is kept of an origin; and     *)
(* that the comparisons are equality, for every width of a machine word.   *)
(***************************************************************************)
EXTENDS Encodings, DataFacts

-----------------------------------------------------------------------------
(* The jobs. *)

(* A job is one of those that the constants offer. *)
JobInv ==
    \/ job = NoJob
    \/ \E s \in Secrets : job = [kind |-> "secret", in |-> s]
    \/ \E t \in Texts : job = [kind |-> "text", in |-> t]
    \/ \E u \in URIs : job = [kind |-> "uri", in |-> u]
    \/ \E e \in Exports : job = [kind |-> "export", in |-> e]
    \/ \E c \in ContextCalls : job = [kind |-> "context", in |-> c]
    \/ \E o \in Origins : job = [kind |-> "origin", in |-> o]
    \/ \E p \in ReplayPairs : job = [kind |-> "replay", in |-> p]
    \/ \E s \in Strings : job = [kind |-> "compare", in |-> s]

(* A caller takes up nothing else. *)
LEMMA JobInvariant == Spec => []JobInv
  <1>1. Init => JobInv
    BY DEF Init, JobInv
  <1>2. JobInv /\ [Next]_job => JobInv'
    BY DEF JobInv, Next, Take, DecodeSecret, DecodeText, Provision, Migrate, BuildContext, BindOrigin,
           RecordCode, Compare, Finish
  <1> QED BY <1>1, <1>2, PTL DEF Spec

-----------------------------------------------------------------------------
(* Strings. *)

(* The bytes, and the words above them. *)
LEMMA CharRange == Char = 0 .. 275
  <1>1. Len(Words) = 20
    BY DEF Words
  <1> QED BY <1>1 DEF Char

-----------------------------------------------------------------------------
(* Replay keys. *)

(* What stands before the first NUL is the code, and the rest the context.  *)
LEMMA ReplayKeyInjective ==
    ASSUME NEW a \in Seq(48 .. 57), NEW x \in Seq(Char),
           NEW b \in Seq(48 .. 57), NEW y \in Seq(Char),
           ReplayKey(a, x) = ReplayKey(b, y)
    PROVE  a = b /\ x = y
  <1>1. Char = 0 .. 275
    BY CharRange
  <1>2. a \in Seq(Char) /\ b \in Seq(Char) /\ Nul \in Char
    BY <1>1, SeqMonotonic DEF Nul
  <1>3. (\A i \in 1 .. Len(a) : a[i] # Nul) /\ (\A i \in 1 .. Len(b) : b[i] # Nul)
    <2>1. ASSUME NEW i \in 1 .. Len(a) PROVE a[i] # Nul
      <3>1. a[i] \in 48 .. 57
        BY ElementOfSeq
      <3> QED BY <3>1 DEF Nul
    <2>2. ASSUME NEW i \in 1 .. Len(b) PROVE b[i] # Nul
      <3>1. b[i] \in 48 .. 57
        BY ElementOfSeq
      <3> QED BY <3>1 DEF Nul
    <2> QED BY <2>1, <2>2
  <1>4. a \o <<Nul>> \o x = b \o <<Nul>> \o y
    BY DEF ReplayKey
  <1> QED BY <1>2, <1>3, <1>4, SplitAtFirst, ZenonT(40)

(* Two codes, or one code in two contexts, never share a replay key: the    *)
(* separator that src/verifier.go writes is in no code.                     *)
THEOREM ReplayKeysStayApart == Spec => []ReplayKeysApart
  <1>1. JobInv => ReplayKeysApart
    <2> SUFFICES ASSUME JobInv, Doing("replay"), NEW other \in ReplayPairs,
                        ReplayKey(other.code, other.context) = ReplayKey(job.in.code, job.in.context)
                 PROVE  other = job.in
      BY DEF ReplayKeysApart
    <2>1. PICK p \in ReplayPairs : job = [kind |-> "replay", in |-> p]
      BY DEF JobInv, Doing
    <2>2. job.in = p
      BY <2>1
    <2>3. p \in [code : Seq(48 .. 57), context : Seq(Char)]
          /\ other \in [code : Seq(48 .. 57), context : Seq(Char)]
      BY PairsAssumption
    <2>4. p.code = other.code /\ p.context = other.context
      BY <2>2, <2>3, ReplayKeyInjective
    <2> QED BY <2>2, <2>3, <2>4
  <1> QED BY <1>1, JobInvariant, PTL

-----------------------------------------------------------------------------
(* Comparisons. *)

(* What the recursive function computes. *)
LEMMA PowersDouble ==
    /\ PowerOf2 \in [0 .. WordBits -> Nat \ {0}]
    /\ PowerOf2[0] = 1
    /\ \A i \in 1 .. WordBits : PowerOf2[i] = 2 * PowerOf2[i - 1]
  <1> DEFINE T == Nat \ {0}
             g == [i \in 1 .. WordBits |-> [x \in T |-> 2 * x]]
             Eq(p) == p = [i \in 0 .. WordBits |-> IF i = 0 THEN 1 ELSE 2 * p[i - 1]]
  <1>1. WordBits \in Nat
    BY WordAssumption
  <1>2. g \in [1 .. WordBits -> [T -> T]] /\ 1 \in T
    OBVIOUS
  <1>3. PICK f \in [0 .. WordBits -> T] : f[0] = 1 /\ \A i \in 1 .. WordBits : f[i] = g[i][f[i - 1]]
    <2> HIDE DEF g, T
    <2>1. \E f : Turns(f, T, 1, WordBits, g)
      BY <1>1, <1>2, LoopExists
    <2> QED BY <2>1 DEF Turns
  <1>4. ASSUME NEW i \in 1 .. WordBits PROVE f[i] = 2 * f[i - 1]
    <2>1. i - 1 \in 0 .. WordBits /\ f[i - 1] \in T
      BY <1>1
    <2>2. f[i] = g[i][f[i - 1]] /\ g[i] = [x \in T |-> 2 * x]
      BY <1>3
    <2> QED BY <2>1, <2>2
  <1>5. Eq(f)
    BY <1>1, <1>3, <1>4
  <1>6. Eq(PowerOf2)
    BY <1>5 DEF PowerOf2
  <1>7. /\ DOMAIN PowerOf2 = 0 .. WordBits /\ PowerOf2[0] = 1
        /\ \A i \in 1 .. WordBits : PowerOf2[i] = 2 * PowerOf2[i - 1]
    <2> HIDE DEF Eq
    <2>1. PowerOf2 = [i \in 0 .. WordBits |-> IF i = 0 THEN 1 ELSE 2 * PowerOf2[i - 1]]
      BY <1>6 DEF Eq
    <2> QED BY <1>1, <2>1
  <1> DEFINE Typed == {n \in Nat : n <= WordBits => PowerOf2[n] \in T}
  <1>8. 0 \in Typed
    BY <1>7
  <1>9. ASSUME NEW n \in Nat, n \in Typed PROVE n + 1 \in Typed
    <2> SUFFICES ASSUME n + 1 <= WordBits PROVE PowerOf2[n + 1] \in T
      OBVIOUS
    <2>1. PowerOf2[n] \in Nat /\ PowerOf2[n] # 0
      BY <1>1, <1>9
    <2>2. n + 1 \in 1 .. WordBits /\ (n + 1) - 1 = n
      BY <1>1
    <2>3. PowerOf2[n + 1] = 2 * PowerOf2[n]
      BY <1>7, <2>2
    <2> QED BY <2>1, <2>3
  <1>10. \A n \in Nat : n \in Typed
    <2> HIDE DEF Typed
    <2> QED BY <1>8, <1>9, InductionOnSet
  <1>11. PowerOf2 = [i \in 0 .. WordBits |-> PowerOf2[i]]
    BY <1>6
  <1>12. ASSUME NEW i \in 0 .. WordBits PROVE PowerOf2[i] \in Nat \ {0}
    BY <1>1, <1>10
  <1> HIDE DEF Eq
  <1> QED BY <1>7, <1>11, <1>12

(* A byte fits in a word. *)
LEMMA BytesFit == \A n \in Byte : n \in Nat /\ n < PowerOf2[WordBits]
  <1>1. WordBits \in Nat /\ WordBits >= 8
    BY WordAssumption
  <1>2. /\ \A i \in 0 .. WordBits : PowerOf2[i] \in Nat
        /\ PowerOf2[0] = 1
        /\ \A i \in Nat : i + 1 <= WordBits => PowerOf2[i + 1] = 2 * PowerOf2[i]
    <2>1. ASSUME NEW i \in Nat, i + 1 <= WordBits PROVE PowerOf2[i + 1] = 2 * PowerOf2[i]
      <3>1. i + 1 \in 1 .. WordBits /\ (i + 1) - 1 = i
        BY <1>1, <2>1
      <3> QED BY <3>1, PowersDouble
    <2> QED BY <2>1, PowersDouble
  <1>3. PowerOf2[1] = 2 /\ PowerOf2[2] = 4 /\ PowerOf2[3] = 8 /\ PowerOf2[4] = 16
    BY <1>1, <1>2
  <1>4. PowerOf2[5] = 32 /\ PowerOf2[6] = 64 /\ PowerOf2[7] = 128 /\ PowerOf2[8] = 256
    BY <1>1, <1>2, <1>3
  <1> DEFINE Large == {n \in Nat : n + 8 <= WordBits => PowerOf2[n + 8] >= 256}
  <1>5. 0 \in Large
    BY <1>4
  <1>6. ASSUME NEW n \in Nat, n \in Large PROVE n + 1 \in Large
    <2> SUFFICES ASSUME n + 1 + 8 <= WordBits PROVE PowerOf2[n + 1 + 8] >= 256
      OBVIOUS
    <2>1. PowerOf2[n + 8] >= 256 /\ PowerOf2[n + 8] \in Nat
      BY <1>1, <1>2, <1>6
    <2>2. PowerOf2[n + 1 + 8] = 2 * PowerOf2[n + 8]
      BY <1>1, <1>2
    <2> QED BY <2>1, <2>2
  <1>7. \A n \in Nat : n \in Large
    <2> HIDE DEF Large
    <2> QED BY <1>5, <1>6, InductionOnSet
  <1>8. PowerOf2[WordBits] >= 256 /\ PowerOf2[WordBits] \in Nat
    <2>1. WordBits - 8 \in Large
      BY <1>1, <1>7
    <2> QED BY <1>1, <1>2, <2>1
  <1> QED BY <1>8 DEF Byte

(* Numbers of a word with the same bits are equal. *)
LEMMA BitsInjective ==
    ASSUME NEW m \in Nat, NEW n \in Nat, m < PowerOf2[WordBits], n < PowerOf2[WordBits],
           Bits(m) = Bits(n)
    PROVE  m = n
  <1> DEFINE P == PowerOf2
             Same == {k \in Nat : k <= WordBits => m \div P[WordBits - k] = n \div P[WordBits - k]}
  <1>1. WordBits \in Nat
    BY WordAssumption
  <1>2. /\ \A i \in 0 .. WordBits : P[i] \in Nat \ {0}
        /\ P[0] = 1
        /\ \A i \in 0 .. WordBits - 1 : P[i + 1] = 2 * P[i]
    BY <1>1, PowersDouble
  <1>3. 0 \in Same
    <2>1. P[WordBits] \in Nat \ {0}
      BY <1>1, <1>2
    <2>2. m \div P[WordBits] = 0 /\ n \div P[WordBits] = 0
      BY <2>1
    <2> QED BY <1>1, <2>2
  <1>4. ASSUME NEW k \in Nat, k \in Same PROVE k + 1 \in Same
    <2> SUFFICES ASSUME k + 1 <= WordBits
                 PROVE  m \div P[WordBits - (k + 1)] = n \div P[WordBits - (k + 1)]
      OBVIOUS
    <2> DEFINE i == WordBits - (k + 1)
               q == m \div P[i]
               r == n \div P[i]
    <2>1. i \in 0 .. WordBits - 1 /\ i + 1 = WordBits - k /\ i \in 0 .. WordBits
      BY <1>1
    <2>2. P[i] \in Nat \ {0} /\ P[WordBits - k] = 2 * P[i]
      BY <1>2, <2>1
    <2> HIDE DEF P
    <2>3. q \in Nat /\ r \in Nat /\ q \div 2 = m \div P[WordBits - k] /\ r \div 2 = n \div P[WordBits - k]
      <3>1. q \in Nat /\ q \div 2 = m \div (2 * P[i])
        BY <2>2, HalfOfQuotient, ZenonT(40)
      <3>2. r \in Nat /\ r \div 2 = n \div (2 * P[i])
        BY <2>2, HalfOfQuotient, ZenonT(40)
      <3> QED BY <2>2, <3>1, <3>2, ZenonT(40)
    <2>4. q \div 2 = r \div 2
      BY <1>4, <2>3, <1>1
    <2>5. q % 2 = 1 <=> r % 2 = 1
      BY <2>1 DEF Bits, P
    <2> HIDE DEF q, r
    <2>6. q = r
      BY <2>3, <2>4, <2>5
    <2> QED BY <2>6 DEF q, r
  <1>5. \A k \in Nat : k \in Same
    <2> HIDE DEF Same
    <2> QED BY <1>3, <1>4, InductionOnSet
  <1>6. m \div 1 = n \div 1
    <2>1. WordBits \in Same /\ WordBits - WordBits = 0
      BY <1>1, <1>5
    <2> QED BY <1>1, <1>2, <2>1
  <1> QED BY <1>6

(* The sign of a difference tells whether there is one. *)
LEMMA NonzeroIsSign ==
    ASSUME NEW w \in SUBSET (0 .. WordBits - 1)
    PROVE  Nonzero(w) = IF w = {} THEN 0 ELSE 1
  <1>1. WordBits \in Nat
    BY WordAssumption
  <1>2. CASE w = {}
    BY <1>2 DEF Nonzero, Negated
  <1>3. CASE w # {}
    <2>1. w \in SUBSET Nat
      BY <1>1
    <2>2. Min(w) \in w
      BY <1>3, <2>1, LeastNatural DEF Min
    <2>3. CASE WordBits - 1 \in w
      BY <1>3, <2>3 DEF Nonzero
    <2>4. CASE WordBits - 1 \notin w
      <3>1. WordBits - 1 \in Min(w) + 1 .. WordBits - 1
        <4>1. Min(w) \in 0 .. WordBits - 1 /\ Min(w) # WordBits - 1
          BY <2>2, <2>4
        <4> HIDE DEF Min
        <4> QED BY <1>1, <4>1
      <3> QED BY <1>3, <2>4, <3>1 DEF Nonzero, Negated
    <2> QED BY <2>3, <2>4
  <1> QED BY <1>2, <1>3

(* Nothing differs only in equal strings. *)
LEMMA NoDifference ==
    ASSUME NEW a \in Seq(Byte), NEW b \in Seq(Byte),
           Len(a) < PowerOf2[WordBits], Len(b) < PowerOf2[WordBits]
    PROVE  /\ Difference(a, b) \in SUBSET (0 .. WordBits - 1)
           /\ Difference(a, b) = {} <=> a = b
  <1>1. Difference(a, b) \in SUBSET (0 .. WordBits - 1)
    BY DEF Difference, Xor, Bits
  <1>2. ASSUME a = b PROVE Difference(a, b) = {}
    BY <1>2 DEF Difference, Xor
  <1>3. ASSUME Difference(a, b) = {} PROVE a = b
    <2>1. Bits(Len(a)) = Bits(Len(b))
      BY <1>3 DEF Difference, Xor
    <2>2. Len(a) = Len(b)
      BY <2>1, BitsInjective
    <2>3. ASSUME NEW i \in 1 .. Len(a) PROVE a[i] = b[i]
      <3>1. i \in DOMAIN a /\ i \in DOMAIN b /\ a[i] \in Byte /\ b[i] \in Byte
        BY <2>2
      <3>2. Xor(Bits(a[i]), Bits(b[i])) = {}
        BY <1>3, <3>1 DEF Difference
      <3>3. Bits(a[i]) = Bits(b[i])
        BY <3>2 DEF Xor
      <3> QED BY <3>1, <3>3, BitsInjective, BytesFit
    <2> QED BY <2>2, <2>3, SeqEqual
  <1> QED BY <1>1, <1>2, <1>3

(* The copy in src/wasm/main.go. *)
LEMMA WasmNoDifference ==
    ASSUME NEW a \in Seq(Byte), NEW b \in Seq(Byte)
    PROVE  WasmConstTimeEqBytes(a, b) <=> a = b
  <1>1. ASSUME a = b PROVE WasmConstTimeEqBytes(a, b)
    BY <1>1 DEF WasmConstTimeEqBytes, Xor
  <1>2. ASSUME WasmConstTimeEqBytes(a, b) PROVE a = b
    <2>1. Len(a) = Len(b)
      BY <1>2 DEF WasmConstTimeEqBytes
    <2>2. ASSUME NEW i \in 1 .. Len(a) PROVE a[i] = b[i]
      <3>1. i \in DOMAIN a /\ a[i] \in Byte /\ b[i] \in Byte
        BY <2>1
      <3>2. Xor(Bits(a[i]), Bits(b[i])) = {}
        BY <1>2, <3>1 DEF WasmConstTimeEqBytes
      <3>3. Bits(a[i]) = Bits(b[i])
        BY <3>2 DEF Xor
      <3> QED BY <3>1, <3>3, BitsInjective, BytesFit
    <2> QED BY <2>1, <2>2, SeqEqual
  <1> QED BY <1>1, <1>2

(* The branch-free comparisons of constant_time.go and wasm/main.go accept  *)
(* exactly equal strings, of any lengths and for any width of the word.     *)
THEOREM ComparisonsDecideEquality == Spec => []ComparisonsAreEquality
  <1>1. JobInv => ComparisonsAreEquality
    <2> SUFFICES ASSUME JobInv, Doing("compare"), NEW s \in Strings
                 PROVE  /\ ConstTimeEqBytes(job.in, s) <=> s = job.in
                        /\ ConstantTimeEqByteResult(job.in, s) = IF s = job.in THEN 1 ELSE 0
                        /\ WasmConstTimeEqBytes(job.in, s) <=> s = job.in
      BY DEF ComparisonsAreEquality
    <2>1. PICK t \in Strings : job = [kind |-> "compare", in |-> t]
      BY DEF JobInv, Doing
    <2>2. job.in = t
      BY <2>1
    <2>3. s \in Seq(Byte) /\ Len(s) < PowerOf2[WordBits] /\ t \in Seq(Byte) /\ Len(t) < PowerOf2[WordBits]
      BY StringsAssumption
    <2>4. Difference(t, s) \in SUBSET (0 .. WordBits - 1) /\ (Difference(t, s) = {} <=> t = s)
      BY <2>3, NoDifference
    <2>5. Nonzero(Difference(t, s)) = IF t = s THEN 0 ELSE 1
      BY <2>4, NonzeroIsSign
    <2>6. WasmConstTimeEqBytes(t, s) <=> t = s
      BY <2>3, WasmNoDifference
    <2> QED BY <2>2, <2>5, <2>6 DEF ConstTimeEqBytes, ConstantTimeEqByteResult
  <1> QED BY <1>1, JobInvariant, PTL

-----------------------------------------------------------------------------
(* Origins. *)

(* Lower case changes letters only, and into letters. *)
LEMMA Lowered ==
    ASSUME NEW s \in Seq(Char)
    PROVE  /\ ToLower(s) \in Seq(Char) /\ Len(ToLower(s)) = Len(s)
           /\ \A i \in 1 .. Len(s) :
                 /\ ToLower(s)[i] \in Char
                 /\ ToLower(s)[i] = IF s[i] \in 65 .. 90 THEN s[i] + 32 ELSE s[i]
                 /\ \A c \in 0 .. 64 : ToLower(s)[i] = c <=> s[i] = c
  <1>1. ToLower(s) = [i \in 1 .. Len(s) |-> IF s[i] \in 65 .. 90 THEN s[i] + 32 ELSE s[i]]
    BY DEF ToLower
  <1>2. ASSUME NEW i \in 1 .. Len(s)
        PROVE  /\ ToLower(s)[i] \in Char
               /\ ToLower(s)[i] = IF s[i] \in 65 .. 90 THEN s[i] + 32 ELSE s[i]
               /\ \A c \in 0 .. 64 : ToLower(s)[i] = c <=> s[i] = c
    <2>1. s[i] \in 0 .. 275
      BY ElementOfSeq, CharRange
    <2>2. ToLower(s)[i] = IF s[i] \in 65 .. 90 THEN s[i] + 32 ELSE s[i]
      BY <1>1
    <2>3. CASE s[i] \in 65 .. 90
      <3>1. ToLower(s)[i] = s[i] + 32
        BY <2>2, <2>3
      <3>2. ToLower(s)[i] \in 0 .. 275 /\ \A c \in 0 .. 64 : ToLower(s)[i] = c <=> s[i] = c
        <4>1. PICK x \in 65 .. 90 : s[i] = x
          BY <2>3, Zenon
        <4>2. x + 32 \in 0 .. 275 /\ \A c \in 0 .. 64 : x + 32 # c /\ x # c
          OBVIOUS
        <4>3. ToLower(s)[i] = x + 32
          BY <3>1, <4>1, Zenon
        <4>4. ASSUME NEW c \in 0 .. 64 PROVE ToLower(s)[i] = c <=> s[i] = c
          BY <4>1, <4>2, <4>3
        <4> QED BY <4>2, <4>3, <4>4
      <3> QED BY <2>2, <3>2, CharRange
    <2>4. CASE s[i] \notin 65 .. 90
      <3>1. ToLower(s)[i] = s[i]
        BY <2>2, <2>4
      <3>2. ToLower(s)[i] \in 0 .. 275 /\ \A c \in 0 .. 64 : ToLower(s)[i] = c <=> s[i] = c
        BY <2>1, <3>1
      <3> QED BY <2>2, <3>2, CharRange
    <2> QED BY <2>3, <2>4
  <1>3. ToLower(s) \in Seq(Char) /\ Len(ToLower(s)) = Len(s)
    <2>1. Len(s) \in Nat
      OBVIOUS
    <2>2. ToLower(s) \in [1 .. Len(s) -> Char]
      BY <1>1, <1>2
    <2> QED BY <2>1, <2>2, SeqDef
  <1> QED BY <1>2, <1>3

(* UpTo returns the n characters before the first c. *)
LEMMA UpToFirst ==
    ASSUME NEW s \in Seq(Char), NEW c
    PROVE  \E n \in 0 .. Len(s) :
               /\ UpTo(s, c) = SubSeq(s, 1, n)
               /\ \A j \in 1 .. n : s[j] # c
               /\ n = Len(s) \/ s[n + 1] = c
  <1> DEFINE I == {i \in 1 .. Len(s) : s[i] = c}
  <1>0. Len(s) \in Nat
    OBVIOUS
  <1>1. IndexByte(s, c) = IF I # {} THEN Min(I) ELSE 0
    BY DEF IndexByte, SelectInSeq
  <1>2. CASE I = {}
    <2>1. UpTo(s, c) = s
      BY <1>1, <1>2 DEF UpTo
    <2>2. s = SubSeq(s, 1, Len(s))
      BY SubSeqFull
    <2>3. \A j \in 1 .. Len(s) : s[j] # c
      BY <1>2
    <2>4. Len(s) \in 0 .. Len(s)
      BY <1>0
    <2> QED BY <2>1, <2>2, <2>3, <2>4
  <1>3. CASE I # {}
    <2>1. I \in SUBSET Nat
      BY <1>0
    <2>2. Min(I) \in I /\ \A y \in I : Min(I) <= y
      BY <1>3, <2>1, MinOfNaturals
    <2> DEFINE m == Min(I)
    <2>3. m \in 1 .. Len(s) /\ s[m] = c /\ \A y \in I : m <= y
      BY <2>2
    <2>4. UpTo(s, c) = SubSeq(s, 1, m - 1)
      <3>1. IndexByte(s, c) = m
        BY <1>1, <1>3
      <3> HIDE DEF m, I
      <3> QED BY <1>0, <2>3, <3>1 DEF UpTo, Before
    <2> HIDE DEF m
    <2>5. m - 1 \in 0 .. Len(s) /\ (m - 1) + 1 = m
      BY <1>0, <2>3
    <2>6. \A j \in 1 .. m - 1 : s[j] # c
      BY <1>0, <2>3
    <2> QED BY <2>3, <2>4, <2>5, <2>6
  <1> QED BY <1>2, <1>3

(* t is site followed by a beginning of after that ends in no blank. *)
Follows(t, site, after) ==
    /\ t \in Seq(Char)
    /\ Len(site) <= Len(t)
    /\ \A j \in 1 .. Len(site) : t[j] = site[j]
    /\ \A j \in Len(site) + 1 .. Len(t) : j - Len(site) \in 1 .. Len(after) /\ t[j] = after[j - Len(site)]
    /\ ~ IsSpace(t[Len(t)])

(* Trimming takes the blanks before the site away, and of what follows the  *)
(* site nothing but blanks.                                                 *)
LEMMA TrimmedFollows ==
    ASSUME NEW before \in Seq(Blank), NEW site \in Seq(Byte \ Blank), NEW after \in Seq(Byte),
           site # <<>>
    PROVE  Follows(TrimSpace(before \o site \o after), site, after)
  <1> DEFINE L == Len(before)
             M == Len(site)
             h == before \o site
             s == h \o after
             kept == {i \in DOMAIN s : ~ IsSpace(s[i])}
  <1>0. L \in Nat /\ M \in Nat /\ M > 0 /\ Len(after) \in Nat
    OBVIOUS
  <1>1. before \in Seq(Byte) /\ site \in Seq(Byte)
    BY SeqMonotonic DEF Blank, Byte, Space
  <1>2. /\ h \in Seq(Byte) /\ Len(h) = L + M
        /\ \A i \in 1 .. L + M : h[i] = IF i <= L THEN before[i] ELSE site[i - L]
    BY <1>1, ConcatProperties
  <1>3. /\ s \in Seq(Byte) /\ Len(s) = L + M + Len(after)
        /\ \A i \in 1 .. Len(h) + Len(after) : s[i] = IF i <= Len(h) THEN h[i] ELSE after[i - Len(h)]
    BY <1>2, ConcatProperties
  <1> HIDE DEF h, s
  <1>4. \A i \in 1 .. L : s[i] = before[i] /\ IsSpace(s[i])
    <2> SUFFICES ASSUME NEW i \in 1 .. L PROVE s[i] = before[i] /\ IsSpace(s[i])
      OBVIOUS
    <2>1. s[i] = before[i]
      BY <1>0, <1>2, <1>3
    <2>2. before[i] \in Blank
      BY ElementOfSeq
    <2> QED BY <2>1, <2>2 DEF Blank, IsSpace
  <1>5. \A j \in 1 .. M : s[L + j] = site[j] /\ ~ IsSpace(s[L + j])
    <2> SUFFICES ASSUME NEW j \in 1 .. M PROVE s[L + j] = site[j] /\ ~ IsSpace(s[L + j])
      OBVIOUS
    <2>1. L + j \in 1 .. L + M /\ ~ (L + j <= L) /\ (L + j) - L = j
      BY <1>0
    <2>2. s[L + j] = site[j]
      BY <1>0, <1>2, <1>3, <2>1
    <2>3. site[j] \in Byte \ Blank
      BY ElementOfSeq
    <2> QED BY <2>2, <2>3 DEF Blank, IsSpace
  <1>6. \A j \in 1 .. Len(after) : s[L + M + j] = after[j]
    <2> SUFFICES ASSUME NEW j \in 1 .. Len(after) PROVE s[L + M + j] = after[j]
      OBVIOUS
    <2>1. L + M + j \in 1 .. Len(h) + Len(after) /\ ~ (L + M + j <= Len(h)) /\ (L + M + j) - Len(h) = j
      BY <1>0, <1>2
    <2> QED BY <1>3, <2>1
  <1>7. kept \in SUBSET (1 .. Len(s)) /\ IsFiniteSet(kept) /\ kept \in SUBSET Nat /\ kept \in SUBSET Int
    <2>1. kept \in SUBSET (1 .. Len(s)) /\ Len(s) \in Nat
      BY <1>3
    <2>2. IsFiniteSet(1 .. Len(s))
      BY <2>1, FS_Interval
    <2> QED BY <2>1, <2>2, FS_Subset
  <1>8. L + 1 \in kept /\ L + M \in kept
    <2>1. L + 1 \in 1 .. Len(s) /\ L + M \in 1 .. Len(s) /\ 1 \in 1 .. M /\ M \in 1 .. M
      BY <1>0, <1>3
    <2> QED BY <1>3, <1>5, <2>1
  <1>9. Min(kept) \in kept /\ (\A y \in kept : Min(kept) <= y)
        /\ Max(kept) \in kept /\ (\A y \in kept : Max(kept) >= y)
    BY <1>7, <1>8, MinOfNaturals, MaxOfFinite
  <1> DEFINE lo == Min(kept)
             hi == Max(kept)
             t == SubSeq(s, lo, hi)
  <1>10. lo = L + 1
    <2>1. lo \in 1 .. Len(s) /\ lo <= L + 1 /\ lo \notin 1 .. L
      BY <1>4, <1>7, <1>8, <1>9
    <2> HIDE DEF lo
    <2> QED BY <1>0, <2>1
  <1>11. hi \in L + M .. Len(s) /\ ~ IsSpace(s[hi])
    <2>1. hi \in 1 .. Len(s) /\ hi >= L + M /\ ~ IsSpace(s[hi])
      BY <1>7, <1>8, <1>9
    <2> HIDE DEF hi
    <2> QED BY <1>0, <1>3, <2>1
  <1>12. TrimSpace(s) = t
    BY <1>8 DEF TrimSpace
  <1> HIDE DEF kept, lo, hi
  <1>13. /\ t \in Seq(Byte) /\ Len(t) = hi - L
         /\ \A i \in 1 .. hi - L : t[i] = s[L + i]
    <2>1. \A i \in lo .. hi : s[i] \in Byte
      BY <1>0, <1>3, <1>10, <1>11, ElementOfSeq
    <2>2. lo \in Int /\ hi \in Int /\ lo <= hi /\ hi - lo + 1 = hi - L
      BY <1>0, <1>3, <1>10, <1>11
    <2>3. /\ t \in Seq(Byte) /\ Len(t) = IF lo <= hi THEN hi - lo + 1 ELSE 0
          /\ \A i \in 1 .. hi - lo + 1 : t[i] = s[lo + i - 1]
      BY <2>1, <2>2, SubSeqProperties
    <2>4. \A i \in 1 .. hi - L : lo + i - 1 = L + i
      BY <1>0, <1>10
    <2> HIDE DEF t
    <2> QED BY <2>2, <2>3, <2>4
  <1> HIDE DEF t
  <1>14. t \in Seq(Char) /\ M <= Len(t)
    <2>1. Byte \subseteq Char
      BY CharRange DEF Byte
    <2>2. t \in Seq(Char)
      BY <1>13, <2>1, SeqMonotonic
    <2> QED BY <1>0, <1>3, <1>11, <1>13, <2>2
  <1>15. \A j \in 1 .. M : t[j] = site[j]
    BY <1>0, <1>3, <1>5, <1>11, <1>13
  <1>16. ASSUME NEW j \in M + 1 .. Len(t)
         PROVE  j - M \in 1 .. Len(after) /\ t[j] = after[j - M]
    <2>1. j - M \in 1 .. Len(after) /\ L + M + (j - M) = L + j /\ j \in 1 .. hi - L
      BY <1>0, <1>3, <1>11, <1>13
    <2> QED BY <1>6, <1>13, <2>1
  <1>17. ~ IsSpace(t[Len(t)])
    <2>1. Len(t) \in 1 .. hi - L /\ L + Len(t) = hi
      BY <1>0, <1>3, <1>11, <1>13
    <2>2. t[Len(t)] = s[hi]
      BY <1>13, <2>1
    <2> QED BY <1>11, <2>2
  <1> QED BY <1>12, <1>14, <1>15, <1>16, <1>17 DEF Follows, s, h

(* u is the site in lower case, followed by nothing or by what after has    *)
(* from its slash on.                                                       *)
Tailed(u, site, after) ==
    /\ u \in Seq(Char)
    /\ Len(site) <= Len(u)
    /\ \A j \in 1 .. Len(site) : u[j] = ToLower(site)[j]
    /\ Len(u) > Len(site) =>
          /\ u[Len(site) + 1] = Slash
          /\ after # <<>> /\ Head(after) = Slash
          /\ Ends(Tail(after)) => Len(u) = Len(site) + 1

(* The fragment and the query go, and nothing of the site. *)
LEMMA OriginTailed ==
    ASSUME NEW site \in Seq(Byte \ (Blank \cup {Hash, Query})), NEW after \in Seq(Byte), site # <<>>,
           Ends(after) \/ Head(after) = Slash,
           NEW t, Follows(t, site, after)
    PROVE  Tailed(WithoutQuery(ToLower(t)), site, after)
  <1> DEFINE M == Len(site)
             l == ToLower(t)
             u == WithoutQuery(l)
  <1>0. M \in Nat /\ M > 0 /\ Len(after) \in Nat /\ Len(t) \in Nat
    BY DEF Follows
  <1>1. t \in Seq(Char) /\ site \in Seq(Char)
    <2>1. Byte \ (Blank \cup {Hash, Query}) \subseteq Char
      BY CharRange DEF Byte
    <2> QED BY <2>1, SeqMonotonic DEF Follows
  <1>2. /\ l \in Seq(Char) /\ Len(l) = Len(t)
        /\ \A i \in 1 .. Len(t) : /\ l[i] = IF t[i] \in 65 .. 90 THEN t[i] + 32 ELSE t[i]
                                  /\ \A c \in 0 .. 64 : l[i] = c <=> t[i] = c
    BY <1>1, Lowered
  <1>3. \A i \in 1 .. M : ToLower(site)[i] = IF site[i] \in 65 .. 90 THEN site[i] + 32 ELSE site[i]
    BY <1>1, Lowered
  <1> HIDE DEF l
  <1>4. PICK n \in 0 .. Len(l) : /\ UpTo(l, Hash) = SubSeq(l, 1, n)
                                 /\ \A j \in 1 .. n : l[j] # Hash
                                 /\ n = Len(l) \/ l[n + 1] = Hash
    BY <1>2, UpToFirst
  <1> DEFINE v == SubSeq(l, 1, n)
  <1>5. v \in Seq(Char) /\ Len(v) = n /\ \A j \in 1 .. n : v[j] = l[j]
    BY <1>2, <1>4, Beginning
  <1> HIDE DEF v
  <1>6. PICK m \in 0 .. Len(v) : /\ UpTo(v, Query) = SubSeq(v, 1, m)
                                 /\ \A j \in 1 .. m : v[j] # Query
                                 /\ m = Len(v) \/ v[m + 1] = Query
    BY <1>5, UpToFirst
  <1>7. u = SubSeq(v, 1, m)
    BY <1>4, <1>6 DEF WithoutQuery, v
  <1>8. u \in Seq(Char) /\ Len(u) = m /\ \A j \in 1 .. m : u[j] = v[j]
    BY <1>5, <1>6, <1>7, Beginning
  <1> HIDE DEF u
  <1>9. ASSUME NEW i \in 1 .. M PROVE i \in 1 .. Len(t) /\ l[i] # Hash /\ l[i] # Query /\ t[i] = site[i]
    <2>1. site[i] \in Byte \ (Blank \cup {Hash, Query})
      BY ElementOfSeq
    <2>2. i \in 1 .. Len(t) /\ t[i] = site[i]
      BY <1>0 DEF Follows
    <2>3. Hash \in 0 .. 64 /\ Query \in 0 .. 64
      BY DEF Hash, Query
    <2> QED BY <1>2, <2>1, <2>2, <2>3
  <1>10. M <= n
    <2>1. CASE n = Len(l)
      BY <1>2, <2>1 DEF Follows
    <2>2. CASE l[n + 1] = Hash
      <3>1. n + 1 \notin 1 .. M
        BY <1>9, <2>2
      <3> QED BY <1>0, <1>4, <3>1
    <2> QED BY <1>4, <2>1, <2>2
  <1>11. M <= m
    <2>1. CASE m = Len(v)
      BY <1>5, <1>10, <2>1
    <2>2. CASE v[m + 1] = Query
      <3>1. ASSUME m + 1 \in 1 .. M PROVE FALSE
        <4>1. m + 1 \in 1 .. n
          BY <1>0, <1>4, <1>10, <3>1
        <4> QED BY <1>5, <1>9, <2>2, <3>1, <4>1
      <3> QED BY <1>0, <1>6, <3>1
    <2> QED BY <1>6, <2>1, <2>2
  <1>12. ASSUME NEW j \in 1 .. m PROVE j \in 1 .. Len(t) /\ u[j] = l[j] /\ l[j] # Hash /\ l[j] # Query
    <2>1. j \in 1 .. n /\ j \in 1 .. Len(t)
      BY <1>2, <1>4, <1>5, <1>6
    <2> QED BY <1>4, <1>5, <1>6, <1>8, <2>1
  <1>13. ASSUME NEW j \in 1 .. M PROVE u[j] = ToLower(site)[j]
    <2>1. j \in 1 .. m
      BY <1>0, <1>6, <1>11
    <2>2. u[j] = l[j] /\ j \in 1 .. Len(t) /\ t[j] = site[j]
      BY <1>9, <1>12, <2>1
    <2>3. l[j] = IF t[j] \in 65 .. 90 THEN t[j] + 32 ELSE t[j]
      BY <1>2, <2>2
    <2>4. ToLower(site)[j] = IF site[j] \in 65 .. 90 THEN site[j] + 32 ELSE site[j]
      BY <1>3
    <2> QED BY <2>2, <2>3, <2>4
  <1>14. ASSUME m > M
         PROVE  /\ u[M + 1] = Slash
                /\ after # <<>> /\ Head(after) = Slash
                /\ Ends(Tail(after)) => m = M + 1
    <2>1. M + 1 \in 1 .. m /\ M + 1 \in M + 1 .. Len(t) /\ M + 1 \in 1 .. Len(t)
      <3>1. m \in Nat
        BY <1>6
      <3>2. M + 1 \in 1 .. m
        BY <1>0, <1>14, <3>1
      <3>3. M + 1 \in 1 .. Len(t)
        BY <1>12, <3>2
      <3> QED BY <1>0, <3>2, <3>3
    <2>2. (M + 1) - M \in 1 .. Len(after) /\ t[M + 1] = after[(M + 1) - M] /\ (M + 1) - M = 1
      BY <1>0, <2>1 DEF Follows
    <2>3. after # <<>> /\ t[M + 1] = Head(after) /\ Len(after) > 0
      BY <2>2
    <2>4. l[M + 1] # Hash /\ l[M + 1] # Query /\ u[M + 1] = l[M + 1]
      BY <1>12, <2>1
    <2>5. Hash \in 0 .. 64 /\ Query \in 0 .. 64 /\ Slash \in 0 .. 64
      BY DEF Hash, Query, Slash
    <2>6. Head(after) # Hash /\ Head(after) # Query
      <3>1. \A c \in 0 .. 64 : l[M + 1] = c <=> t[M + 1] = c
        BY <1>2, <2>1
      <3> QED BY <2>3, <2>4, <2>5, <3>1
    <2>7. Head(after) = Slash
      <3>1. ASSUME after \in Seq(Blank) PROVE FALSE
        <4>1. \A j \in 1 .. Len(after) : after[j] \in Blank
          BY <3>1, ElementOfSeq
        <4>2. Len(t) \in M + 1 .. Len(t)
          BY <1>0, <2>1
        <4>3. Len(t) - M \in 1 .. Len(after) /\ t[Len(t)] = after[Len(t) - M]
          BY <4>2 DEF Follows
        <4>4. t[Len(t)] \in Blank
          BY <4>1, <4>3
        <4>5. IsSpace(t[Len(t)])
          BY <4>4 DEF IsSpace, Blank
        <4> QED BY <4>5 DEF Follows
      <3> QED BY <2>6, <3>1 DEF Ends
    <2>8. u[M + 1] = Slash
      <3>1. \A c \in 0 .. 64 : l[M + 1] = c <=> t[M + 1] = c
        BY <1>2, <2>1
      <3> QED BY <2>3, <2>4, <2>5, <2>7, <3>1
    <2>9. ASSUME Ends(Tail(after)), m # M + 1 PROVE FALSE
      <3>1. M + 2 \in 1 .. m
        BY <1>0, <1>6, <1>14, <2>9
      <3>2. M + 2 \in M + 1 .. Len(t) /\ l[M + 2] # Hash /\ l[M + 2] # Query
        <4>1. M + 2 \in 1 .. Len(t) /\ l[M + 2] # Hash /\ l[M + 2] # Query
          BY <1>12, <3>1
        <4> QED BY <1>0, <4>1
      <3>3. (M + 2) - M \in 1 .. Len(after) /\ t[M + 2] = after[(M + 2) - M] /\ (M + 2) - M = 2
        BY <1>0, <3>2 DEF Follows
      <3>4. /\ Tail(after) \in Seq(Byte) /\ Len(Tail(after)) = Len(after) - 1
            /\ \A i \in 1 .. Len(Tail(after)) : Tail(after)[i] = after[i + 1]
        BY <2>3, HeadTailProperties
      <3>5. Head(Tail(after)) = after[2]
        <4>1. Len(Tail(after)) \in Nat /\ Len(Tail(after)) > 0 /\ 1 \in 1 .. Len(Tail(after))
          BY <1>0, <3>3, <3>4
        <4>2. Head(Tail(after)) = Tail(after)[1]
          BY <3>4, <4>1
        <4> QED BY <3>4, <4>1, <4>2
      <3>6. Head(Tail(after)) # Hash /\ Head(Tail(after)) # Query
        <4>1. M + 2 \in 1 .. Len(t)
          BY <1>0, <3>2
        <4>2. \A c \in 0 .. 64 : l[M + 2] = c <=> t[M + 2] = c
          BY <1>2, <4>1
        <4> QED BY <2>5, <3>2, <3>3, <3>5, <4>2
      <3>7. Tail(after) \in Seq(Blank)
        BY <2>9, <3>6 DEF Ends
      <3>8. Len(t) \in M + 1 .. Len(t)
        BY <1>0, <2>1
      <3>9. Len(t) - M \in 1 .. Len(after) /\ t[Len(t)] = after[Len(t) - M]
        BY <3>8 DEF Follows
      <3>10. (Len(t) - M) - 1 \in 1 .. Len(Tail(after))
        BY <1>0, <3>2, <3>4, <3>9
      <3>11. Tail(after)[(Len(t) - M) - 1] = after[Len(t) - M]
        BY <1>0, <3>4, <3>10
      <3>12. Tail(after)[(Len(t) - M) - 1] \in Blank
        BY <3>7, <3>10, ElementOfSeq
      <3>13. IsSpace(t[Len(t)])
        BY <3>9, <3>11, <3>12 DEF IsSpace, Blank
      <3> QED BY <3>13 DEF Follows
    <2> QED BY <2>3, <2>7, <2>8, <2>9
  <1> QED BY <1>8, <1>11, <1>13, <1>14 DEF Tailed, u, l

(* A site and its beginning in lower case. *)
LEMMA SiteAlone ==
    ASSUME NEW site \in Seq(Char), NEW after, NEW u, Tailed(u, site, after)
    PROVE  SubSeq(u, 1, Len(site)) = ToLower(site)
  <1>1. Len(site) \in 0 .. Len(u) /\ u \in Seq(Char) /\ Len(site) \in Nat
    BY DEF Tailed
  <1>2. /\ SubSeq(u, 1, Len(site)) \in Seq(Char) /\ Len(SubSeq(u, 1, Len(site))) = Len(site)
        /\ \A j \in 1 .. Len(site) : SubSeq(u, 1, Len(site))[j] = u[j]
    BY <1>1, Beginning
  <1>3. ToLower(site) \in Seq(Char) /\ Len(ToLower(site)) = Len(site)
    BY Lowered
  <1>4. \A j \in 1 .. Len(site) : SubSeq(u, 1, Len(site))[j] = ToLower(site)[j]
    BY <1>2 DEF Tailed
  <1> QED BY <1>2, <1>3, <1>4, SeqEqual

(* What NormalizeOrigin makes of a text without blanks, query and fragment. *)
Site(o) ==
    LET sep    == {i \in 1 .. Len(o) - 2 : SubSeq(o, i, i + 2) = <<Colon, Slash, Slash>>}
        scheme == SubSeq(o, 1, Min(sep) + 2)
        whole  == IF sep = {} THEN o ELSE scheme \o UpTo(From(o, Min(sep) + 3), Slash)
    IN  IF whole # <<>> /\ Last(whole) = Slash THEN Front(whole) ELSE whole

(* A slash of the lowered site is one of the site. *)
LEMMA SlashOfSite ==
    ASSUME NEW site \in Seq(Char), NEW after, NEW u, Tailed(u, site, after), NEW i \in 1 .. Len(site)
    PROVE  u[i] = Slash <=> site[i] = Slash
  <1>1. Slash \in 0 .. 64
    BY DEF Slash
  <1>2. ToLower(site)[i] = Slash <=> site[i] = Slash
    BY <1>1, Lowered
  <1> QED BY <1>2 DEF Tailed

(* Without a scheme: at most the slash goes. *)
LEMMA SiteWithoutScheme ==
    ASSUME NEW site \in Seq(Char), site # <<>>, \A i \in DOMAIN site : site[i] # Slash,
           NEW after, NEW u, Tailed(u, site, after), Len(u) <= Len(site) + 1
    PROVE  Site(u) = ToLower(site)
  <1> DEFINE M == Len(site)
             sep == {i \in 1 .. Len(u) - 2 : SubSeq(u, i, i + 2) = <<Colon, Slash, Slash>>}
  <1>0. M \in Nat /\ M > 0 /\ u \in Seq(Char) /\ Len(u) \in Nat /\ M <= Len(u)
    BY DEF Tailed
  <1>1. ASSUME NEW i \in 1 .. M PROVE u[i] # Slash
    <2>1. site[i] # Slash
      OBVIOUS
    <2> QED BY <2>1, SlashOfSite
  <1>2. sep = {}
    <2> SUFFICES ASSUME NEW i \in 1 .. Len(u) - 2, SubSeq(u, i, i + 2) = <<Colon, Slash, Slash>>
                 PROVE  FALSE
      OBVIOUS
    <2>1. <<u[i], u[i + 1], u[i + 2]>> = <<Colon, Slash, Slash>>
      BY <1>0, Triple
    <2>2. u[i + 1] = Slash
      BY <2>1
    <2>3. i + 1 \in 1 .. M
      BY <1>0
    <2> QED BY <1>1, <2>2, <2>3
  <1>3. Site(u) = IF u # <<>> /\ Last(u) = Slash THEN Front(u) ELSE u
    BY <1>2 DEF Site
  <1>4. SubSeq(u, 1, M) = ToLower(site)
    BY SiteAlone
  <1>5. CASE Len(u) = M
    <2>1. Last(u) # Slash
      BY <1>0, <1>1, <1>5 DEF Last
    <2>2. u = SubSeq(u, 1, M)
      BY <1>0, <1>5, SubSeqFull
    <2> QED BY <1>3, <1>4, <2>1, <2>2
  <1>6. CASE Len(u) = M + 1
    <2>1. u[M + 1] = Slash /\ u # <<>>
      BY <1>0, <1>6 DEF Tailed
    <2>2. Last(u) = Slash
      BY <1>6, <2>1 DEF Last
    <2>3. Front(u) = SubSeq(u, 1, M)
      BY <1>0, <1>6 DEF Front
    <2> QED BY <1>3, <1>4, <2>1, <2>2, <2>3
  <1> QED BY <1>0, <1>5, <1>6

(* With a scheme: the path goes, whatever it holds. *)
LEMMA SiteWithScheme ==
    ASSUME NEW site \in Seq(Char), HasScheme(site), NEW after, NEW u, Tailed(u, site, after)
    PROVE  Site(u) = ToLower(site)
  <1> DEFINE M == Len(site)
             sep == {i \in 1 .. Len(u) - 2 : SubSeq(u, i, i + 2) = <<Colon, Slash, Slash>>}
  <1>0. M \in Nat /\ u \in Seq(Char) /\ Len(u) \in Nat /\ M <= Len(u)
    BY DEF Tailed
  <1>1. PICK p \in 1 .. M - 3 : /\ SubSeq(site, p, p + 2) = <<Colon, Slash, Slash>>
                                /\ \A i \in DOMAIN site : site[i] = Slash => i \in {p + 1, p + 2}
    BY DEF HasScheme
  <1>2. p \in Nat /\ p > 0 /\ p + 3 <= M
    BY <1>0
  <1>3. ASSUME NEW i \in 1 .. M, u[i] = Slash PROVE i \in {p + 1, p + 2}
    <2>1. site[i] = Slash
      BY <1>3, SlashOfSite
    <2>2. i \in DOMAIN site
      OBVIOUS
    <2> QED BY <1>1, <2>1, <2>2
  <1>4. p \in sep
    <2>1. <<site[p], site[p + 1], site[p + 2]>> = <<Colon, Slash, Slash>>
      <3>1. p \in 1 .. Len(site) - 2
        BY <1>0, <1>2
      <3> QED BY <1>1, <3>1, Triple
    <2>2. site[p] = Colon /\ site[p + 1] = Slash /\ site[p + 2] = Slash
      BY <2>1
    <2>3. p \in 1 .. M /\ p + 1 \in 1 .. M /\ p + 2 \in 1 .. M
      BY <1>0, <1>2
    <2>4. Colon \in 0 .. 64 /\ Slash \in 0 .. 64
      BY DEF Colon, Slash
    <2>5. ToLower(site)[p] = Colon /\ ToLower(site)[p + 1] = Slash /\ ToLower(site)[p + 2] = Slash
      <3>1. \A i \in 1 .. M : \A c \in 0 .. 64 : ToLower(site)[i] = c <=> site[i] = c
        BY Lowered
      <3>2. /\ ToLower(site)[p] = Colon <=> site[p] = Colon
            /\ ToLower(site)[p + 1] = Slash <=> site[p + 1] = Slash
            /\ ToLower(site)[p + 2] = Slash <=> site[p + 2] = Slash
        <4> HIDE DEF M
        <4> QED BY <2>3, <2>4, <3>1
      <3> QED BY <2>2, <3>2
    <2>6. u[p] = Colon /\ u[p + 1] = Slash /\ u[p + 2] = Slash
      BY <2>3, <2>5 DEF Tailed
    <2>7. p \in 1 .. Len(u) - 2
      BY <1>0, <1>2
    <2>8. SubSeq(u, p, p + 2) = <<u[p], u[p + 1], u[p + 2]>>
      BY <1>0, <2>7, Triple
    <2> QED BY <2>6, <2>7, <2>8
  <1>5. ASSUME NEW i \in sep PROVE i >= p
    <2>1. SubSeq(u, i, i + 2) = <<u[i], u[i + 1], u[i + 2]>>
      BY <1>0, Triple
    <2>2. <<u[i], u[i + 1], u[i + 2]>> = <<Colon, Slash, Slash>>
      BY <2>1
    <2>3. u[i + 1] = Slash /\ i \in Nat /\ i > 0
      BY <1>0, <2>2
    <2>4. ASSUME i < p PROVE FALSE
      <3>1. i + 1 \in 1 .. M
        BY <1>0, <1>2, <2>3, <2>4
      <3>2. i + 1 \in {p + 1, p + 2}
        BY <1>3, <2>3, <3>1
      <3> QED BY <1>2, <2>3, <2>4, <3>2
    <2> QED BY <1>2, <2>3, <2>4
  <1>6. Min(sep) = p
    <2>1. sep \in SUBSET Nat /\ sep # {}
      <3>1. sep # {}
        BY <1>4
      <3>2. \A i \in sep : i \in 1 .. Len(u) - 2
        OBVIOUS
      <3> HIDE DEF sep
      <3> QED BY <1>0, <3>1, <3>2
    <2>2. Min(sep) \in sep /\ \A y \in sep : Min(sep) <= y
      BY <2>1, MinOfNaturals
    <2>3. Min(sep) <= p /\ Min(sep) >= p /\ Min(sep) \in Nat
      BY <1>4, <1>5, <2>1, <2>2
    <2> HIDE DEF sep
    <2> QED BY <1>2, <2>3
  <1> DEFINE rest == From(u, p + 3)
  <1>7. Site(u) = LET whole == SubSeq(u, 1, p + 2) \o UpTo(rest, Slash)
                  IN  IF whole # <<>> /\ Last(whole) = Slash THEN Front(whole) ELSE whole
    BY <1>4, <1>6 DEF Site
  <1>8. /\ rest \in Seq(Char) /\ Len(rest) = Len(u) - (p + 2)
        /\ \A j \in 1 .. Len(u) - (p + 2) : rest[j] = u[(p + 2) + j]
    <2>1. p + 3 \in Int /\ Len(u) \in Int /\ p + 3 <= Len(u) /\ (\A k \in p + 3 .. Len(u) : k \in 1 .. Len(u))
      BY <1>0, <1>2
    <2>2. \A k \in p + 3 .. Len(u) : u[k] \in Char
      BY <1>0, <2>1, ElementOfSeq
    <2>3. /\ rest \in Seq(Char) /\ Len(rest) = IF p + 3 <= Len(u) THEN Len(u) - (p + 3) + 1 ELSE 0
          /\ \A j \in 1 .. Len(u) - (p + 3) + 1 : rest[j] = u[(p + 3) + j - 1]
      BY <2>1, <2>2, SubSeqProperties DEF From
    <2> HIDE DEF rest
    <2>4. Len(u) - (p + 3) + 1 = Len(u) - (p + 2)
          /\ \A j \in 1 .. Len(u) - (p + 2) : (p + 3) + j - 1 = (p + 2) + j
      BY <1>0, <1>2
    <2> QED BY <2>1, <2>3, <2>4
  <1> HIDE DEF rest
  <1>9. PICK n \in 0 .. Len(rest) : /\ UpTo(rest, Slash) = SubSeq(rest, 1, n)
                                    /\ \A j \in 1 .. n : rest[j] # Slash
                                    /\ n = Len(rest) \/ rest[n + 1] = Slash
    BY <1>8, UpToFirst
  <1>10. n = M - (p + 2)
    <2>0. n \in Nat
      BY <1>9
    <2>1. ASSUME n > M - (p + 2) PROVE FALSE
      <3>1. M - (p + 1) \in 1 .. n /\ M - (p + 1) \in 1 .. Len(u) - (p + 2) /\ (p + 2) + (M - (p + 1)) = M + 1
            /\ Len(u) > M
        BY <1>0, <1>2, <1>8, <1>9, <2>0, <2>1
      <3>2. rest[M - (p + 1)] = u[M + 1]
        BY <1>8, <3>1
      <3>3. u[M + 1] = Slash
        BY <3>1 DEF Tailed
      <3> QED BY <1>9, <3>1, <3>2, <3>3
    <2>2. ASSUME n < M - (p + 2) PROVE FALSE
      <3>1. n # Len(rest)
        BY <1>0, <1>2, <1>8, <2>0, <2>2
      <3>2. rest[n + 1] = Slash
        BY <1>9, <3>1
      <3>3. n + 1 \in 1 .. Len(u) - (p + 2) /\ (p + 2) + (n + 1) \in 1 .. M
            /\ (p + 2) + (n + 1) \notin {p + 1, p + 2}
        BY <1>0, <1>2, <2>0, <2>2
      <3>4. u[(p + 2) + (n + 1)] = Slash
        BY <1>8, <3>2, <3>3
      <3> QED BY <1>3, <3>3, <3>4
    <2> QED BY <1>0, <1>2, <2>0, <2>1, <2>2
  <1> DEFINE a == SubSeq(u, 1, p + 2)
             b == SubSeq(rest, 1, n)
             w == a \o b
  <1>11. a \in Seq(Char) /\ Len(a) = p + 2 /\ \A j \in 1 .. p + 2 : a[j] = u[j]
    <2>1. p + 2 \in 0 .. Len(u)
      BY <1>0, <1>2
    <2> QED BY <1>0, <2>1, Beginning
  <1>12. b \in Seq(Char) /\ Len(b) = n /\ \A j \in 1 .. n : b[j] = rest[j]
    BY <1>8, <1>9, Beginning
  <1> HIDE DEF a, b
  <1>13. /\ w \in Seq(Char) /\ Len(w) = (p + 2) + n
         /\ \A i \in 1 .. (p + 2) + n : w[i] = IF i <= p + 2 THEN a[i] ELSE b[i - (p + 2)]
    <2>1. /\ w \in Seq(Char) /\ Len(w) = Len(a) + Len(b)
          /\ \A i \in 1 .. Len(a) + Len(b) : w[i] = IF i <= Len(a) THEN a[i] ELSE b[i - Len(a)]
      BY <1>11, <1>12, ConcatProperties
    <2> HIDE DEF w
    <2> QED BY <1>11, <1>12, <2>1
  <1> HIDE DEF w
  <1>14. Len(w) = M
    BY <1>0, <1>2, <1>10, <1>13
  <1>15. ASSUME NEW i \in 1 .. M PROVE w[i] = u[i]
    <2>1. CASE i <= p + 2
      BY <1>11, <1>13, <1>14, <2>1
    <2>2. CASE ~ (i <= p + 2)
      <3>1. i - (p + 2) \in 1 .. n /\ (p + 2) + (i - (p + 2)) = i /\ i - (p + 2) \in 1 .. Len(u) - (p + 2)
        BY <1>0, <1>2, <1>10, <2>2
      <3>2. w[i] = b[i - (p + 2)]
        BY <1>13, <1>14, <2>2
      <3> QED BY <1>8, <1>12, <3>1, <3>2
    <2> QED BY <2>1, <2>2
  <1>16. w = ToLower(site)
    <2>1. ToLower(site) \in Seq(Char) /\ Len(ToLower(site)) = M
      BY Lowered
    <2>2. \A i \in 1 .. M : w[i] = ToLower(site)[i]
      BY <1>15 DEF Tailed
    <2> QED BY <1>13, <1>14, <2>1, <2>2, SeqEqual
  <1>17. Last(w) # Slash
    <2>1. M \in 1 .. M /\ M \notin {p + 1, p + 2}
      BY <1>0, <1>2
    <2>2. u[M] # Slash
      BY <1>3, <2>1
    <2> QED BY <1>14, <1>15, <2>1, <2>2 DEF Last
  <1> QED BY <1>7, <1>9, <1>16, <1>17 DEF w, a, b

(* normalizeOrigin returns scheme and host in lower case, whatever blanks   *)
(* surround the origin and whatever path, query and fragment follow it.     *)
THEOREM OriginsNormalize == Spec => []OriginIsSchemeAndHost
  <1>1. JobInv => OriginIsSchemeAndHost
    <2> SUFFICES ASSUME JobInv, Doing("origin")
                 PROVE  NormalizeOrigin(job.in.before \o job.in.site \o job.in.after) = ToLower(job.in.site)
      BY DEF OriginIsSchemeAndHost
    <2>1. PICK o \in Origins : job = [kind |-> "origin", in |-> o]
      BY DEF JobInv, Doing
    <2> DEFINE before == o.before
               site == o.site
               after == o.after
               t == TrimSpace(before \o site \o after)
               u == WithoutQuery(ToLower(t))
    <2>2. /\ before \in Seq(Blank) /\ site \in Seq(Byte \ (Blank \cup {Hash, Query})) /\ after \in Seq(Byte)
          /\ site # <<>>
          /\ HasScheme(site) \/ \A i \in DOMAIN site : site[i] # Slash
          /\ \/ Ends(after)
             \/ Head(after) = Slash /\ (HasScheme(site) \/ Ends(Tail(after)))
      BY OriginsAssumption
    <2> HIDE DEF before, site, after
    <2>3. site \in Seq(Byte \ Blank) /\ site \in Seq(Char)
      <3>1. Byte \ (Blank \cup {Hash, Query}) \subseteq Char
        BY CharRange DEF Byte
      <3> QED BY <2>2, <3>1, SeqMonotonic
    <2>4. Follows(t, site, after)
      BY <2>2, <2>3, TrimmedFollows
    <2> HIDE DEF t
    <2>5. Tailed(u, site, after)
      BY <2>2, <2>4, OriginTailed
    <2> HIDE DEF u
    <2>6. Site(u) = ToLower(site)
      <3>1. CASE HasScheme(site)
        BY <2>3, <2>5, <3>1, SiteWithScheme
      <3>2. CASE ~ HasScheme(site)
        <4>1. Len(u) <= Len(site) + 1
          <5>1. Len(u) \in Nat /\ Len(site) \in Nat /\ Len(site) <= Len(u)
            BY <2>3, <2>5 DEF Tailed
          <5>2. CASE Len(u) > Len(site)
            <6>1. after # <<>> /\ Head(after) = Slash /\ (Ends(Tail(after)) => Len(u) = Len(site) + 1)
              BY <2>5, <5>2 DEF Tailed
            <6>2. ~ Ends(after)
              <7>1. Slash \notin {Query, Hash} /\ Slash \notin Blank
                BY DEF Slash, Query, Hash, Blank, Space
              <7>2. ASSUME after \in Seq(Blank) PROVE FALSE
                <8>1. Head(after) \in Blank
                  BY <6>1, <7>2, HeadTailProperties
                <8> QED BY <6>1, <7>1, <8>1
              <7> QED BY <6>1, <7>1, <7>2 DEF Ends
            <6> QED BY <2>2, <3>2, <5>1, <6>1, <6>2
          <5> QED BY <5>1, <5>2
        <4> QED BY <2>2, <2>3, <2>5, <3>2, <4>1, SiteWithoutScheme
      <3> QED BY <3>1, <3>2
    <2>7. NormalizeOrigin(before \o site \o after) = Site(u)
      BY DEF NormalizeOrigin, Site, u, t
    <2> QED BY <2>1, <2>6, <2>7 DEF before, site, after
  <1> QED BY <1>1, JobInvariant, PTL

-----------------------------------------------------------------------------
(* The order of sort.Strings. *)

(* Of two strings that differ, one is less. *)
LEMMA LessTotal ==
    ASSUME NEW s \in Seq(Char), NEW t \in Seq(Char), s # t
    PROVE  Less(s, t) \/ Less(t, s)
  <1> DEFINE Apart(i) == i = Len(s) + 1 \/ i = Len(t) + 1 \/ s[i] # t[i]
             D == {i \in Nat : i > 0 /\ i <= Len(s) + 1 /\ i <= Len(t) + 1 /\ Apart(i)}
  <1>0. Len(s) \in Nat /\ Len(t) \in Nat
    OBVIOUS
  <1>1. D # {}
    <2>1. CASE Len(s) <= Len(t)
      <3>1. Len(s) + 1 \in D
        BY <1>0, <2>1
      <3> QED BY <3>1
    <2>2. CASE Len(t) <= Len(s)
      <3>1. Len(t) + 1 \in D
        BY <1>0, <2>2
      <3> QED BY <3>1
    <2> QED BY <1>0, <2>1, <2>2
  <1>2. D \in SUBSET Nat
    OBVIOUS
  <1>3. PICK i \in D : \A m \in D : i <= m
    <2> HIDE DEF D
    <2> QED BY <1>1, <1>2, LeastNatural
  <1>4. i \in Nat /\ i > 0 /\ i <= Len(s) + 1 /\ i <= Len(t) + 1 /\ Apart(i)
    BY <1>3
  <1>5. \A j \in 1 .. i - 1 : s[j] = t[j]
    <2> SUFFICES ASSUME NEW j \in 1 .. i - 1, s[j] # t[j] PROVE FALSE
      OBVIOUS
    <2>1. j \in Nat /\ j > 0 /\ j <= Len(s) + 1 /\ j <= Len(t) + 1 /\ j < i
      BY <1>0, <1>4
    <2>2. j \in D
      BY <2>1
    <2> HIDE DEF D
    <2> QED BY <1>3, <2>1, <2>2
  <1> HIDE DEF D
  <1>6. CASE i = Len(s) + 1 /\ i = Len(t) + 1
    <2>1. Len(s) = Len(t) /\ i - 1 = Len(s)
      BY <1>0, <1>6
    <2> QED BY <1>5, <2>1, SeqEqual
  <1>7. CASE i = Len(s) + 1 /\ i # Len(t) + 1
    <2>1. i \in 1 .. Len(t)
      BY <1>0, <1>4, <1>7
    <2> QED BY <1>5, <1>7, <2>1 DEF Less
  <1>8. CASE i # Len(s) + 1 /\ i = Len(t) + 1
    <2>1. i \in 1 .. Len(s)
      BY <1>0, <1>4, <1>8
    <2> QED BY <1>5, <1>8, <2>1 DEF Less
  <1>9. CASE i # Len(s) + 1 /\ i # Len(t) + 1
    <2>1. i \in 1 .. Len(s) /\ i \in 1 .. Len(t) /\ i <= Len(s) /\ i <= Len(t)
      BY <1>0, <1>4, <1>9
    <2>2. s[i] \in 0 .. 275 /\ t[i] \in 0 .. 275 /\ s[i] # t[i]
      BY <1>4, <1>9, <2>1, ElementOfSeq, CharRange
    <2>3. s[i] < t[i] \/ t[i] < s[i]
      <3>1. \A x, y \in 0 .. 275 : x # y => x < y \/ y < x
        OBVIOUS
      <3> QED BY <2>2, <3>1
    <2> QED BY <1>5, <2>1, <2>3 DEF Less
  <1> QED BY <1>6, <1>7, <1>8, <1>9

(* The order is transitive. *)
LEMMA LessTransitive ==
    ASSUME NEW s \in Seq(Char), NEW t \in Seq(Char), NEW u \in Seq(Char), Less(s, t), Less(t, u)
    PROVE  Less(s, u)
  <1>0. Len(s) \in Nat /\ Len(t) \in Nat /\ Len(u) \in Nat
    OBVIOUS
  <1>1. PICK i \in 1 .. Len(t) : /\ i = Len(s) + 1 \/ (i <= Len(s) /\ s[i] < t[i])
                                 /\ \A j \in 1 .. i - 1 : s[j] = t[j]
    BY DEF Less
  <1>2. PICK k \in 1 .. Len(u) : /\ k = Len(t) + 1 \/ (k <= Len(t) /\ t[k] < u[k])
                                 /\ \A j \in 1 .. k - 1 : t[j] = u[j]
    BY DEF Less
  <1>3. CASE i < k
    <2>1. i \in 1 .. Len(u) /\ i \in 1 .. k - 1 /\ \A j \in 1 .. i - 1 : j \in 1 .. k - 1
      BY <1>0, <1>3
    <2>2. t[i] = u[i] /\ \A j \in 1 .. i - 1 : s[j] = u[j]
      BY <1>1, <1>2, <2>1
    <2>3. i = Len(s) + 1 \/ (i <= Len(s) /\ s[i] < u[i])
      BY <1>1, <2>2
    <2> QED BY <2>1, <2>2, <2>3 DEF Less
  <1>4. CASE k <= i
    <2>1. k <= Len(t) /\ t[k] < u[k]
      BY <1>0, <1>2, <1>4
    <2>2. \A j \in 1 .. k - 1 : s[j] = u[j]
      BY <1>0, <1>1, <1>2, <1>4
    <2>3. k = Len(s) + 1 \/ (k <= Len(s) /\ s[k] < u[k])
      <3>1. CASE k = i /\ i = Len(s) + 1
        BY <3>1
      <3>2. CASE k <= Len(s)
        <4>1. s[k] = t[k] \/ s[k] < t[k]
          <5>1. CASE k = i
            BY <1>0, <1>1, <3>2, <5>1
          <5>2. CASE k < i
            <6>1. k \in 1 .. i - 1
              BY <5>2
            <6> QED BY <1>1, <6>1
          <5> QED BY <1>4, <5>1, <5>2
        <4>2. s[k] \in 0 .. 275 /\ t[k] \in 0 .. 275 /\ u[k] \in 0 .. 275
          <5>1. k \in 1 .. Len(s) /\ k \in 1 .. Len(t) /\ k \in 1 .. Len(u)
            BY <1>0, <2>1, <3>2
          <5> QED BY <5>1, ElementOfSeq, CharRange, SMTT(40)
        <4>3. \A x, y, z \in 0 .. 275 : (x = y \/ x < y) /\ y < z => x < z
          OBVIOUS
        <4> QED BY <2>1, <3>2, <4>1, <4>2, <4>3
      <3> QED BY <1>0, <1>1, <1>4, <3>1, <3>2
    <2> QED BY <2>2, <2>3 DEF Less
  <1> QED BY <1>0, <1>3, <1>4

(* A finite set of strings has a greatest one. *)
LEMMA GreatestString ==
    ASSUME NEW S \in SUBSET Seq(Char), IsFiniteSet(S), S # {}
    PROVE  \E x \in S : \A y \in S \ {x} : Less(y, x)
  <1> DEFINE Has(T) == \E x \in T : \A y \in T \ {x} : Less(y, x)
             Sizes == {n \in Nat : \A T \in SUBSET Seq(Char) :
                          IsFiniteSet(T) /\ Cardinality(T) = n + 1 => Has(T)}
  <1>1. 0 \in Sizes
    <2> SUFFICES ASSUME NEW T \in SUBSET Seq(Char), IsFiniteSet(T), Cardinality(T) = 1
                 PROVE  Has(T)
      OBVIOUS
    <2>1. PICK x : T = {x}
      BY FS_Singleton
    <2> QED BY <2>1
  <1>2. ASSUME NEW n \in Nat, n \in Sizes PROVE n + 1 \in Sizes
    <2> SUFFICES ASSUME NEW T \in SUBSET Seq(Char), IsFiniteSet(T), Cardinality(T) = n + 2
                 PROVE  Has(T)
      OBVIOUS
    <2>1. T # {}
      BY FS_EmptySet
    <2>2. PICK z \in T : TRUE
      BY <2>1
    <2>3. IsFiniteSet(T \ {z}) /\ Cardinality(T \ {z}) = n + 1 /\ T \ {z} \in SUBSET Seq(Char)
      <3>1. IsFiniteSet(T \ {z}) /\ Cardinality(T \ {z}) = Cardinality(T) - 1
        BY FS_RemoveElement
      <3>2. T \ {z} \in SUBSET Seq(Char)
        OBVIOUS
      <3> QED BY <3>1, <3>2
    <2>4. PICK x \in T \ {z} : \A y \in (T \ {z}) \ {x} : Less(y, x)
      BY <1>2, <2>3
    <2>5. CASE Less(x, z)
      <3>1. \A y \in T \ {z} : Less(y, z)
        BY <2>4, <2>5, LessTransitive
      <3> QED BY <3>1
    <2>6. CASE ~ Less(x, z)
      <3>1. Less(z, x)
        BY <2>6, LessTotal
      <3> QED BY <2>4, <3>1
    <2> QED BY <2>5, <2>6
  <1>3. \A n \in Nat : n \in Sizes
    <2> HIDE DEF Sizes
    <2> QED BY <1>1, <1>2, InductionOnSet
  <1>4. Cardinality(S) \in Nat /\ Cardinality(S) # 0
    BY FS_CardinalityType, FS_EmptySet
  <1>5. Cardinality(S) - 1 \in Sizes /\ (Cardinality(S) - 1) + 1 = Cardinality(S)
    BY <1>3, <1>4
  <1>6. IsFiniteSet(S) /\ Cardinality(S) = (Cardinality(S) - 1) + 1 => Has(S)
    BY <1>5, Zenon
  <1> QED BY <1>5, <1>6

(* A finite set of strings can be listed in order. *)
LEMMA SortedListing ==
    ASSUME NEW S \in SUBSET Seq(Char), IsFiniteSet(S)
    PROVE  \E f \in SetToSeqs(S) : IsSorted(f, Less)
  <1> DEFINE Listed(T, f, n) == /\ f \in [1 .. n -> T]
                                /\ \A i, j \in 1 .. n : i # j => f[i] # f[j]
                                /\ \A i, j \in 1 .. n : i < j => Less(f[i], f[j])
             Sizes == {n \in Nat : \A T \in SUBSET Seq(Char) :
                          IsFiniteSet(T) /\ Cardinality(T) = n => \E f : Listed(T, f, n)}
  <1>1. 0 \in Sizes
    <2> SUFFICES ASSUME NEW T \in SUBSET Seq(Char) PROVE \E f : Listed(T, f, 0)
      OBVIOUS
    <2>1. Listed(T, [i \in 1 .. 0 |-> <<>>], 0)
      OBVIOUS
    <2> QED BY <2>1
  <1>2. ASSUME NEW n \in Nat, n \in Sizes PROVE n + 1 \in Sizes
    <2> SUFFICES ASSUME NEW T \in SUBSET Seq(Char), IsFiniteSet(T), Cardinality(T) = n + 1
                 PROVE  \E f : Listed(T, f, n + 1)
      OBVIOUS
    <2>1. T # {}
      BY FS_EmptySet
    <2>2. PICK x \in T : \A y \in T \ {x} : Less(y, x)
      BY <2>1, GreatestString
    <2> DEFINE R == T \ {x}
    <2>3. IsFiniteSet(R) /\ Cardinality(R) = n /\ R \in SUBSET Seq(Char)
      <3>1. IsFiniteSet(R) /\ Cardinality(R) = Cardinality(T) - 1
        BY FS_RemoveElement
      <3>2. R \in SUBSET Seq(Char)
        OBVIOUS
      <3> HIDE DEF R
      <3> QED BY <3>1, <3>2
    <2>4. PICK f : Listed(R, f, n)
      BY <1>2, <2>3
    <2> DEFINE g == [i \in 1 .. n + 1 |-> IF i = n + 1 THEN x ELSE f[i]]
    <2>5. \A i \in 1 .. n : f[i] \in R /\ g[i] = f[i]
      BY <2>4
    <2>6. \A i \in 1 .. n + 1 : i # n + 1 => i \in 1 .. n
      OBVIOUS
    <2>7. g \in [1 .. n + 1 -> T] /\ g[n + 1] = x
      BY <2>5, <2>6
    <2> HIDE DEF g
    <2>8. \A i, j \in 1 .. n + 1 : i # j => g[i] # g[j]
      BY <2>4, <2>5, <2>6, <2>7
    <2>9. \A i, j \in 1 .. n + 1 : i < j => Less(g[i], g[j])
      <3> SUFFICES ASSUME NEW i \in 1 .. n + 1, NEW j \in 1 .. n + 1, i < j PROVE Less(g[i], g[j])
        OBVIOUS
      <3>1. i \in 1 .. n
        OBVIOUS
      <3>2. CASE j = n + 1
        BY <2>2, <2>5, <2>7, <3>1, <3>2
      <3>3. CASE j # n + 1
        BY <2>4, <2>5, <2>6, <3>1, <3>3
      <3> QED BY <3>2, <3>3
    <2>10. Listed(T, g, n + 1)
      BY <2>7, <2>8, <2>9
    <2> QED BY <2>10
  <1>3. \A n \in Nat : n \in Sizes
    <2> HIDE DEF Sizes
    <2> QED BY <1>1, <1>2, InductionOnSet
  <1>4. Cardinality(S) \in Nat
    BY FS_CardinalityType
  <1>5. Cardinality(S) \in Sizes
    BY <1>3, <1>4
  <1>6. PICK f : Listed(S, f, Cardinality(S))
    BY <1>5, Zenon
  <1>7. Len(f) = Cardinality(S)
    <2>1. f \in [1 .. Cardinality(S) -> S]
      BY <1>6
    <2> QED BY <1>4, <2>1, LenProperties, SeqDef
  <1>8. f \in SetToSeqs(S)
    BY <1>6 DEF SetToSeqs
  <1>9. IsSorted(f, Less)
    BY <1>6, <1>7 DEF IsSorted
  <1> QED BY <1>8, <1>9

(* SortStrings lists the strings of a finite set, all of them. *)
LEMMA SortStringsLists ==
    ASSUME NEW S \in SUBSET Seq(Char), IsFiniteSet(S)
    PROVE  /\ SortStrings(S) \in Seq(S)
           /\ \A x \in S : \E i \in 1 .. Len(SortStrings(S)) : SortStrings(S)[i] = x
  <1> DEFINE f == SortStrings(S)
             n == Cardinality(S)
  <1>1. f \in SetToSeqs(S)
    BY SortedListing DEF SortStrings
  <1> HIDE DEF f
  <1>2. n \in Nat
    BY FS_CardinalityType
  <1>3. f \in [1 .. n -> S] /\ \A i, j \in 1 .. n : i # j => f[i] # f[j]
    BY <1>1 DEF SetToSeqs
  <1>4. f \in Injection(1 .. n, S)
    BY <1>3 DEF Injection, IsInjective
  <1>5. Cardinality(1 .. n) = n
    <2>1. Cardinality(1 .. n) = IF 1 > n THEN 0 ELSE n - 1 + 1
      BY <1>2, FS_Interval
    <2> QED BY <1>2, <2>1
  <1>6. f \in Surjection(1 .. n, S)
    BY <1>4, <1>5, FS_Injection
  <1>7. \A x \in S : \E i \in 1 .. n : f[i] = x
    BY <1>6 DEF Surjection
  <1>8. f \in Seq(S) /\ Len(f) = n
    BY <1>2, <1>3, SeqDef, LenProperties
  <1> QED BY <1>7, <1>8 DEF f

-----------------------------------------------------------------------------
(* Contexts. *)

(* A field and what follows it. *)
LEMMA FieldThen ==
    ASSUME NEW a \in Seq(Char), NEW e \in Seq(Char), NEW b \in Seq(Char), NEW z \in Seq(Char),
           NEW s \in Seq(Char)
    PROVE  /\ Cat(Cat(Cat(Cat(a, e), b), z), s) = Cat(Cat(a, e), Cat(Cat(b, z), s))
           /\ Cat(Cat(b, z), s) \in Seq(Char)
  <1>1. PICK p \in Seq(Char) : p = Cat(a, e)
    BY CatProperties
  <1>2. PICK q \in Seq(Char) : q = Cat(b, z)
    BY CatProperties
  <1>3. Cat(Cat(p, b), z) = Cat(p, q)
    BY <1>2, Reassociated
  <1>4. Cat(Cat(p, q), s) = Cat(p, Cat(q, s)) /\ Cat(q, s) \in Seq(Char)
    BY Reassociated, CatProperties
  <1> QED BY <1>1, <1>2, <1>3, <1>4

(* After every turn there is a beginning of the whole. *)
LEMMA TurnsAreBeginnings ==
    ASSUME NEW r \in Seq(Seq(Char)), NEW f \in [0 .. Len(r) -> Seq(Char)],
           \A i \in 1 .. Len(r) : f[i] = Cat(f[i - 1], r[i]), NEW k \in 0 .. Len(r)
    PROVE  \E x \in Seq(Char) : f[Len(r)] = Cat(f[k], x)
  <1> DEFINE n == Len(r)
             Starts(m) == \E x \in Seq(Char) : f[m] = Cat(f[k], x)
             At == {m \in Nat : k + m <= n => Starts(k + m)}
  <1>0. n \in Nat /\ k \in Nat /\ k <= n
    OBVIOUS
  <1>1. 0 \in At
    <2>1. f[k] \in Seq(Char) /\ <<>> \in Seq(Char) /\ k + 0 = k
      <3>1. f[k] \in Seq(Char)
        OBVIOUS
      <3>2. <<>> \in Seq(Char)
        OBVIOUS
      <3> QED BY <1>0, <3>1, <3>2
    <2>2. f[k] = Cat(f[k], <<>>)
      BY <2>1, ConcatEmptySeq DEF Cat
    <2>3. Starts(k)
      BY <2>1, <2>2
    <2> HIDE DEF Starts
    <2> QED BY <2>1, <2>3
  <1>2. ASSUME NEW m \in Nat, m \in At PROVE m + 1 \in At
    <2>0. SUFFICES ASSUME k + (m + 1) <= n PROVE Starts(k + (m + 1))
      <3> HIDE DEF Starts
      <3> QED OBVIOUS
    <2>1. k + m <= n /\ k + (m + 1) \in 1 .. n /\ (k + (m + 1)) - 1 = k + m
      BY <1>0, <2>0
    <2>2. Starts(k + m)
      <3> HIDE DEF Starts
      <3> QED BY <1>2, <2>1
    <2>3. PICK x \in Seq(Char) : f[k + m] = Cat(f[k], x)
      BY <2>2, Zenon
    <2> DEFINE y == r[k + (m + 1)]
    <2>4. f[k] \in Seq(Char) /\ y \in Seq(Char)
      BY <2>1, ElementOfSeq
    <2>5. f[k + (m + 1)] = Cat(Cat(f[k], x), y)
      <3>1. f[k + (m + 1)] = Cat(f[(k + (m + 1)) - 1], y)
        BY <2>1
      <3> HIDE DEF y
      <3> QED BY <2>1, <2>3, <3>1, Zenon
    <2> HIDE DEF y
    <2>6. Cat(Cat(f[k], x), y) = Cat(f[k], Cat(x, y)) /\ Cat(x, y) \in Seq(Char)
      BY <2>4, Reassociated, CatProperties
    <2> QED BY <2>5, <2>6, Zenon
  <1>3. \A m \in Nat : m \in At
    <2> HIDE DEF At
    <2> QED BY <1>1, <1>2, InductionOnSet
  <1> HIDE DEF Starts
  <1>4. n - k \in Nat /\ k + (n - k) = n
    BY <1>0
  <1>5. n - k \in At
    BY <1>3, <1>4, Zenon
  <1>6. Starts(n)
    BY <1>0, <1>4, <1>5
  <1> QED BY <1>6 DEF Starts

(* The whole is what a turn starts from, what it appends and something more. *)
LEMMA TurnsContinue ==
    ASSUME NEW r \in Seq(Seq(Char)), NEW f \in [0 .. Len(r) -> Seq(Char)],
           \A i \in 1 .. Len(r) : f[i] = Cat(f[i - 1], r[i]), NEW i \in 0 .. Len(r), i < Len(r)
    PROVE  \E x \in Seq(Char) : f[Len(r)] = Cat(f[i], Cat(r[i + 1], x))
  <1>0. i + 1 \in 0 .. Len(r) /\ i + 1 \in 1 .. Len(r) /\ (i + 1) - 1 = i
    OBVIOUS
  <1>1. PICK x \in Seq(Char) : f[Len(r)] = Cat(f[i + 1], x)
    BY <1>0, TurnsAreBeginnings
  <1>2. f[i + 1] = Cat(f[i], r[i + 1])
    BY <1>0
  <1>3. f[i] \in Seq(Char) /\ r[i + 1] \in Seq(Char)
    BY <1>0, ElementOfSeq
  <1>4. Cat(Cat(f[i], r[i + 1]), x) = Cat(f[i], Cat(r[i + 1], x))
    BY <1>3, Reassociated
  <1> QED BY <1>1, <1>2, <1>4

(* The ways to split a string with the two separators. *)
LEMMA SplitOnce ==
    ASSUME NEW c \in Char, NEW a \in Seq(Char), NEW x \in Seq(Char),
           NEW b \in Seq(Char), NEW y \in Seq(Char),
           \A i \in 1 .. Len(a) : a[i] # c, \A i \in 1 .. Len(b) : b[i] # c,
           Cat(Cat(a, <<c>>), x) = Cat(Cat(b, <<c>>), y)
    PROVE  a = b /\ x = y
  BY SplitAtFirst, ZenonT(40) DEF Cat

(* A string that begins with two fields. *)
BeginsWithBoth(k, v, x, l, w, y) == Cat(WriteField(k, v), x) = Cat(WriteField(l, w), y)

(* A field is read back from what begins with it: the name ends at the      *)
(* first '=' and the value at the NUL that follows.                         *)
LEMMA FieldReadsBack ==
    ASSUME NEW k \in Seq(Char \ {Equals}), NEW v \in Seq(Char \ {Nul}), NEW x \in Seq(Char),
           NEW l \in Seq(Char \ {Equals}), NEW w \in Seq(Char \ {Nul}), NEW y \in Seq(Char),
           BeginsWithBoth(k, v, x, l, w, y)
    PROVE  k = l /\ v = w
  <1> DEFINE e == <<Equals>>
             z == <<Nul>>
  <1>1. Nul \in Char /\ Equals \in Char /\ e \in Seq(Char) /\ z \in Seq(Char)
    BY CharRange DEF Nul, Equals
  <1>2. k \in Seq(Char) /\ l \in Seq(Char) /\ v \in Seq(Char) /\ w \in Seq(Char)
    BY SeqMonotonic
  <1>3. (\A i \in 1 .. Len(k) : k[i] # Equals) /\ (\A i \in 1 .. Len(l) : l[i] # Equals)
    BY ElementOfSeq
  <1>4. (\A i \in 1 .. Len(v) : v[i] # Nul) /\ (\A i \in 1 .. Len(w) : w[i] # Nul)
    BY ElementOfSeq
  <1>5. ASSUME NEW a \in Seq(Char), NEW b \in Seq(Char), NEW s \in Seq(Char)
        PROVE  /\ Cat(WriteField(a, b), s) = Cat(Cat(a, e), Cat(Cat(b, z), s))
               /\ Cat(Cat(b, z), s) \in Seq(Char)
    <2>1. WriteField(a, b) = Cat(Cat(Cat(a, e), b), z)
      BY DEF WriteField, Cat
    <2> HIDE DEF e, z
    <2>2. /\ Cat(Cat(Cat(Cat(a, e), b), z), s) = Cat(Cat(a, e), Cat(Cat(b, z), s))
          /\ Cat(Cat(b, z), s) \in Seq(Char)
      BY <1>1, FieldThen
    <2> QED BY <2>1, <2>2
  <1>6. /\ Cat(Cat(k, e), Cat(Cat(v, z), x)) = Cat(Cat(l, e), Cat(Cat(w, z), y))
        /\ Cat(Cat(v, z), x) \in Seq(Char) /\ Cat(Cat(w, z), y) \in Seq(Char)
    <2> HIDE DEF e, z
    <2> QED BY <1>2, <1>5 DEF BeginsWithBoth
  <1>7. k = l /\ Cat(Cat(v, z), x) = Cat(Cat(w, z), y)
    <2> DEFINE X == Cat(Cat(v, z), x)
               Y == Cat(Cat(w, z), y)
    <2>1. X \in Seq(Char) /\ Y \in Seq(Char) /\ Cat(Cat(k, <<Equals>>), X) = Cat(Cat(l, <<Equals>>), Y)
      BY <1>6
    <2> HIDE DEF X, Y
    <2>2. k = l /\ X = Y
      BY <1>1, <1>2, <1>3, <2>1, SplitOnce
    <2> QED BY <2>2 DEF X, Y
  <1>8. v = w
    BY <1>1, <1>2, <1>4, <1>7, SplitOnce
  <1> QED BY <1>7, <1>8

(* A field is not empty. *)
LEMMA FieldNotEmpty ==
    ASSUME NEW k \in Seq(Char), NEW v \in Seq(Char)
    PROVE  WriteField(k, v) \in Seq(Char) /\ Len(WriteField(k, v)) > 0
  <1> DEFINE e == <<Equals>>
             z == <<Nul>>
             h == Cat(Cat(k, e), v)
  <1>1. e \in Seq(Char) /\ z \in Seq(Char) /\ Len(z) = 1
    BY CharRange DEF Nul, Equals
  <1>2. WriteField(k, v) = Cat(h, z)
    BY DEF WriteField, Cat
  <1> HIDE DEF e, z
  <1>3. Cat(k, e) \in Seq(Char)
    BY <1>1, CatProperties
  <1>4. h \in Seq(Char)
    BY <1>3, CatProperties
  <1> HIDE DEF h
  <1>5. Cat(h, z) \in Seq(Char) /\ Len(Cat(h, z)) = Len(h) + 1
    <2>1. Cat(h, z) \in Seq(Char) /\ Len(Cat(h, z)) = Len(h) + Len(z)
      BY <1>1, <1>4, CatProperties, ZenonT(40)
    <2> QED BY <1>1, <2>1, ZenonT(40)
  <1>6. Len(h) \in Nat
    BY <1>4
  <1> QED BY <1>2, <1>5, <1>6

(* The string of two lists of fields. *)
WritesBoth(n, k, v, m, l, w) ==
    FlattenSeq([i \in 1 .. n |-> WriteField(k[i], v[i])])
        = FlattenSeq([i \in 1 .. m |-> WriteField(l[i], w[i])])

(* A list of fields is read back from its string, field by field. *)
LEMMA FieldsReadBack ==
    ASSUME NEW n \in Nat, NEW k \in [1 .. n -> Seq(Char \ {Equals})], NEW v \in [1 .. n -> Seq(Char \ {Nul})],
           NEW m \in Nat, NEW l \in [1 .. m -> Seq(Char \ {Equals})], NEW w \in [1 .. m -> Seq(Char \ {Nul})],
           WritesBoth(n, k, v, m, l, w)
    PROVE  n = m /\ k = l /\ v = w
  <1> DEFINE r == [i \in 1 .. n |-> WriteField(k[i], v[i])]
             q == [i \in 1 .. m |-> WriteField(l[i], w[i])]
  <1>1. ASSUME NEW a \in Seq(Char \ {Equals}), NEW b \in Seq(Char \ {Nul})
        PROVE  WriteField(a, b) \in Seq(Char) /\ Len(WriteField(a, b)) > 0
    <2>1. a \in Seq(Char) /\ b \in Seq(Char)
      BY SeqMonotonic
    <2> QED BY <2>1, FieldNotEmpty
  <1>2. /\ r \in Seq(Seq(Char)) /\ Len(r) = n
        /\ \A i \in 1 .. n : r[i] = WriteField(k[i], v[i]) /\ r[i] \in Seq(Char) /\ Len(r[i]) > 0
    <2>1. \A i \in 1 .. n : r[i] = WriteField(k[i], v[i]) /\ r[i] \in Seq(Char) /\ Len(r[i]) > 0
      BY <1>1
    <2>2. r \in [1 .. n -> Seq(Char)]
      BY <2>1
    <2> HIDE DEF r
    <2> QED BY <2>1, <2>2, SeqDef
  <1>3. /\ q \in Seq(Seq(Char)) /\ Len(q) = m
        /\ \A i \in 1 .. m : q[i] = WriteField(l[i], w[i]) /\ q[i] \in Seq(Char) /\ Len(q[i]) > 0
    <2>1. \A i \in 1 .. m : q[i] = WriteField(l[i], w[i]) /\ q[i] \in Seq(Char) /\ Len(q[i]) > 0
      BY <1>1
    <2>2. q \in [1 .. m -> Seq(Char)]
      BY <2>1
    <2> HIDE DEF q
    <2> QED BY <2>1, <2>2, SeqDef
  <1>4. FlattenSeq(r) = FlattenSeq(q)
    BY DEF WritesBoth
  <1> HIDE DEF r, q
  <1>5. PICK f \in [0 .. n -> Seq(Char)] : /\ f[0] = <<>> /\ FlattenSeq(r) = f[n]
                                           /\ \A i \in 1 .. n : f[i] = Cat(f[i - 1], r[i])
    BY <1>2, FlattenTurns
  <1>6. PICK g \in [0 .. m -> Seq(Char)] : /\ g[0] = <<>> /\ FlattenSeq(q) = g[m]
                                           /\ \A i \in 1 .. m : g[i] = Cat(g[i - 1], q[i])
    BY <1>3, FlattenTurns
  <1>7. f[n] = g[m]
    BY <1>4, <1>5, <1>6
  <1>8. ASSUME NEW i \in Nat, i < n PROVE \E x \in Seq(Char) : f[n] = Cat(f[i], Cat(r[i + 1], x))
    <2>1. i \in 0 .. Len(r) /\ i < Len(r)
      BY <1>2, <1>8
    <2> QED BY <1>2, <1>5, <2>1, TurnsContinue
  <1>9. ASSUME NEW i \in Nat, i < m PROVE \E x \in Seq(Char) : g[m] = Cat(g[i], Cat(q[i + 1], x))
    <2>1. i \in 0 .. Len(q) /\ i < Len(q)
      BY <1>3, <1>9
    <2> QED BY <1>3, <1>6, <2>1, TurnsContinue
  <1>10. ASSUME NEW a \in Seq(Char), NEW b \in Seq(Char), NEW c \in Seq(Char), Len(b) > 0
         PROVE  a # Cat(a, Cat(b, c))
    <2>1. PICK d \in Seq(Char) : d = Cat(b, c) /\ Len(d) = Len(b) + Len(c)
      BY CatProperties
    <2>2. Len(Cat(a, d)) = Len(a) + Len(d)
      BY CatProperties
    <2>3. Len(a) \in Nat /\ Len(b) \in Nat /\ Len(c) \in Nat
      OBVIOUS
    <2> QED BY <1>10, <2>1, <2>2, <2>3
  <1> DEFINE Same(i) == i <= m /\ f[i] = g[i] /\ \A j \in 1 .. i : k[j] = l[j] /\ v[j] = w[j]
             At == {i \in Nat : i <= n => Same(i)}
  <1>11. 0 \in At
    <2>1. Same(0)
      BY <1>5, <1>6
    <2> HIDE DEF Same
    <2> QED BY <2>1
  <1>12. ASSUME NEW i \in Nat, i \in At PROVE i + 1 \in At
    <2>0. SUFFICES ASSUME i + 1 <= n PROVE Same(i + 1)
      <3> HIDE DEF Same
      <3> QED OBVIOUS
    <2>1. Same(i) /\ i < n /\ i \in 0 .. n /\ i + 1 \in 1 .. n /\ (i + 1) - 1 = i
      <3> HIDE DEF Same
      <3> QED BY <1>12, <2>0
    <2>2. PICK x \in Seq(Char) : f[n] = Cat(f[i], Cat(r[i + 1], x))
      BY <1>8, <2>1
    <2>3. f[i] \in Seq(Char) /\ r[i + 1] \in Seq(Char) /\ Len(r[i + 1]) > 0
      BY <1>2, <2>1
    <2>4. i < m
      <3>1. f[n] # f[i]
        BY <1>10, <2>2, <2>3
      <3>2. i # m
        BY <1>7, <2>1, <3>1
      <3> QED BY <2>1, <3>2
    <2>5. i + 1 \in 1 .. m
      BY <2>4
    <2>6. PICK y \in Seq(Char) : g[m] = Cat(g[i], Cat(q[i + 1], y))
      BY <1>9, <2>4
    <2>7. q[i + 1] \in Seq(Char)
      BY <1>3, <2>5
    <2>8. Cat(r[i + 1], x) = Cat(q[i + 1], y)
      <3>1. PICK c \in Seq(Char) : c = Cat(r[i + 1], x)
        BY <2>3, CatProperties
      <3>2. PICK d \in Seq(Char) : d = Cat(q[i + 1], y)
        BY <2>7, CatProperties
      <3>3. Cat(f[i], c) = Cat(f[i], d)
        BY <1>7, <2>1, <2>2, <2>6, <3>1, <3>2
      <3> QED BY <2>3, <3>1, <3>2, <3>3, Cancelled
    <2>9. k[i + 1] = l[i + 1] /\ v[i + 1] = w[i + 1]
      <3>1. /\ k[i + 1] \in Seq(Char \ {Equals}) /\ v[i + 1] \in Seq(Char \ {Nul})
            /\ l[i + 1] \in Seq(Char \ {Equals}) /\ w[i + 1] \in Seq(Char \ {Nul})
        BY <2>1, <2>5
      <3>2. Cat(WriteField(k[i + 1], v[i + 1]), x) = Cat(WriteField(l[i + 1], w[i + 1]), y)
        BY <1>2, <1>3, <2>1, <2>5, <2>8
      <3> DEFINE a == k[i + 1]
                 b == v[i + 1]
                 c == l[i + 1]
                 d == w[i + 1]
      <3> HIDE DEF a, b, c, d
      <3>3. /\ a \in Seq(Char \ {Equals}) /\ b \in Seq(Char \ {Nul}) /\ c \in Seq(Char \ {Equals})
            /\ d \in Seq(Char \ {Nul}) /\ BeginsWithBoth(a, b, x, c, d, y)
        BY <3>1, <3>2 DEF a, b, c, d, BeginsWithBoth
      <3>4. a = c /\ b = d
        BY <3>3, FieldReadsBack
      <3> QED BY <3>4 DEF a, b, c, d
    <2>10. f[i + 1] = g[i + 1]
      <3>1. r[i + 1] = q[i + 1]
        BY <1>2, <1>3, <2>1, <2>5, <2>9
      <3>2. f[i + 1] = Cat(f[i], r[i + 1]) /\ g[i + 1] = Cat(g[i], q[i + 1])
        BY <1>5, <1>6, <2>1, <2>5
      <3> QED BY <2>1, <3>1, <3>2
    <2>11. \A j \in 1 .. i + 1 : j = i + 1 \/ j \in 1 .. i
      OBVIOUS
    <2>12. i + 1 <= m
      BY <2>4
    <2> QED BY <2>1, <2>9, <2>10, <2>11, <2>12
  <1>13. n \in At
    <2> HIDE DEF At
    <2> QED BY <1>11, <1>12, InductionOnSet
  <1>14. Same(n)
    <2> HIDE DEF Same
    <2> QED BY <1>13
  <1>15. n = m
    <2>1. ASSUME n < m PROVE FALSE
      <3>1. PICK y \in Seq(Char) : g[m] = Cat(g[n], Cat(q[n + 1], y))
        BY <1>9, <2>1
      <3>2. g[n] \in Seq(Char) /\ q[n + 1] \in Seq(Char) /\ Len(q[n + 1]) > 0
        BY <1>3, <2>1
      <3>3. g[m] # g[n]
        BY <1>10, <3>1, <3>2
      <3> QED BY <1>7, <1>14, <3>3
    <2> QED BY <1>14, <2>1
  <1> QED BY <1>14, <1>15

(* What the setters write. *)
Name == Seq(Char)
Value == Seq(Char)

(* A part of a value is a value. *)
LEMMA PartOfValue ==
    ASSUME NEW s \in Value, NEW a \in Nat, NEW b \in Nat, a > 0, b <= Len(s)
    PROVE  SubSeq(s, a, b) \in Value
  <1>1. Len(s) \in Nat
    BY DEF Value
  <1>2. \A i \in a .. b : s[i] \in Char
    <2> SUFFICES ASSUME NEW i \in a .. b PROVE s[i] \in Char
      OBVIOUS
    <2>1. i \in 1 .. Len(s)
      BY <1>1
    <2> QED BY <2>1, ElementOfSeq DEF Value
  <1>3. a \in Int /\ b \in Int
    OBVIOUS
  <1> QED BY <1>2, <1>3, SubSeqProperties DEF Value

(* A value is a string. *)
LEMMA ValueIsString == \A s \in Value : s \in Seq(Char) /\ Len(s) \in Nat
  BY DEF Value

(* Normalisation keeps that. *)
LEMMA LoweredValue ==
    ASSUME NEW s \in Value PROVE ToLower(s) \in Value
  BY ValueIsString, Lowered DEF Value

(* The same of trimming. *)
LEMMA TrimmedValue ==
    ASSUME NEW s \in Value PROVE TrimSpace(s) \in Value
  <1> DEFINE kept == {i \in DOMAIN s : ~ IsSpace(s[i])}
  <1>1. s \in Seq(Char) /\ Len(s) \in Nat
    BY ValueIsString
  <1>2. TrimSpace(s) = IF kept = {} THEN <<>> ELSE SubSeq(s, Min(kept), Max(kept))
    BY DEF TrimSpace
  <1>3. CASE kept = {}
    <2>1. <<>> \in Value
      BY DEF Value
    <2> QED BY <1>2, <1>3, <2>1
  <1>4. CASE kept # {}
    <2>1. kept \in SUBSET (1 .. Len(s))
      BY <1>1
    <2> HIDE DEF kept
    <2>2. IsFiniteSet(1 .. Len(s))
      BY <1>1, FS_Interval
    <2>3. IsFiniteSet(kept) /\ kept \in SUBSET Nat /\ kept \in SUBSET Int
      <3>1. IsFiniteSet(kept)
        BY <2>1, <2>2, FS_Subset
      <3>2. 1 .. Len(s) \in SUBSET Nat /\ 1 .. Len(s) \in SUBSET Int
        BY <1>1
      <3> QED BY <2>1, <3>1, <3>2
    <2>4. Min(kept) \in kept /\ Max(kept) \in kept
      BY <1>4, <2>3, MinOfNaturals, MaxOfFinite
    <2>5. Min(kept) \in 1 .. Len(s) /\ Max(kept) \in 1 .. Len(s)
      BY <2>1, <2>4
    <2>6. Min(kept) \in Nat /\ Min(kept) > 0 /\ Max(kept) \in Nat /\ Max(kept) <= Len(s)
      BY <1>1, <2>5
    <2>7. SubSeq(s, Min(kept), Max(kept)) \in Value
      BY <2>6, PartOfValue
    <2> QED BY <1>2, <1>4, <2>7
  <1> QED BY <1>3, <1>4

(* The same of what stands before a character. *)
LEMMA UpToValue ==
    ASSUME NEW s \in Value, NEW c PROVE UpTo(s, c) \in Value
  <1>1. s \in Seq(Char) /\ Len(s) \in Nat
    BY ValueIsString
  <1>2. PICK n \in 0 .. Len(s) : UpTo(s, c) = SubSeq(s, 1, n)
    BY <1>1, UpToFirst
  <1>3. n \in Nat /\ n <= Len(s) /\ 1 \in Nat /\ 1 > 0
    BY <1>1
  <1>4. SubSeq(s, 1, n) \in Value
    BY <1>3, PartOfValue
  <1> QED BY <1>2, <1>4

(* The same of origins. *)
LEMMA OriginValue ==
    ASSUME NEW s \in Value PROVE NormalizeOrigin(s) \in Value
  <1> DEFINE o == WithoutQuery(ToLower(TrimSpace(s)))
             sep == {i \in 1 .. Len(o) - 2 : SubSeq(o, i, i + 2) = <<Colon, Slash, Slash>>}
             scheme == SubSeq(o, 1, Min(sep) + 2)
             rest == From(o, Min(sep) + 3)
             host == UpTo(rest, Slash)
             whole == IF sep = {} THEN o ELSE scheme \o host
  <1>1. o \in Value
    <2>1. ToLower(TrimSpace(s)) \in Value
      BY TrimmedValue, LoweredValue
    <2> QED BY <2>1, UpToValue DEF WithoutQuery
  <1>2. NormalizeOrigin(s) = IF whole # <<>> /\ Last(whole) = Slash THEN Front(whole) ELSE whole
    BY DEF NormalizeOrigin
  <1> HIDE DEF o
  <1>3. o \in Seq(Char) /\ Len(o) \in Nat
    BY <1>1, ValueIsString
  <1>4. whole \in Value
    <2>1. CASE sep = {}
      BY <1>1, <2>1
    <2>2. CASE sep # {}
      <3>1. \A i \in sep : i \in 1 .. Len(o) - 2
        OBVIOUS
      <3> HIDE DEF sep
      <3>2. sep \in SUBSET Nat
        BY <1>3, <3>1
      <3>3. Min(sep) \in sep
        BY <2>2, <3>2, MinOfNaturals
      <3>4. PICK p \in 1 .. Len(o) - 2 : p = Min(sep)
        BY <3>1, <3>3
      <3>5. p + 2 \in Nat /\ p + 2 <= Len(o) /\ p + 3 \in Nat /\ p + 3 > 0 /\ 1 \in Nat /\ 1 > 0
            /\ Len(o) <= Len(o)
        BY <1>3
      <3>6. SubSeq(o, 1, p + 2) \in Value /\ SubSeq(o, p + 3, Len(o)) \in Value
        BY <1>1, <1>3, <3>5, PartOfValue
      <3>7. scheme \in Value /\ rest \in Value
        BY <3>4, <3>6 DEF From
      <3> HIDE DEF scheme, rest
      <3>8. host \in Value
        BY <3>7, UpToValue
      <3> HIDE DEF host
      <3>9. scheme \o host \in Value
        BY <3>7, <3>8, ConcatProperties DEF Value
      <3> QED BY <2>2, <3>9
    <2> QED BY <2>1, <2>2
  <1> HIDE DEF whole
  <1>5. ASSUME whole # <<>> PROVE Front(whole) \in Value
    <2>1. whole \in Seq(Char) /\ Len(whole) \in Nat
      BY <1>4, ValueIsString
    <2>2. Len(whole) > 0
      BY <1>5, <2>1
    <2>3. Len(whole) - 1 \in Nat /\ Len(whole) - 1 <= Len(whole) /\ 1 \in Nat /\ 1 > 0
      BY <2>1, <2>2
    <2>4. SubSeq(whole, 1, Len(whole) - 1) \in Value
      BY <1>4, <2>3, PartOfValue
    <2> QED BY <2>4 DEF Front
  <1> QED BY <1>2, <1>4, <1>5

(* A word of the library is a character that is no ASCII character. *)
LEMMA WordRange ==
    ASSUME NEW w PROVE Word(w) \in 255 .. 275
  <1> DEFINE I == {i \in 1 .. Len(Words) : Words[i] = w}
  <1>1. Len(Words) = 20
    BY DEF Words
  <1>2. Word(w) = 255 + (IF I # {} THEN Min(I) ELSE 0)
    BY DEF Word, SelectInSeq
  <1>3. \A i \in I : i \in 1 .. 20
    BY <1>1
  <1> HIDE DEF I
  <1>4. I \in SUBSET Nat
    BY <1>3
  <1>5. CASE I = {}
    BY <1>2, <1>5
  <1>6. CASE I # {}
    <2>1. Min(I) \in 1 .. 20
      BY <1>3, <1>4, <1>6, MinOfNaturals
    <2> QED BY <1>2, <1>6, <2>1
  <1> QED BY <1>5, <1>6

(* So it is a name. *)
LEMMA WordIsName ==
    ASSUME NEW w PROVE <<Word(w)>> \in Name
  <1>1. Word(w) \in Char
    BY WordRange, CharRange
  <1> QED BY <1>1 DEF Name

(* What a builder holds: finitely many names, a value for each. *)
FieldMaps == UNION {[D -> Value] : D \in {N \in SUBSET Name : IsFiniteSet(N)}}

(* The members of FieldMaps. *)
LEMMA FieldMapsMembers ==
    \A f : f \in FieldMaps <=>
        DOMAIN f \in SUBSET Name /\ IsFiniteSet(DOMAIN f) /\ f \in [DOMAIN f -> Value]
  <1> SUFFICES ASSUME NEW f
               PROVE  f \in FieldMaps <=>
                        DOMAIN f \in SUBSET Name /\ IsFiniteSet(DOMAIN f) /\ f \in [DOMAIN f -> Value]
    OBVIOUS
  <1>1. ASSUME f \in FieldMaps
        PROVE  DOMAIN f \in SUBSET Name /\ IsFiniteSet(DOMAIN f) /\ f \in [DOMAIN f -> Value]
    <2>1. PICK D \in SUBSET Name : IsFiniteSet(D) /\ f \in [D -> Value]
      BY <1>1 DEF FieldMaps
    <2>2. DOMAIN f = D
      BY <2>1
    <2> QED BY <2>1, <2>2
  <1>2. ASSUME DOMAIN f \in SUBSET Name, IsFiniteSet(DOMAIN f), f \in [DOMAIN f -> Value]
        PROVE  f \in FieldMaps
    BY <1>2 DEF FieldMaps
  <1> QED BY <1>1, <1>2

(* Setting a field keeps that. *)
LEMMA SetFieldTyped ==
    ASSUME NEW f \in FieldMaps, NEW k \in Name, NEW v \in Value
    PROVE  SetField(f, k, v) \in FieldMaps
  <1>1. DOMAIN f \in SUBSET Name /\ IsFiniteSet(DOMAIN f) /\ f \in [DOMAIN f -> Value]
    BY FieldMapsMembers
  <1>2. CASE Len(v) > MaxContextFieldLen
    BY <1>2 DEF SetField
  <1>3. CASE ~ (Len(v) > MaxContextFieldLen)
    <2> DEFINE D == DOMAIN f \cup {k}
               h == [x \in D |-> IF x = k THEN v ELSE f[x]]
    <2>1. SetField(f, k, v) = h
      BY <1>3 DEF SetField
    <2>2. D \in SUBSET Name
      BY <1>1
    <2>3. IsFiniteSet(D)
      BY <1>1, FS_AddElement
    <2>4. DOMAIN h = D /\ h \in [D -> Value]
      BY <1>1
    <2> HIDE DEF h, D
    <2>5. h \in FieldMaps
      BY <2>2, <2>3, <2>4, FieldMapsMembers
    <2> QED BY <2>1, <2>5
  <1> QED BY <1>2, <1>3

(* So does every setter. *)
LEMMA SetTyped ==
    ASSUME NEW f \in FieldMaps,
           NEW call \in [setter : Setters, key : Seq(Char), value : Seq(Char)]
    PROVE  Set(f, call) \in FieldMaps
  <1> DEFINE value == call.value
             label == NormalizeContextLabel(value)
             name == <<Word(call.setter)>>
  <1>1. call.setter \in Setters /\ call.key \in Name /\ value \in Value
    BY DEF Name, Value
  <1>2. name \in Name
    BY WordIsName
  <1>3. label \in Value /\ NormalizeOrigin(value) \in Value
    BY <1>1, TrimmedValue, LoweredValue, OriginValue DEF NormalizeContextLabel
  <1>4. name \o call.key \in Name
    <2> HIDE DEF name
    <2> QED BY <1>1, <1>2, ConcatProperties DEF Name
  <1> DEFINE joined == name \o call.key
             origin == NormalizeOrigin(value)
  <1>5. Set(f, call) =
            CASE call.setter \in {"ip", "device", "session"} -> SetField(f, name, value)
              [] call.setter = "origin" -> SetField(f, name, origin)
              [] call.setter \in {"region", "geo_bucket"} -> SetField(f, name, label)
              [] call.setter = "distance_class" ->
                    IF label \in AllowedDistanceClasses THEN SetField(f, name, label) ELSE f
              [] call.setter = "x-" ->
                    IF Len(call.key) > MaxContextFieldLen THEN f ELSE SetField(f, joined, value)
    BY Zenon DEF Set
  <1>6. /\ SetField(f, name, value) \in FieldMaps /\ SetField(f, name, origin) \in FieldMaps
        /\ SetField(f, name, label) \in FieldMaps /\ SetField(f, joined, value) \in FieldMaps
    <2> HIDE DEF name, joined, value, label, origin
    <2> QED BY <1>1, <1>2, <1>3, <1>4, SetFieldTyped DEF joined, origin
  <1> HIDE DEF name, joined, value, label, origin
  <1> QED BY <1>1, <1>5, <1>6 DEF Setters

(* What the setters leave behind. *)
LEMMA FieldsTyped ==
    ASSUME NEW calls \in Seq([setter : Setters, key : Seq(Char), value : Seq(Char)])
    PROVE  Fields(calls) \in FieldMaps
  <1> DEFINE n == Len(calls)
             b == NewOtpContextBuilder
             A == CHOOSE after : after = [i \in 0 .. Len(calls) |->
                      IF i = 0 THEN NewOtpContextBuilder ELSE Set(after[i - 1], calls[i])]
             g == [i \in 1 .. n |-> [f \in FieldMaps |-> Set(f, calls[i])]]
  <1>1. n \in Nat
    OBVIOUS
  <1>2. Fields(calls) = A[n]
    BY DEF Fields
  <1>3. b \in FieldMaps
    <2>1. DOMAIN b = {} /\ b \in [{} -> Value]
      BY DEF NewOtpContextBuilder
    <2> HIDE DEF b
    <2> QED BY <2>1, FieldMapsMembers, FS_EmptySet
  <1>4. ASSUME NEW i \in 1 .. n, NEW f \in FieldMaps PROVE Set(f, calls[i]) \in FieldMaps
    <2>1. calls[i] \in [setter : Setters, key : Seq(Char), value : Seq(Char)]
      BY ElementOfSeq
    <2> QED BY <2>1, SetTyped
  <1>5. g \in [1 .. n -> [FieldMaps -> FieldMaps]] /\ \A i \in 1 .. n : \A f \in FieldMaps : g[i][f] = Set(f, calls[i])
    BY <1>4
  <1>6. \E h : Turns(h, FieldMaps, b, n, g)
    <2> HIDE DEF A, b, g, n
    <2> QED BY <1>1, <1>3, <1>5, LoopExists
  <1>7. PICK h : Turns(h, FieldMaps, b, n, g)
    BY <1>6
  <1> HIDE DEF g
  <1>8. h \in [0 .. n -> FieldMaps] /\ h[0] = b /\ \A i \in 1 .. n : h[i] = g[i][h[i - 1]]
    <2> HIDE DEF A, b, n
    <2> QED BY <1>7 DEF Turns
  <1>9. ASSUME NEW i \in 1 .. n PROVE h[i] = Set(h[i - 1], calls[i])
    <2>1. i - 1 \in 0 .. n
      BY <1>1
    <2>2. h[i - 1] \in FieldMaps
      BY <1>8, <2>1
    <2> QED BY <1>5, <1>8, <2>2
  <1>10. h = [i \in 0 .. Len(calls) |-> IF i = 0 THEN NewOtpContextBuilder ELSE Set(h[i - 1], calls[i])]
    <2>1. \A i \in 0 .. n : i = 0 \/ i \in 1 .. n
      BY <1>1
    <2> QED BY <1>8, <1>9, <2>1
  <1>11. A = [i \in 0 .. Len(calls) |-> IF i = 0 THEN NewOtpContextBuilder ELSE Set(A[i - 1], calls[i])]
    BY <1>10
  <1> HIDE DEF A
  <1>12. A[0] = b /\ \A i \in 1 .. n : A[i] = Set(A[i - 1], calls[i])
    <2>1. \A i \in 0 .. n : A[i] = IF i = 0 THEN NewOtpContextBuilder ELSE Set(A[i - 1], calls[i])
      BY <1>11, Zenon
    <2>2. 0 \in 0 .. n /\ \A i \in 1 .. n : i \in 0 .. n /\ i # 0
      BY <1>1
    <2>3. \A i \in 1 .. n : A[i] = Set(A[i - 1], calls[i])
      BY <2>1, <2>2, Zenon
    <2> QED BY <2>1, <2>2, <2>3, Zenon
  <1> DEFINE At == {i \in Nat : i <= n => A[i] \in FieldMaps}
  <1>13. 0 \in At
    BY <1>3, <1>12
  <1>14. ASSUME NEW i \in Nat, i \in At PROVE i + 1 \in At
    <2>0. SUFFICES ASSUME i + 1 <= n PROVE A[i + 1] \in FieldMaps
      OBVIOUS
    <2>1. i + 1 \in 1 .. n /\ (i + 1) - 1 = i /\ A[i] \in FieldMaps
      BY <1>1, <1>14, <2>0
    <2>2. A[i + 1] = Set(A[i], calls[i + 1])
      BY <1>12, <2>1
    <2> QED BY <1>4, <2>1, <2>2
  <1>15. n \in At
    <2> HIDE DEF At
    <2> QED BY <1>1, <1>13, <1>14, InductionOnSet
  <1> QED BY <1>1, <1>2, <1>15

(* The fields of a plain builder. *)
LEMMA PlainFields ==
    ASSUME NEW f \in FieldMaps, Plain(f), NEW k \in DOMAIN f
    PROVE  k \in Seq(Char \ {Equals}) /\ f[k] \in Seq(Char \ {Nul})
  <1>1. k \in Seq(Char) /\ f[k] \in Seq(Char)
    <2>1. DOMAIN f \in SUBSET Name /\ f \in [DOMAIN f -> Value]
      BY FieldMapsMembers
    <2> QED BY <2>1 DEF Name, Value
  <1>2. (\A i \in DOMAIN k : k[i] # Equals) /\ (\A i \in DOMAIN f[k] : f[k][i] # Nul)
    BY DEF Plain
  <1>3. ASSUME NEW s \in Seq(Char), NEW c, \A i \in DOMAIN s : s[i] # c
        PROVE  s \in Seq(Char \ {c})
    <2>1. Len(s) \in Nat /\ s \in [1 .. Len(s) -> Char] /\ DOMAIN s = 1 .. Len(s)
      BY LenProperties
    <2>2. \A i \in 1 .. Len(s) : s[i] \in Char \ {c}
      BY <1>3, <2>1
    <2>3. s \in [1 .. Len(s) -> Char \ {c}]
      BY <2>1, <2>2
    <2> QED BY <2>1, <2>3, SeqDef
  <1> QED BY <1>1, <1>2, <1>3

(* Two plain builders that write the same string hold the same fields. *)
LEMMA BuildInjective ==
    ASSUME NEW f \in FieldMaps, NEW g \in FieldMaps, Plain(f), Plain(g), Build(f) = Build(g)
    PROVE  f = g
  <1> DEFINE k == SortStrings(DOMAIN f)
             l == SortStrings(DOMAIN g)
             v == [i \in 1 .. Len(k) |-> f[k[i]]]
             w == [i \in 1 .. Len(l) |-> g[l[i]]]
  <1>1. /\ DOMAIN f \in SUBSET Name /\ IsFiniteSet(DOMAIN f) /\ f \in [DOMAIN f -> Value]
        /\ DOMAIN f \in SUBSET Seq(Char)
    BY FieldMapsMembers DEF Name
  <1>2. /\ DOMAIN g \in SUBSET Name /\ IsFiniteSet(DOMAIN g) /\ g \in [DOMAIN g -> Value]
        /\ DOMAIN g \in SUBSET Seq(Char)
    BY FieldMapsMembers DEF Name
  <1>3. k \in Seq(DOMAIN f) /\ \A x \in DOMAIN f : \E i \in 1 .. Len(k) : k[i] = x
    BY <1>1, SortStringsLists
  <1>4. l \in Seq(DOMAIN g) /\ \A x \in DOMAIN g : \E i \in 1 .. Len(l) : l[i] = x
    BY <1>2, SortStringsLists
  <1>5. Build(f) = FlattenSeq([i \in DOMAIN k |-> WriteField(k[i], f[k[i]])])
        /\ Build(g) = FlattenSeq([i \in DOMAIN l |-> WriteField(l[i], g[l[i]])])
    BY Zenon DEF Build
  <1> HIDE DEF k, l
  <1>6. /\ Len(k) \in Nat /\ DOMAIN k = 1 .. Len(k) /\ k \in [1 .. Len(k) -> DOMAIN f]
        /\ Len(l) \in Nat /\ DOMAIN l = 1 .. Len(l) /\ l \in [1 .. Len(l) -> DOMAIN g]
    BY <1>3, <1>4, LenProperties
  <1>7. k \in [1 .. Len(k) -> Seq(Char \ {Equals})] /\ v \in [1 .. Len(k) -> Seq(Char \ {Nul})]
    <2>1. \A i \in 1 .. Len(k) : k[i] \in DOMAIN f
      BY <1>6
    <2>2. \A i \in 1 .. Len(k) : k[i] \in Seq(Char \ {Equals}) /\ f[k[i]] \in Seq(Char \ {Nul})
      BY <2>1, PlainFields
    <2> QED BY <1>6, <2>2
  <1>8. l \in [1 .. Len(l) -> Seq(Char \ {Equals})] /\ w \in [1 .. Len(l) -> Seq(Char \ {Nul})]
    <2>1. \A i \in 1 .. Len(l) : l[i] \in DOMAIN g
      BY <1>6
    <2>2. \A i \in 1 .. Len(l) : l[i] \in Seq(Char \ {Equals}) /\ g[l[i]] \in Seq(Char \ {Nul})
      BY <2>1, PlainFields
    <2> QED BY <1>6, <2>2
  <1>9. [i \in DOMAIN k |-> WriteField(k[i], f[k[i]])] = [i \in 1 .. Len(k) |-> WriteField(k[i], v[i])]
    BY <1>6
  <1>10. [i \in DOMAIN l |-> WriteField(l[i], g[l[i]])] = [i \in 1 .. Len(l) |-> WriteField(l[i], w[i])]
    BY <1>6
  <1>11. (\A i \in 1 .. Len(k) : v[i] = f[k[i]]) /\ (\A i \in 1 .. Len(l) : w[i] = g[l[i]])
    OBVIOUS
  <1> HIDE DEF v, w
  <1>12. WritesBoth(Len(k), k, v, Len(l), l, w)
    BY <1>5, <1>9, <1>10, Zenon DEF WritesBoth
  <1>13. Len(k) = Len(l) /\ k = l /\ v = w
    BY <1>6, <1>7, <1>8, <1>12, FieldsReadBack
  <1>14. DOMAIN f = DOMAIN g
    <2>1. \A x \in DOMAIN f : x \in DOMAIN g
      BY <1>3, <1>6, <1>13
    <2>2. \A x \in DOMAIN g : x \in DOMAIN f
      BY <1>4, <1>6, <1>13
    <2> QED BY <2>1, <2>2
  <1>15. ASSUME NEW x \in DOMAIN f PROVE f[x] = g[x]
    <2>1. PICK i \in 1 .. Len(k) : k[i] = x
      BY <1>3
    <2>2. v[i] = f[x] /\ w[i] = g[x]
      BY <1>11, <1>13, <2>1
    <2> QED BY <1>13, <2>2
  <1> QED BY <1>1, <1>2, <1>14, <1>15

(* Any setter calls may be made, with any bytes.  Contexts that are equal   *)
(* as bytes had the same fields set if no name holds '=' and no value NUL:  *)
(* what Build writes can then be read back from those two bytes alone.  The *)
(* setters of src/context.go do not see to that condition, and without it   *)
(* the conclusion fails.                                                    *)
THEOREM ContextsStayApart == Spec => []ContextsEncodeApart
  <1>1. JobInv => ContextsEncodeApart
    <2> SUFFICES ASSUME JobInv, Doing("context"), NEW other \in ContextCalls,
                        Plain(Fields(job.in)), Plain(Fields(other)),
                        Build(Fields(other)) = Build(Fields(job.in))
                 PROVE  Fields(other) = Fields(job.in)
      BY DEF ContextsEncodeApart
    <2>1. PICK c \in ContextCalls : job = [kind |-> "context", in |-> c]
      BY DEF JobInv, Doing
    <2>2. job.in = c
      BY <2>1
    <2>3. Fields(other) \in FieldMaps /\ Fields(c) \in FieldMaps
      BY CallsAssumption, FieldsTyped
    <2> QED BY <2>2, <2>3, BuildInjective
  <1> QED BY <1>1, JobInvariant, PTL

-----------------------------------------------------------------------------
(* Secrets. *)

(* What the decoder's loop carries from one character to the next. *)
DecoderStates ==
    [err : {"nil", "ErrInvalidSecret", "ErrDstTooSmall"}, buffer : Nat, bitsLeft : 0 .. 7, dst : Seq(Byte)]

DecoderStart == [err |-> "nil", buffer |-> 0, bitsLeft |-> 0, dst |-> <<>>]

(* The table of the decoder: a letter or a digit stands for five bits. *)
LEMMA InverseTable ==
    /\ \A c \in 50 .. 55 : b32Inverse(c) = c - 24
    /\ \A c \in 65 .. 90 : b32Inverse(c) = c - 65
    /\ \A c \in 97 .. 122 : b32Inverse(c) = c - 97
  <1>1. ASSUME NEW c \in 50 .. 55 PROVE b32Inverse(c) = c - 24
    BY DEF b32Inverse
  <1>2. ASSUME NEW c \in 65 .. 90 PROVE b32Inverse(c) = c - 65
    BY DEF b32Inverse
  <1>3. ASSUME NEW c \in 97 .. 122 PROVE b32Inverse(c) = c - 97
    BY DEF b32Inverse
  <1> QED BY <1>1, <1>2, <1>3

(* Other characters stand for none, or are refused. *)
LEMMA InverseRange == \A c \in Byte : b32Inverse(c) \in -1 .. 31
  <1> SUFFICES ASSUME NEW c \in Byte PROVE b32Inverse(c) \in -1 .. 31
    OBVIOUS
  <1>0. c \in 0 .. 255
    BY DEF Byte
  <1>1. CASE c \in 50 .. 55 \/ c \in 65 .. 90 \/ c \in 97 .. 122
    BY <1>1, InverseTable
  <1>2. CASE c >= 128
    BY <1>0, <1>2 DEF b32Inverse
  <1>3. CASE c \notin 50 .. 55 /\ c \notin 65 .. 90 /\ c \notin 97 .. 122 /\ ~ (c >= 128)
    BY <1>0, <1>3 DEF b32Inverse
  <1> QED BY <1>1, <1>2, <1>3

(* A decoded character leaves a state of the loop. *)
LEMMA TurnTyped ==
    ASSUME NEW room \in Nat, NEW s \in DecoderStates, NEW c \in Byte
    PROVE  DecodeDigit(room, s, c) \in DecoderStates
  <1> DEFINE v      == b32Inverse(c)
             buffer == (s.buffer * 32 + v) % 2 ^ 15
             bits   == s.bitsLeft + 5
             byte   == (buffer \div 2 ^ (bits - 8)) % 256
  <1>1. v \in -1 .. 31
    BY InverseRange
  <1>2. /\ s.err \in {"nil", "ErrInvalidSecret", "ErrDstTooSmall"} /\ s.buffer \in Nat
        /\ s.bitsLeft \in 0 .. 7 /\ s.dst \in Seq(Byte)
    BY DEF DecoderStates
  <1>3. ASSUME ~ (v < 0) PROVE buffer \in Nat
    <2>1. s.buffer * 32 + v \in Nat
      <3> HIDE DEF v
      <3> QED BY <1>1, <1>2, <1>3
    <2>2. buffer = (s.buffer * 32 + v) % 32768
      BY Powers
    <2> HIDE DEF v, buffer
    <2> QED BY <2>1, <2>2
  <1>4. bits \in 5 .. 12
    BY <1>2
  <1> HIDE DEF v, buffer, bits
  <1>5. ASSUME ~ (v < 0), ~ (bits < 8) PROVE byte \in Byte
    <2>1. bits - 8 \in 0 .. 4
      BY <1>4, <1>5
    <2>2. 2 ^ (bits - 8) \in {1, 2, 4, 8, 16}
      <3>1. bits - 8 = 0 \/ bits - 8 = 1 \/ bits - 8 = 2 \/ bits - 8 = 3 \/ bits - 8 = 4
        BY <2>1
      <3>2. \/ 2 ^ (bits - 8) = 2 ^ 0 \/ 2 ^ (bits - 8) = 2 ^ 1 \/ 2 ^ (bits - 8) = 2 ^ 2
            \/ 2 ^ (bits - 8) = 2 ^ 3 \/ 2 ^ (bits - 8) = 2 ^ 4
        BY <3>1, Zenon
      <3> QED BY <3>2, Powers
    <2>3. buffer \in Nat
      BY <1>3, <1>5
    <2> DEFINE p == 2 ^ (bits - 8)
    <2>4. p \in Nat \ {0}
      BY <2>2
    <2> HIDE DEF p
    <2>5. buffer \div p \in Int
      BY <2>3, <2>4
    <2>6. (buffer \div p) % 256 \in 0 .. 255
      BY <2>5
    <2> QED BY <2>6 DEF p, Byte
  <1> HIDE DEF byte
  <1>6. DecodeDigit(room, s, c)
          = IF s.err # "nil" THEN s
            ELSE IF v < 0 THEN [s EXCEPT !.err = "ErrInvalidSecret"]
            ELSE IF bits < 8 THEN [s EXCEPT !.buffer = buffer, !.bitsLeft = bits]
            ELSE IF Len(s.dst) = room THEN NoRoom(s)
            ELSE [s EXCEPT !.buffer = buffer, !.bitsLeft = bits - 8, !.dst = Append(@, byte)]
    BY DEF DecodeDigit, v, buffer, bits, byte
  <1>7. CASE s.err # "nil"
    BY <1>6, <1>7
  <1>8. CASE s.err = "nil" /\ v < 0
    BY <1>2, <1>6, <1>8 DEF DecoderStates
  <1>9. CASE s.err = "nil" /\ ~ (v < 0) /\ bits < 8
    <2>1. bits \in 0 .. 7 /\ buffer \in Nat
      BY <1>3, <1>4, <1>9
    <2>2. DecodeDigit(room, s, c) = [s EXCEPT !.buffer = buffer, !.bitsLeft = bits]
      BY <1>6, <1>9
    <2> QED BY <1>2, <2>1, <2>2 DEF DecoderStates
  <1>10. CASE s.err = "nil" /\ ~ (v < 0) /\ ~ (bits < 8) /\ Len(s.dst) = room
    <2>1. DecodeDigit(room, s, c) = [s EXCEPT !.err = "ErrDstTooSmall"]
      BY <1>6, <1>10 DEF NoRoom
    <2> QED BY <1>2, <2>1 DEF DecoderStates
  <1>11. CASE s.err = "nil" /\ ~ (v < 0) /\ ~ (bits < 8) /\ Len(s.dst) # room
    <2>1. bits - 8 \in 0 .. 7 /\ buffer \in Nat /\ byte \in Byte
      BY <1>3, <1>4, <1>5, <1>11
    <2>2. DecodeDigit(room, s, c)
            = [s EXCEPT !.buffer = buffer, !.bitsLeft = bits - 8, !.dst = Append(@, byte)]
      BY <1>6, <1>11
    <2>3. Append(s.dst, byte) \in Seq(Byte)
      BY <1>2, <2>1
    <2> QED BY <1>2, <2>1, <2>2, <2>3 DEF DecoderStates
  <1> QED BY <1>7, <1>8, <1>9, <1>10, <1>11

(* A turn of the decoder's loop: the character is skipped or decoded. *)
Turn(room, s, c) == IF c \in Skipped THEN s ELSE DecodeDigit(room, s, c)

(* What the decoder returns is what its turns leave. *)
LEMMA DecoderTurns ==
    ASSUME NEW room \in Nat, NEW text \in Seq(Byte)
    PROVE  \E A : /\ A[0] = DecoderStart /\ A[Len(text)] = DecodeBase32(room, text)
                  /\ \A i \in 1 .. Len(text) : A[i] = Turn(room, A[i - 1], text[i])
  <1> DEFINE n == Len(text)
             b == DecoderStart
             A == CHOOSE after : after = [i \in 0 .. Len(text) |->
                      IF i = 0 THEN [err |-> "nil", buffer |-> 0, bitsLeft |-> 0, dst |-> <<>>]
                      ELSE IF text[i] \in Skipped THEN after[i - 1]
                      ELSE DecodeDigit(room, after[i - 1], text[i])]
             g == [i \in 1 .. n |-> [s \in DecoderStates |-> Turn(room, s, text[i])]]
  <1>1. n \in Nat
    OBVIOUS
  <1>2. DecodeBase32(room, text) = A[n]
    BY DEF DecodeBase32
  <1>3. b \in DecoderStates
    BY DEF DecoderStart, DecoderStates
  <1>4. ASSUME NEW i \in 1 .. n, NEW s \in DecoderStates PROVE Turn(room, s, text[i]) \in DecoderStates
    <2>1. text[i] \in Byte
      BY ElementOfSeq
    <2>2. DecodeDigit(room, s, text[i]) \in DecoderStates
      BY <2>1, TurnTyped
    <2> QED BY <2>2 DEF Turn
  <1>5. /\ g \in [1 .. n -> [DecoderStates -> DecoderStates]]
        /\ \A i \in 1 .. n : \A s \in DecoderStates : g[i][s] = Turn(room, s, text[i])
    BY <1>4
  <1>6. \E h : Turns(h, DecoderStates, b, n, g)
    <2> HIDE DEF A, b, g, n
    <2> QED BY <1>1, <1>3, <1>5, LoopExists
  <1>7. PICK h : Turns(h, DecoderStates, b, n, g)
    BY <1>6
  <1> HIDE DEF g
  <1>8. h \in [0 .. n -> DecoderStates] /\ h[0] = b /\ \A i \in 1 .. n : h[i] = g[i][h[i - 1]]
    <2> HIDE DEF A, b, n
    <2> QED BY <1>7 DEF Turns
  <1>9. ASSUME NEW i \in 1 .. n PROVE h[i] = Turn(room, h[i - 1], text[i])
    <2>1. i - 1 \in 0 .. n
      BY <1>1
    <2>2. h[i - 1] \in DecoderStates
      BY <1>8, <2>1
    <2> QED BY <1>5, <1>8, <2>2
  <1>10. h = [i \in 0 .. Len(text) |->
                IF i = 0 THEN [err |-> "nil", buffer |-> 0, bitsLeft |-> 0, dst |-> <<>>]
                ELSE IF text[i] \in Skipped THEN h[i - 1] ELSE DecodeDigit(room, h[i - 1], text[i])]
    <2>1. \A i \in 0 .. n : i = 0 \/ i \in 1 .. n
      BY <1>1
    <2> QED BY <1>8, <1>9, <2>1 DEF Turn, DecoderStart
  <1>11. A = [i \in 0 .. Len(text) |->
                IF i = 0 THEN [err |-> "nil", buffer |-> 0, bitsLeft |-> 0, dst |-> <<>>]
                ELSE IF text[i] \in Skipped THEN A[i - 1] ELSE DecodeDigit(room, A[i - 1], text[i])]
    BY <1>10
  <1> HIDE DEF A
  <1>12. A[0] = b /\ \A i \in 1 .. n : A[i] = Turn(room, A[i - 1], text[i])
    <2>1. \A i \in 0 .. n :
             A[i] = IF i = 0 THEN [err |-> "nil", buffer |-> 0, bitsLeft |-> 0, dst |-> <<>>]
                    ELSE IF text[i] \in Skipped THEN A[i - 1] ELSE DecodeDigit(room, A[i - 1], text[i])
      BY <1>11, Zenon
    <2>2. 0 \in 0 .. n /\ \A i \in 1 .. n : i \in 0 .. n /\ i # 0
      BY <1>1
    <2>3. \A i \in 1 .. n : A[i] = Turn(room, A[i - 1], text[i])
      BY <2>1, <2>2, Zenon DEF Turn
    <2> QED BY <2>1, <2>2, <2>3, Zenon DEF DecoderStart
  <1> QED BY <1>2, <1>12

(* The bytes of the secret, and the zero bits behind them. *)
ByteAt(bytes, j) == IF j <= Len(bytes) THEN bytes[j] ELSE 0

(* The byte in which digit d + 1 begins. *)
ByteOf(d) == 1 + (5 * d) \div 8

DigitAt(bytes, d) ==
    ((256 * ByteAt(bytes, ByteOf(d)) + ByteAt(bytes, ByteOf(d) + 1)) \div 2 ^ (16 - 5 - ((5 * d) % 8))) % 32

(* Bytes are bytes. *)
LEMMA ByteAtTyped ==
    ASSUME NEW bytes \in Seq(Byte), NEW j \in Nat \ {0}
    PROVE  ByteAt(bytes, j) \in 0 .. 255
  <1>1. CASE j <= Len(bytes)
    <2>1. j \in 1 .. Len(bytes)
      BY <1>1
    <2>2. bytes[j] \in Byte
      BY <2>1, ElementOfSeq
    <2> QED BY <1>1, <2>2 DEF ByteAt, Byte
  <1>2. CASE ~ (j <= Len(bytes))
    BY <1>2 DEF ByteAt
  <1> QED BY <1>1, <1>2

(* The encoder writes the bits of the bytes, five at a time. *)
LEMMA DigitsWritten ==
    ASSUME NEW bytes \in Seq(Byte)
    PROVE  /\ DOMAIN Digits(5, bytes) = 1 .. (8 * Len(bytes) + 4) \div 5
           /\ \A d \in Nat : d < (8 * Len(bytes) + 4) \div 5 =>
                 /\ ByteOf(d) \in 1 .. Len(bytes)
                 /\ Digits(5, bytes)[d + 1] = DigitAt(bytes, d)
                 /\ DigitAt(bytes, d) \in 0 .. 31
  <1> DEFINE B == Len(bytes)
             D == (8 * Len(bytes) + 4) \div 5
  <1>0. B \in Nat /\ D \in Nat /\ (8 * Len(bytes) + 5 - 1) \div 5 = D
    OBVIOUS
  <1>1. DOMAIN Digits(5, bytes) = 1 .. D
    BY <1>0 DEF Digits
  <1>2. ASSUME NEW d \in Nat, d < D
        PROVE  /\ ByteOf(d) \in 1 .. Len(bytes)
               /\ Digits(5, bytes)[d + 1] = DigitAt(bytes, d)
               /\ DigitAt(bytes, d) \in 0 .. 31
    <2>1. 5 * d <= 8 * B - 1
      BY <1>0, <1>2
    <2>2. ByteOf(d) \in 1 .. B
      BY <1>0, <2>1 DEF ByteOf
    <2>3. d + 1 \in 1 .. (8 * Len(bytes) + 5 - 1) \div 5 /\ (d + 1) - 1 = d
      BY <1>0, <1>2
    <2> DEFINE k == ByteOf(d)
               pair == 256 * bytes[k] + (IF k < Len(bytes) THEN bytes[k + 1] ELSE 0)
    <2>4. Digits(5, bytes)[d + 1] = (pair \div 2 ^ (16 - 5 - ((5 * d) % 8))) % 2 ^ 5
      <3>1. Digits(5, bytes)[d + 1]
              = LET bit == 5 * ((d + 1) - 1)
                    j   == 1 + bit \div 8
                    two == 256 * bytes[j] + (IF j < Len(bytes) THEN bytes[j + 1] ELSE 0)
                IN  (two \div 2 ^ (16 - 5 - (bit % 8))) % 2 ^ 5
        BY <2>3 DEF Digits
      <3> QED BY <2>3, <3>1, Zenon DEF ByteOf
    <2>5. pair = 256 * ByteAt(bytes, k) + ByteAt(bytes, k + 1)
      <3>1. k \in 1 .. B /\ (k < B <=> k + 1 <= B)
        BY <1>0, <2>2
      <3> HIDE DEF k
      <3> QED BY <3>1 DEF ByteAt
    <2>6. Digits(5, bytes)[d + 1] = DigitAt(bytes, d)
      <3>1. 2 ^ 5 = 32
        BY Powers
      <3> QED BY <2>4, <2>5, <3>1, Zenon DEF DigitAt
    <2>7. DigitAt(bytes, d) \in 0 .. 31
      <3> DEFINE p == 2 ^ (16 - 5 - ((5 * d) % 8))
                 a == ByteAt(bytes, ByteOf(d))
                 c == ByteAt(bytes, ByteOf(d) + 1)
      <3>1. a \in 0 .. 255 /\ c \in 0 .. 255
        <4>1. ByteOf(d) \in Nat \ {0} /\ ByteOf(d) + 1 \in Nat \ {0}
          BY <1>0, <2>2
        <4> QED BY <4>1, ByteAtTyped
      <3>2. p \in Nat \ {0}
        <4>1. (5 * d) % 8 \in 0 .. 7
          OBVIOUS
        <4> DEFINE e == (5 * d) % 8
        <4>2. e \in 0 .. 7
          BY <4>1
        <4> HIDE DEF e
        <4>3. \/ 16 - 5 - e = 11 \/ 16 - 5 - e = 10 \/ 16 - 5 - e = 9 \/ 16 - 5 - e = 8
              \/ 16 - 5 - e = 7 \/ 16 - 5 - e = 6 \/ 16 - 5 - e = 5 \/ 16 - 5 - e = 4
          BY <4>2
        <4>4. \/ 2 ^ (16 - 5 - e) = 2 ^ 11 \/ 2 ^ (16 - 5 - e) = 2 ^ 10 \/ 2 ^ (16 - 5 - e) = 2 ^ 9
              \/ 2 ^ (16 - 5 - e) = 2 ^ 8 \/ 2 ^ (16 - 5 - e) = 2 ^ 7 \/ 2 ^ (16 - 5 - e) = 2 ^ 6
              \/ 2 ^ (16 - 5 - e) = 2 ^ 5 \/ 2 ^ (16 - 5 - e) = 2 ^ 4
          BY <4>3, Zenon
        <4>5. 2 ^ (16 - 5 - e) \in Nat \ {0}
          BY <4>4, Powers
        <4> QED BY <4>5 DEF e
      <3>3. DigitAt(bytes, d) = ((256 * a + c) \div p) % 32
        BY DEF DigitAt
      <3> HIDE DEF p, a, c
      <3> DEFINE f == (256 * a + c) \div p
      <3>4. f \in Int
        BY <3>1, <3>2
      <3> HIDE DEF f
      <3>5. f % 32 \in 0 .. 31
        BY <3>4
      <3> QED BY <3>3, <3>5, Zenon DEF f
    <2> QED BY <2>2, <2>6, <2>7
  <1> QED BY <1>1, <1>2

(* The decoder's table turns a character, in either case, into its digit. *)
LEMMA DigitsRead ==
    ASSUME NEW bytes \in Seq(Byte), NEW d \in Nat, d < Len(EncodeBase32(bytes)),
           NEW x \in {EncodeBase32(bytes)[d + 1], ToLower(EncodeBase32(bytes))[d + 1]}
    PROVE  b32Inverse(x) = DigitAt(bytes, d)
  <1> DEFINE D == (8 * Len(bytes) + 4) \div 5
             g == Digits(5, bytes)
             b32 == EncodeBase32(bytes)
             v == DigitAt(bytes, d)
             y == IF v < 26 THEN 65 + v ELSE 24 + v
  <1>0. D \in Nat /\ DOMAIN g = 1 .. D
    BY DigitsWritten
  <1>1. b32 = [i \in 1 .. D |-> IF g[i] < 26 THEN 65 + g[i] ELSE 24 + g[i]]
    BY <1>0 DEF EncodeBase32
  <1>2. Len(b32) = D /\ DOMAIN b32 = 1 .. D
    <2> HIDE DEF D, b32, g
    <2> QED BY <1>0, <1>1
  <1>3. d < D /\ d + 1 \in 1 .. D
    BY <1>0, <1>2
  <1>4. g[d + 1] = v /\ v \in 0 .. 31
    BY <1>3, DigitsWritten
  <1>5. b32[d + 1] = y
    <2> HIDE DEF D, g, v, b32
    <2> QED BY <1>1, <1>3, <1>4
  <1>6. ToLower(b32)[d + 1] = IF y \in 65 .. 90 THEN y + 32 ELSE y
    <2> HIDE DEF D, y, b32
    <2> QED BY <1>2, <1>3, <1>5 DEF ToLower
  <1>7. x = y \/ x = IF y \in 65 .. 90 THEN y + 32 ELSE y
    BY <1>5, <1>6
  <1> HIDE DEF v
  <1>8. CASE v < 26
    <2>1. x = 65 + v \/ x = 97 + v
      BY <1>4, <1>7, <1>8
    <2>2. b32Inverse(x) = v
      <3>1. CASE x = 65 + v
        <4>1. x \in 65 .. 90 /\ x - 65 = v
          BY <1>4, <1>8, <3>1
        <4> QED BY <4>1, InverseTable
      <3>2. CASE x = 97 + v
        <4>1. x \in 97 .. 122 /\ x - 97 = v
          BY <1>4, <1>8, <3>2
        <4> QED BY <4>1, InverseTable
      <3> QED BY <2>1, <3>1, <3>2
    <2> QED BY <2>2 DEF v
  <1>9. CASE ~ (v < 26)
    <2>1. x \in 50 .. 55 /\ x - 24 = v
      BY <1>4, <1>7, <1>9, SMTT(40)
    <2>2. b32Inverse(x) = v
      BY <2>1, InverseTable
    <2> QED BY <2>2 DEF v
  <1> QED BY <1>8, <1>9

(* The decoder behind d digits: it has the bytes that they fill, and in its *)
(* buffer the bits that begin the next one; or there was no room for them.  *)
Reading(bytes, room, s, d) ==
    /\ s.err = "nil"
    /\ Len(s.dst) = (5 * d) \div 8 /\ Len(s.dst) <= room
    /\ s.bitsLeft = (5 * d) % 8
    /\ \A j \in 1 .. Len(s.dst) : s.dst[j] = ByteAt(bytes, j)
    /\ s.buffer % 2 ^ s.bitsLeft = ByteAt(bytes, Len(s.dst) + 1) \div 2 ^ (8 - s.bitsLeft)

Full(room, s, d) == s.err = "ErrDstTooSmall" /\ (5 * d) \div 8 > room

Decoded(bytes, room, s, d) == s \in DecoderStates /\ (Reading(bytes, room, s, d) \/ Full(room, s, d))

(* The next digit leaves the decoder behind one digit more. *)
LEMMA DigitDecoded ==
    ASSUME NEW bytes \in Seq(Byte), NEW room \in Nat, NEW s, NEW d \in Nat, NEW x \in Byte,
           Decoded(bytes, room, s, d), b32Inverse(x) = DigitAt(bytes, d), DigitAt(bytes, d) \in 0 .. 31
    PROVE  Decoded(bytes, room, DecodeDigit(room, s, x), d + 1)
  <1> DEFINE t == DecodeDigit(room, s, x)
             v == DigitAt(bytes, d)
             w == (s.buffer * 32 + v) % 32768
             bits == s.bitsLeft
             k == Len(s.dst) + 1
             b == ByteAt(bytes, k)
             c == ByteAt(bytes, k + 1)
  <1>1. /\ s \in DecoderStates /\ s.buffer \in Nat /\ bits \in 0 .. 7 /\ s.dst \in Seq(Byte)
        /\ Reading(bytes, room, s, d) \/ Full(room, s, d)
    BY DEF Decoded, DecoderStates
  <1>2. t \in DecoderStates
    BY <1>1, TurnTyped
  <1>3. t = IF s.err # "nil" THEN s
            ELSE IF bits + 5 < 8 THEN [s EXCEPT !.buffer = w, !.bitsLeft = bits + 5]
            ELSE IF Len(s.dst) = room THEN [s EXCEPT !.err = "ErrDstTooSmall"]
            ELSE [s EXCEPT !.buffer = w, !.bitsLeft = (bits + 5) - 8,
                           !.dst = Append(@, (w \div 2 ^ ((bits + 5) - 8)) % 256)]
    <2> DEFINE y == b32Inverse(x)
               buffer == (s.buffer * 32 + y) % 2 ^ 15
               byte == (buffer \div 2 ^ ((bits + 5) - 8)) % 256
    <2>1. t = IF s.err # "nil" THEN s
              ELSE IF y < 0 THEN [s EXCEPT !.err = "ErrInvalidSecret"]
              ELSE IF bits + 5 < 8 THEN [s EXCEPT !.buffer = buffer, !.bitsLeft = bits + 5]
              ELSE IF Len(s.dst) = room THEN [s EXCEPT !.err = "ErrDstTooSmall"]
              ELSE [s EXCEPT !.buffer = buffer, !.bitsLeft = (bits + 5) - 8, !.dst = Append(@, byte)]
      BY DEF DecodeDigit, NoRoom
    <2>2. 2 ^ 15 = 32768
      BY Powers
    <2>3. y = v
      OBVIOUS
    <2>4. buffer = w
      <3> HIDE DEF y, v
      <3> QED BY <2>2, <2>3
    <2>5. ~ (v < 0)
      <3>1. v \in 0 .. 31
        OBVIOUS
      <3> HIDE DEF v
      <3> QED BY <3>1
    <2> HIDE DEF buffer, w, t, bits, v, y
    <2> QED BY <2>1, <2>3, <2>4, <2>5
  <1>4. CASE Full(room, s, d)
    <2>1. (5 * (d + 1)) \div 8 >= (5 * d) \div 8
      OBVIOUS
    <2>2. (5 * d) \div 8 > room /\ s.err = "ErrDstTooSmall"
      BY <1>4 DEF Full
    <2>3. (5 * (d + 1)) \div 8 > room
      BY <2>1, <2>2
    <2>4. t = s
      BY <1>3, <2>2
    <2> HIDE DEF t
    <2> QED BY <1>2, <2>2, <2>3, <2>4 DEF Decoded, Full, t
  <1>5. CASE Reading(bytes, room, s, d)
    <2>1. /\ s.err = "nil" /\ Len(s.dst) = (5 * d) \div 8 /\ Len(s.dst) <= room /\ bits = (5 * d) % 8
          /\ \A j \in 1 .. Len(s.dst) : s.dst[j] = ByteAt(bytes, j)
          /\ s.buffer % 2 ^ bits = b \div 2 ^ (8 - bits)
      BY <1>5 DEF Reading
    <2>2. /\ 5 * (d + 1) = 5 * d + 5 /\ (5 * d) % 8 \in 0 .. 7 /\ (5 * d) \div 8 \in Nat
          /\ 5 * d = 8 * ((5 * d) \div 8) + ((5 * d) % 8)
      OBVIOUS
    <2>3. b \in 0 .. 255 /\ c \in 0 .. 255
      <3>1. k \in Nat \ {0} /\ k + 1 \in Nat \ {0}
        BY <2>1, <2>2
      <3> QED BY <3>1, ByteAtTyped
    <2>4. v = ((256 * b + c) \div 2 ^ (16 - 5 - bits)) % 32
      <3>1. ByteOf(d) = k
        BY <2>1, <2>2 DEF ByteOf
      <3> QED BY <2>1, <3>1, Zenon DEF DigitAt
    <2>5. v \in Nat /\ w \in Nat
      <3>1. v \in 0 .. 31
        OBVIOUS
      <3> HIDE DEF v
      <3> QED BY <1>1, <3>1
    <2>6. Fits(b, c, s.buffer, v, w, 2 ^ bits, 2 ^ (8 - bits), 2 ^ (16 - 5 - bits))
      <3>1. s.buffer % 2 ^ bits = b \div 2 ^ (8 - bits)
        BY <2>1
      <3> HIDE DEF b, c, v
      <3> QED BY <2>4, <3>1 DEF Fits
    <2> HIDE DEF v, w, b, c
    <2>7. /\ bits + 5 < 8 => Begun(b, w, 2 ^ (bits + 5), 2 ^ (8 - (bits + 5)))
          /\ ~ (bits + 5 < 8) => Filled(b, c, w, 2 ^ ((bits + 5) - 8), 2 ^ (8 - ((bits + 5) - 8)))
      BY <1>1, <2>3, <2>5, <2>6, DigitShifts
    <2> HIDE DEF t, bits, k
    <2>8. CASE bits + 5 < 8
      <3>1. t = [s EXCEPT !.buffer = w, !.bitsLeft = bits + 5]
        BY <1>3, <2>1, <2>8
      <3>2. t.err = "nil" /\ t.dst = s.dst /\ t.bitsLeft = bits + 5 /\ t.buffer = w
        BY <1>1, <2>1, <3>1 DEF DecoderStates
      <3>3. (5 * (d + 1)) \div 8 = (5 * d) \div 8 /\ (5 * (d + 1)) % 8 = bits + 5
        BY <2>1, <2>2, <2>8
      <3>4. w % 2 ^ (bits + 5) = b \div 2 ^ (8 - (bits + 5))
        BY <2>7, <2>8 DEF Begun
      <3>5. Reading(bytes, room, t, d + 1)
        BY <2>1, <3>2, <3>3, <3>4, Zenon DEF Reading, b, k
      <3> QED BY <1>2, <3>5 DEF Decoded, t
    <2>9. CASE ~ (bits + 5 < 8)
      <3>1. (5 * (d + 1)) \div 8 = (5 * d) \div 8 + 1 /\ (5 * (d + 1)) % 8 = (bits + 5) - 8
        BY <2>1, <2>2, <2>9
      <3>2. CASE Len(s.dst) = room
        <4>1. t = [s EXCEPT !.err = "ErrDstTooSmall"]
          BY <1>3, <2>1, <2>9, <3>2
        <4>2. t.err = "ErrDstTooSmall"
          BY <1>1, <4>1 DEF DecoderStates
        <4>3. (5 * (d + 1)) \div 8 > room
          BY <2>1, <2>2, <3>1, <3>2
        <4> QED BY <1>2, <4>2, <4>3 DEF Decoded, Full, t
      <3>3. CASE Len(s.dst) # room
        <4> DEFINE q == (w \div 2 ^ ((bits + 5) - 8)) % 256
        <4>1. t = [s EXCEPT !.buffer = w, !.bitsLeft = (bits + 5) - 8, !.dst = Append(@, q)]
          BY <1>3, <2>1, <2>9, <3>3
        <4>2. q = b /\ w % 2 ^ ((bits + 5) - 8) = c \div 2 ^ (8 - ((bits + 5) - 8))
          BY <2>7, <2>9 DEF Filled
        <4> HIDE DEF q
        <4>3. /\ t.err = "nil" /\ t.dst = Append(s.dst, b) /\ t.bitsLeft = (bits + 5) - 8
              /\ t.buffer = w
          BY <1>1, <2>1, <4>1, <4>2 DEF DecoderStates
        <4>4. /\ Len(t.dst) = k /\ \A j \in 1 .. Len(s.dst) : t.dst[j] = s.dst[j]
              /\ t.dst[k] = b
          <5>1. b \in Byte
            BY <2>3 DEF Byte
          <5> QED BY <1>1, <4>3, <5>1 DEF k
        <4>5. Len(t.dst) = (5 * (d + 1)) \div 8 /\ Len(t.dst) <= room
          BY <2>1, <2>2, <3>1, <3>3, <4>4 DEF k
        <4>6. ASSUME NEW j \in 1 .. Len(t.dst) PROVE t.dst[j] = ByteAt(bytes, j)
          <5>1. j \in 1 .. Len(s.dst) \/ j = k
            <6> DEFINE m == Len(s.dst)
            <6>1. m \in Nat /\ k = m + 1 /\ j \in 1 .. k
              BY <2>1, <2>2, <4>4 DEF k
            <6> HIDE DEF m
            <6>2. j \in 1 .. m \/ j = k
              BY <6>1
            <6> QED BY <6>2 DEF m
          <5> QED BY <2>1, <4>4, <5>1 DEF b
        <4>7. Reading(bytes, room, t, d + 1)
          <5>1. c = ByteAt(bytes, Len(t.dst) + 1)
            BY <4>4 DEF c
          <5> QED BY <3>1, <4>2, <4>3, <4>5, <4>6, <5>1, Zenon DEF Reading
        <4> QED BY <1>2, <4>7 DEF Decoded, t
      <3> QED BY <3>2, <3>3
    <2> QED BY <2>8, <2>9
  <1> QED BY <1>1, <1>4, <1>5

(* The digits among the first n characters of a text. *)
Typed(text, n) == Cardinality({i \in 1 .. n : text[i] \notin Skipped})

(* One more character is one more digit, or none. *)
LEMMA OneMoreTyped ==
    ASSUME NEW text \in Seq(Byte), NEW n \in Nat
    PROVE  /\ Typed(text, n) \in Nat /\ Typed(text, 0) = 0
           /\ text[n + 1] \in Skipped => Typed(text, n + 1) = Typed(text, n)
           /\ text[n + 1] \notin Skipped => Typed(text, n + 1) = Typed(text, n) + 1
  <1> DEFINE S(m) == {i \in 1 .. m : text[i] \notin Skipped}
  <1>1. IsFiniteSet(S(n))
    <2>1. IsFiniteSet(1 .. n)
      BY FS_Interval
    <2> QED BY <2>1, FS_Subset
  <1>2. Typed(text, n) \in Nat
    BY <1>1, FS_CardinalityType DEF Typed
  <1>3. Typed(text, 0) = 0
    <2>1. S(0) = {}
      OBVIOUS
    <2> QED BY <2>1, FS_EmptySet DEF Typed
  <1>4. ASSUME text[n + 1] \in Skipped PROVE Typed(text, n + 1) = Typed(text, n)
    <2>1. S(n + 1) = S(n)
      BY <1>4
    <2> QED BY <2>1 DEF Typed
  <1>5. ASSUME text[n + 1] \notin Skipped PROVE Typed(text, n + 1) = Typed(text, n) + 1
    <2>1. S(n + 1) = S(n) \cup {n + 1} /\ n + 1 \notin S(n)
      BY <1>5
    <2>2. Cardinality(S(n) \cup {n + 1}) = Cardinality(S(n)) + 1
      BY <1>1, <2>1, FS_AddElement
    <2> QED BY <2>1, <2>2 DEF Typed
  <1> QED BY <1>2, <1>3, <1>4, <1>5

(* There are never more of them than in the whole text. *)
LEMMA TypedGrows ==
    ASSUME NEW text \in Seq(Byte), NEW n \in 0 .. Len(text)
    PROVE  Typed(text, n) <= Typed(text, Len(text))
  <1> DEFINE S(m) == {i \in 1 .. m : text[i] \notin Skipped}
  <1>1. S(n) \subseteq S(Len(text))
    BY LenProperties
  <1>2. IsFiniteSet(S(Len(text)))
    <2>1. IsFiniteSet(1 .. Len(text))
      BY LenProperties, FS_Interval
    <2> QED BY <2>1, FS_Subset
  <1> HIDE DEF S
  <1>3. Cardinality(S(n)) <= Cardinality(S(Len(text)))
    BY <1>1, <1>2, FS_Subset
  <1> QED BY <1>3 DEF Typed, S

(* The encoder writes as many digits as the bits need. *)
LEMMA EncodedLength ==
    ASSUME NEW bytes \in Seq(Byte)
    PROVE  Len(EncodeBase32(bytes)) = (8 * Len(bytes) + 4) \div 5
  <1> DEFINE D == (8 * Len(bytes) + 4) \div 5
             g == Digits(5, bytes)
             b32 == EncodeBase32(bytes)
  <1>1. D \in Nat /\ DOMAIN g = 1 .. D
    BY DigitsWritten
  <1>2. b32 = [i \in 1 .. D |-> IF g[i] < 26 THEN 65 + g[i] ELSE 24 + g[i]]
    BY <1>1 DEF EncodeBase32
  <1> HIDE DEF D, b32, g
  <1>3. Len(b32) = D
    BY <1>1, <1>2
  <1> QED BY <1>3 DEF D, b32

(* A decoder reads every text that spells a secret. *)
LEMMA SpelledIsDecoded ==
    ASSUME NEW bytes \in Seq(Byte), NEW text \in Seq(Byte), NEW room \in Nat, Spells(text, bytes)
    PROVE  Decoded(bytes, room, DecodeBase32(room, text), Len(EncodeBase32(bytes)))
  <1> DEFINE b32 == EncodeBase32(bytes)
             n == Len(text)
  <1>0. n \in Nat
    OBVIOUS
  <1>1. /\ Typed(text, n) = Len(b32)
        /\ \A i \in DOMAIN text :
              text[i] \notin Skipped => text[i] \in {b32[Typed(text, i)], ToLower(b32)[Typed(text, i)]}
    BY DEF Spells, Typed
  <1>2. PICK A : /\ A[0] = DecoderStart /\ A[n] = DecodeBase32(room, text)
                 /\ \A i \in 1 .. n : A[i] = Turn(room, A[i - 1], text[i])
    BY DecoderTurns
  <1> DEFINE At == {i \in Nat : i <= n => Decoded(bytes, room, A[i], Typed(text, i))}
  <1> HIDE DEF n
  <1>3. 0 \in At
    <2> DEFINE s == DecoderStart
    <2>1. s \in DecoderStates
      BY DEF DecoderStart, DecoderStates
    <2>2. s.err = "nil" /\ s.dst = <<>> /\ s.bitsLeft = 0 /\ s.buffer = 0
      BY DEF DecoderStart
    <2>3. Len(s.dst) = 0 /\ (5 * 0) \div 8 = 0 /\ (5 * 0) % 8 = 0 /\ 0 <= room
      BY <2>2
    <2>4. s.buffer % 2 ^ s.bitsLeft = ByteAt(bytes, Len(s.dst) + 1) \div 2 ^ (8 - s.bitsLeft)
      <3>1. ByteAt(bytes, 1) \in 0 .. 255
        <4>1. 1 \in Nat \ {0}
          OBVIOUS
        <4> QED BY <4>1, ByteAtTyped, Zenon
      <3>2. 8 - s.bitsLeft = 8 /\ Len(s.dst) + 1 = 1
        BY <2>2, <2>3
      <3>3. 2 ^ s.bitsLeft = 1 /\ 2 ^ (8 - s.bitsLeft) = 256
        BY <2>2, <3>2, Powers
      <3> DEFINE a == ByteAt(bytes, 1)
      <3>4. a \in 0 .. 255
        BY <3>1
      <3> HIDE DEF a
      <3>5. 0 % 1 = a \div 256
        BY <3>4
      <3> QED BY <2>2, <3>2, <3>3, <3>5 DEF a
    <2> HIDE DEF s
    <2>5. Reading(bytes, room, s, 0)
      <3>1. \A j \in 1 .. Len(s.dst) : s.dst[j] = ByteAt(bytes, j)
        BY <2>3
      <3> QED BY <2>2, <2>3, <2>4, <3>1, Zenon DEF Reading
    <2>6. Typed(text, 0) = 0
      BY OneMoreTyped
    <2> QED BY <1>2, <2>1, <2>5, <2>6 DEF Decoded, s
  <1>4. ASSUME NEW i \in Nat, i \in At PROVE i + 1 \in At
    <2>0. SUFFICES ASSUME i + 1 <= n PROVE Decoded(bytes, room, A[i + 1], Typed(text, i + 1))
      OBVIOUS
    <2> DEFINE d == Typed(text, i)
    <2>1. /\ i + 1 \in 1 .. n /\ (i + 1) - 1 = i /\ Decoded(bytes, room, A[i], d)
          /\ i + 1 \in 0 .. n
      BY <1>0, <1>4, <2>0
    <2>2. A[i + 1] = Turn(room, A[i], text[i + 1])
      BY <1>2, <2>1
    <2>3. d \in Nat
      BY OneMoreTyped
    <2>4. CASE text[i + 1] \in Skipped
      <3>1. Typed(text, i + 1) = d
        BY <2>4, OneMoreTyped
      <3> QED BY <2>1, <2>2, <2>4, <3>1 DEF Turn
    <2>5. CASE text[i + 1] \notin Skipped
      <3>1. Typed(text, i + 1) = d + 1
        BY <2>5, OneMoreTyped
      <3>2. d + 1 <= Len(b32)
        BY <1>1, <2>1, <3>1, TypedGrows DEF n
      <3>3. d < Len(b32)
        <4>1. Len(b32) \in Nat
          BY EncodedLength
        <4> HIDE DEF d, b32
        <4> QED BY <2>3, <3>2, <4>1
      <3>4. text[i + 1] \in Byte /\ i + 1 \in DOMAIN text
        BY <2>1, ElementOfSeq DEF n
      <3>5. text[i + 1] \in {b32[d + 1], ToLower(b32)[d + 1]}
        BY <1>1, <2>5, <3>1, <3>4
      <3>6. b32Inverse(text[i + 1]) = DigitAt(bytes, d)
        <4> HIDE DEF d
        <4> QED BY <2>3, <3>3, <3>5, DigitsRead
      <3>7. DigitAt(bytes, d) \in 0 .. 31
        <4>1. d < (8 * Len(bytes) + 4) \div 5
          BY <3>3, EncodedLength
        <4> HIDE DEF d
        <4> QED BY <2>3, <4>1, DigitsWritten
      <3>8. Decoded(bytes, room, DecodeDigit(room, A[i], text[i + 1]), d + 1)
        <4> HIDE DEF d
        <4> QED BY <2>1, <2>3, <3>4, <3>6, <3>7, DigitDecoded
      <3> QED BY <2>2, <2>5, <3>1, <3>8 DEF Turn
    <2> QED BY <2>4, <2>5
  <1>5. n \in At
    <2> HIDE DEF At
    <2> QED BY <1>0, <1>3, <1>4, InductionOnSet
  <1>6. Decoded(bytes, room, A[n], Typed(text, n))
    BY <1>0, <1>5
  <1> QED BY <1>1, <1>2, <1>6

(* It has the whole secret behind the last digit, or there was no room.     *)
LEMMA SpelledReadsBack ==
    ASSUME NEW bytes \in Seq(Byte), NEW text \in Seq(Byte), NEW room \in Nat, Spells(text, bytes)
    PROVE  LET r == DecodeBase32(room, text)
           IN  IF room < Len(bytes) THEN r.err = "ErrDstTooSmall" ELSE r.err = "nil" /\ r.dst = bytes
  <1> DEFINE D == Len(EncodeBase32(bytes))
             r == DecodeBase32(room, text)
             B == Len(bytes)
  <1>1. Decoded(bytes, room, r, D)
    BY SpelledIsDecoded
  <1>2. D = (8 * B + 4) \div 5 /\ B \in Nat
    BY EncodedLength
  <1> HIDE DEF r, D, B
  <1>3. (5 * D) \div 8 = B
    <2>1. 5 * D >= 8 * B /\ 5 * D <= 8 * B + 4 /\ D \in Nat
      BY <1>2
    <2> QED BY <1>2, <2>1
  <1>4. IF room < B THEN r.err = "ErrDstTooSmall" ELSE r.err = "nil" /\ r.dst = bytes
    <2>1. CASE Full(room, r, D)
      BY <1>2, <1>3, <2>1 DEF Full
    <2>2. CASE Reading(bytes, room, r, D)
      <3>1. r.err = "nil" /\ Len(r.dst) = B /\ B <= room /\ \A j \in 1 .. B : r.dst[j] = ByteAt(bytes, j)
        BY <1>3, <2>2 DEF Reading
      <3>2. r.dst \in Seq(Byte)
        BY <1>1 DEF Decoded, DecoderStates
      <3>3. \A j \in 1 .. B : r.dst[j] = bytes[j]
        BY <1>2, <3>1 DEF ByteAt, B
      <3>4. r.dst = bytes
        BY <3>1, <3>2, <3>3, SeqEqual DEF B
      <3> QED BY <1>2, <3>1, <3>4
    <2> QED BY <1>1, <2>1, <2>2 DEF Decoded
  <1> QED BY <1>4 DEF r, B

(* DecodeBase32 of src/base32.go: whatever secret a text spells, in any     *)
(* case and with any separators, comes back whole or the caller hears that  *)
(* there is no room for it.                                                 *)
THEOREM SecretsReadBack == Spec => []SecretReadsBack
  <1>1. JobInv => SecretReadsBack
    <2> SUFFICES ASSUME JobInv, Doing("secret") PROVE SecretReadsBack
      BY DEF SecretReadsBack
    <2>1. PICK s \in Secrets : job = [kind |-> "secret", in |-> s]
      BY DEF JobInv, Doing
    <2>2. s.bytes \in Seq(Byte) /\ s.text \in Seq(Byte) /\ s.room \in Nat /\ Spells(s.text, s.bytes)
      BY SecretsAssumption
    <2>3. LET r == DecodeBase32(s.room, s.text)
          IN  IF s.room < Len(s.bytes) THEN r.err = "ErrDstTooSmall" ELSE r.err = "nil" /\ r.dst = s.bytes
      BY <2>2, SpelledReadsBack
    <2> QED BY <2>1, <2>3 DEF SecretReadsBack
  <1> QED BY <1>1, JobInvariant, PTL

-----------------------------------------------------------------------------
(* URIs. *)

(* The characters of an encoded string: none of them is reserved. *)
Encoded == Unreserved \cup {Percent}

(* What is written for one byte. *)
Escape(b) == IF ShouldNotEncode(b) THEN <<b>> ELSE <<Percent, HexUpper(b \div 16), HexUpper(b % 16)>>

(* It is one unreserved character, or two hexadecimal digits behind '%'. *)
LEMMA EscapeForms ==
    ASSUME NEW b \in Byte
    PROVE  /\ Escape(b) \in Seq(Encoded)
           /\ \/ Escape(b) = <<b>> /\ b # Percent
              \/ \E g \in 48 .. 70, h \in 48 .. 70 :
                    Escape(b) = <<Percent, g, h>> /\ 16 * Unhex(g) + Unhex(h) = b
  <1>0. b \in 0 .. 255
    BY DEF Byte
  <1>1. CASE ShouldNotEncode(b)
    <2>1. b \in Encoded /\ b # Percent
      BY <1>0, <1>1 DEF Encoded, Unreserved, ShouldNotEncode, Percent
    <2>2. Escape(b) = <<b>>
      BY <1>1 DEF Escape
    <2> QED BY <2>1, <2>2
  <1>2. CASE ~ ShouldNotEncode(b)
    <2> DEFINE x == b \div 16
               y == b % 16
               g == HexUpper(x)
               h == HexUpper(y)
    <2>1. x \in 0 .. 15 /\ y \in 0 .. 15 /\ b = 16 * x + y
      BY <1>0
    <2> HIDE DEF x, y
    <2>2. g \in 48 .. 57 \cup 65 .. 70 /\ Unhex(g) = x
      BY <2>1 DEF HexUpper, Unhex
    <2>3. h \in 48 .. 57 \cup 65 .. 70 /\ Unhex(h) = y
      BY <2>1 DEF HexUpper, Unhex
    <2>4. Escape(b) = <<Percent, g, h>>
      BY <1>2 DEF Escape, x, y
    <2> HIDE DEF g, h
    <2>5. g \in Encoded /\ h \in Encoded /\ Percent \in Encoded
      BY <2>2, <2>3 DEF Encoded, Unreserved, ShouldNotEncode, Byte
    <2>6. <<Percent, g, h>> \in Seq(Encoded)
      BY <2>5
    <2>7. g \in 48 .. 70 /\ h \in 48 .. 70 /\ 16 * Unhex(g) + Unhex(h) = b
      BY <2>1, <2>2, <2>3
    <2> QED BY <2>4, <2>6, <2>7
  <1> QED BY <1>1, <1>2

(* An encoded string has none of the characters that structure a URI. *)
LEMMA EncodedTyped ==
    /\ Encoded \subseteq Byte /\ Byte \subseteq Char
    /\ Amp \notin Encoded /\ Equals \notin Encoded /\ Query \notin Encoded
    /\ Unreserved \subseteq Encoded /\ Percent \notin Unreserved
  <1>1. Char = 0 .. 275
    BY CharRange
  <1> QED BY <1>1 DEF Encoded, Unreserved, ShouldNotEncode, Byte, Amp, Equals, Query, Percent

(* PercentEncode writes the escapes one behind the other. *)
LEMMA EncodeTurns ==
    ASSUME NEW s \in Seq(Byte)
    PROVE  LET r == [i \in 1 .. Len(s) |-> Escape(s[i])]
           IN  /\ r \in Seq(Seq(Encoded)) /\ r \in Seq(Seq(Char)) /\ Len(r) = Len(s)
               /\ PercentEncode(s) = FlattenSeq(r) /\ PercentEncode(s) \in Seq(Encoded)
  <1> DEFINE r == [i \in 1 .. Len(s) |-> Escape(s[i])]
  <1>0. Len(s) \in Nat /\ DOMAIN s = 1 .. Len(s) /\ \A i \in 1 .. Len(s) : s[i] \in Byte
    BY ElementOfSeq, LenProperties
  <1>1. \A i \in 1 .. Len(s) : Escape(s[i]) \in Seq(Encoded)
    BY <1>0, EscapeForms
  <1>2. r \in [1 .. Len(s) -> Seq(Encoded)]
    BY <1>1
  <1>3. PercentEncode(s) = FlattenSeq(r)
    BY <1>0 DEF PercentEncode, Escape
  <1> HIDE DEF r
  <1>4. r \in Seq(Seq(Encoded)) /\ Len(r) = Len(s)
    BY <1>0, <1>2, SeqDef, LenProperties
  <1>5. Encoded \in SUBSET Char
    BY EncodedTyped
  <1>6. r \in Seq(Seq(Char))
    <2>1. Seq(Encoded) \subseteq Seq(Char)
      BY <1>5, SeqMonotone
    <2> QED BY <1>4, <2>1, SeqMonotone
  <1>7. FlattenSeq(r) \in Seq(Encoded)
    BY <1>4, <1>5, FlattenOver
  <1> QED BY <1>3, <1>4, <1>6, <1>7 DEF r

(* What a reader of an encoded string has found. *)
Partial == [out : Seq(Int), escape : Seq(Int)]

PartialStart == [out |-> <<>>, escape |-> <<>>]

(* A character adds to what was found. *)
LEMMA NextTyped ==
    ASSUME NEW d \in Partial, NEW c \in Int
    PROVE  DecodeNext(d, c) \in Partial
  <1>0. d.out \in Seq(Int) /\ d.escape \in Seq(Int)
    BY DEF Partial
  <1>1. CASE Len(d.escape) = 2
    <2>1. d.escape[2] \in Int
      BY <1>0, <1>1, ElementOfSeq
    <2>2. 16 * Unhex(d.escape[2]) + Unhex(c) \in Int
      BY <2>1 DEF Unhex
    <2>3. DecodeNext(d, c) = [out |-> Append(d.out, 16 * Unhex(d.escape[2]) + Unhex(c)), escape |-> <<>>]
      BY <1>1 DEF DecodeNext
    <2> QED BY <1>0, <2>2, <2>3 DEF Partial
  <1>2. CASE Len(d.escape) # 2
    <2>1. Append(d.out, c) \in Seq(Int) /\ Append(d.escape, c) \in Seq(Int)
      BY <1>0
    <2> QED BY <1>0, <1>2, <2>1 DEF DecodeNext, Partial
  <1> QED BY <1>1, <1>2

(* What PercentDecode returns is what its turns leave. *)
LEMMA DecodeTurns ==
    ASSUME NEW text \in Seq(Int)
    PROVE  \E A : /\ A[0] = PartialStart /\ A[Len(text)].out = PercentDecode(text)
                  /\ \A i \in 1 .. Len(text) : A[i] = DecodeNext(A[i - 1], text[i])
  <1> DEFINE n == Len(text)
             b == PartialStart
             A == CHOOSE after : after = [i \in 0 .. Len(text) |->
                      IF i = 0 THEN [out |-> <<>>, escape |-> <<>>] ELSE DecodeNext(after[i - 1], text[i])]
             g == [i \in 1 .. n |-> [s \in Partial |-> DecodeNext(s, text[i])]]
  <1>1. n \in Nat
    OBVIOUS
  <1>2. PercentDecode(text) = A[n].out
    BY DEF PercentDecode
  <1>3. b \in Partial
    BY DEF PartialStart, Partial
  <1>4. ASSUME NEW i \in 1 .. n, NEW s \in Partial PROVE DecodeNext(s, text[i]) \in Partial
    <2>1. text[i] \in Int
      BY ElementOfSeq
    <2> QED BY <2>1, NextTyped
  <1>5. /\ g \in [1 .. n -> [Partial -> Partial]]
        /\ \A i \in 1 .. n : \A s \in Partial : g[i][s] = DecodeNext(s, text[i])
    BY <1>4
  <1>6. \E h : Turns(h, Partial, b, n, g)
    <2> HIDE DEF A, b, g, n
    <2> QED BY <1>1, <1>3, <1>5, LoopExists
  <1>7. PICK h : Turns(h, Partial, b, n, g)
    BY <1>6
  <1> HIDE DEF g
  <1>8. h \in [0 .. n -> Partial] /\ h[0] = b /\ \A i \in 1 .. n : h[i] = g[i][h[i - 1]]
    <2> HIDE DEF A, b, n
    <2> QED BY <1>7 DEF Turns
  <1>9. ASSUME NEW i \in 1 .. n PROVE h[i] = DecodeNext(h[i - 1], text[i])
    <2>1. i - 1 \in 0 .. n
      BY <1>1
    <2>2. h[i - 1] \in Partial
      BY <1>8, <2>1
    <2> QED BY <1>5, <1>8, <2>2
  <1>10. h = [i \in 0 .. Len(text) |->
                IF i = 0 THEN [out |-> <<>>, escape |-> <<>>] ELSE DecodeNext(h[i - 1], text[i])]
    <2>1. \A i \in 0 .. n : i = 0 \/ i \in 1 .. n
      BY <1>1
    <2> QED BY <1>8, <1>9, <2>1 DEF PartialStart
  <1>11. A = [i \in 0 .. Len(text) |->
                IF i = 0 THEN [out |-> <<>>, escape |-> <<>>] ELSE DecodeNext(A[i - 1], text[i])]
    BY <1>10
  <1> HIDE DEF A
  <1>12. A[0] = b /\ \A i \in 1 .. n : A[i] = DecodeNext(A[i - 1], text[i])
    <2>1. \A i \in 0 .. n :
             A[i] = IF i = 0 THEN [out |-> <<>>, escape |-> <<>>] ELSE DecodeNext(A[i - 1], text[i])
      BY <1>11, Zenon
    <2>2. 0 \in 0 .. n /\ \A i \in 1 .. n : i \in 0 .. n /\ i # 0
      BY <1>1
    <2>3. \A i \in 1 .. n : A[i] = DecodeNext(A[i - 1], text[i])
      BY <2>1, <2>2, Zenon
    <2> QED BY <2>1, <2>2, <2>3, Zenon DEF PartialStart
  <1> QED BY <1>2, <1>12

(* The reader has read the first i of the bytes. *)
ReadTo(d, s, i) == d = [out |-> SubSeq(s, 1, i), escape |-> <<>>]

(* The string so far. *)
LEMMA PartialOut ==
    ASSUME NEW o, NEW e, NEW d, d = [out |-> o, escape |-> e]
    PROVE  d.out = o
  OBVIOUS

(* A character of its own reads as itself. *)
LEMMA PlainRead ==
    ASSUME NEW s \in Seq(Int), NEW i \in Nat, i + 1 <= Len(s), NEW d, ReadTo(d, s, i), s[i + 1] # Percent
    PROVE  ReadTo(DecodeNext(d, s[i + 1]), s, i + 1)
  <1>1. d = [out |-> SubSeq(s, 1, i), escape |-> <<>>]
    BY DEF ReadTo
  <1>2. d.out = SubSeq(s, 1, i) /\ d.escape = <<>>
    BY <1>1
  <1>3. DecodeNext(d, s[i + 1]) = [out |-> Append(SubSeq(s, 1, i), s[i + 1]), escape |-> <<>>]
    BY <1>2 DEF DecodeNext
  <1>4. Append(SubSeq(s, 1, i), s[i + 1]) = SubSeq(s, 1, i + 1)
    OBVIOUS
  <1> QED BY <1>3, <1>4 DEF ReadTo

(* An escape reads as the byte it stands for. *)
LEMMA EscapeRead ==
    ASSUME NEW s \in Seq(Int), NEW i \in Nat, i + 1 <= Len(s), NEW d, ReadTo(d, s, i),
           NEW g \in Int, NEW h \in Int, 16 * Unhex(g) + Unhex(h) = s[i + 1]
    PROVE  ReadTo(DecodeNext(DecodeNext(DecodeNext(d, Percent), g), h), s, i + 1)
  <1> DEFINE o == SubSeq(s, 1, i)
  <1>1. d = [out |-> o, escape |-> <<>>]
    BY DEF ReadTo
  <1>2. Percent \in Int
    BY DEF Percent
  <1> DEFINE P == <<Percent>>
             Q == <<Percent, g>>
  <1>3. /\ P = Append(<<>>, Percent) /\ Q = Append(P, g) /\ Len(P) = 1 /\ P # <<>>
        /\ Len(Q) = 2 /\ Q[2] = g
    BY <1>2, OneCharacter
  <1> HIDE DEF P, Q, o
  <1>4. DecodeNext(d, Percent) = [out |-> o, escape |-> P]
    <2>1. d.escape = <<>> /\ d.out = o /\ Len(d.escape) # 2
      BY <1>1
    <2> QED BY <1>3, <2>1 DEF DecodeNext
  <1>5. DecodeNext([out |-> o, escape |-> P], g) = [out |-> o, escape |-> Q]
    BY <1>3 DEF DecodeNext
  <1>6. DecodeNext([out |-> o, escape |-> Q], h) = [out |-> Append(o, s[i + 1]), escape |-> <<>>]
    BY <1>3 DEF DecodeNext
  <1>7. Append(o, s[i + 1]) = SubSeq(s, 1, i + 1)
    BY DEF o
  <1> QED BY <1>4, <1>5, <1>6, <1>7, Zenon DEF ReadTo

(* A string without escapes reads as itself. *)
LEMMA PlainDecodes ==
    ASSUME NEW s \in Seq(Int), \A i \in 1 .. Len(s) : s[i] # Percent
    PROVE  PercentDecode(s) = s
  <1> DEFINE n == Len(s)
  <1>0. n \in Nat
    OBVIOUS
  <1>1. PICK A : /\ A[0] = PartialStart /\ A[n].out = PercentDecode(s)
                 /\ \A i \in 1 .. n : A[i] = DecodeNext(A[i - 1], s[i])
    BY DecodeTurns
  <1> HIDE DEF n
  <1> DEFINE At == {i \in Nat : i <= n => ReadTo(A[i], s, i)}
  <1>2. 0 \in At
    <2>1. SubSeq(s, 1, 0) = <<>>
      OBVIOUS
    <2> QED BY <1>1, <2>1 DEF ReadTo, PartialStart
  <1>3. ASSUME NEW i \in Nat, i \in At PROVE i + 1 \in At
    <2>0. SUFFICES ASSUME i + 1 <= n PROVE ReadTo(A[i + 1], s, i + 1)
      OBVIOUS
    <2>1. i + 1 \in 1 .. n /\ (i + 1) - 1 = i /\ ReadTo(A[i], s, i)
      BY <1>0, <1>3, <2>0
    <2>2. A[i + 1] = DecodeNext(A[i], s[i + 1])
      BY <1>1, <2>1
    <2>3. s[i + 1] # Percent
      BY <2>1 DEF n
    <2> QED BY <2>0, <2>1, <2>2, <2>3, PlainRead DEF n
  <1>4. n \in At
    <2> HIDE DEF At
    <2> QED BY <1>0, <1>2, <1>3, InductionOnSet
  <1>5. A[n].out = SubSeq(s, 1, n)
    BY <1>0, <1>4 DEF ReadTo
  <1> QED BY <1>1, <1>5, SubSeqFull DEF n

(* What PercentEncode writes reads as what it was given. *)
LEMMA EncodedDecodes ==
    ASSUME NEW s \in Seq(Byte)
    PROVE  PercentDecode(PercentEncode(s)) = s
  <1> DEFINE n == Len(s)
             r == [i \in 1 .. Len(s) |-> Escape(s[i])]
             t == PercentEncode(s)
  <1>0. n \in Nat /\ \A i \in 1 .. n : s[i] \in Byte
    BY ElementOfSeq
  <1>1. r \in Seq(Seq(Char)) /\ Len(r) = n /\ t = FlattenSeq(r) /\ t \in Seq(Encoded)
    BY EncodeTurns
  <1>2. \A i \in 1 .. n : r[i] = Escape(s[i])
    OBVIOUS
  <1>i. Byte \subseteq Int /\ Encoded \subseteq Int
    <2>1. Byte \subseteq Int
      BY DEF Byte
    <2> QED BY <2>1, EncodedTyped
  <1>s. s \in Seq(Int) /\ t \in Seq(Int)
    <2> HIDE DEF t
    <2>1. t \in Seq(Encoded)
      BY <1>1
    <2> QED BY <1>i, <2>1, SeqMonotone
  <1> HIDE DEF r, n, t
  <1>3. PICK f \in [0 .. n -> Seq(Char)] :
               /\ f[0] = <<>> /\ FlattenSeq(r) = f[n]
               /\ \A i \in 1 .. n : f[i] = Cat(f[i - 1], r[i])
    BY <1>1, FlattenTurns
  <1>4. PICK A : /\ A[0] = PartialStart /\ A[Len(t)].out = PercentDecode(t)
                 /\ \A i \in 1 .. Len(t) : A[i] = DecodeNext(A[i - 1], t[i])
    BY <1>s, DecodeTurns
  <1> DEFINE At == {i \in Nat : i <= n => ReadTo(A[Len(f[i])], s, i)}
  <1>5. 0 \in At
    <2>1. SubSeq(s, 1, 0) = <<>> /\ Len(f[0]) = 0
      BY <1>3
    <2> QED BY <1>4, <2>1 DEF ReadTo, PartialStart
  <1>6. ASSUME NEW i \in Nat, i \in At PROVE i + 1 \in At
    <2>0. SUFFICES ASSUME i + 1 <= n PROVE ReadTo(A[Len(f[i + 1])], s, i + 1)
      OBVIOUS
    <2>1. /\ i + 1 \in 1 .. n /\ (i + 1) - 1 = i /\ ReadTo(A[Len(f[i])], s, i)
          /\ i \in 0 .. n /\ i < n /\ i + 1 <= Len(s)
      BY <1>0, <1>6, <2>0 DEF n
    <2> DEFINE b == s[i + 1]
               e == r[i + 1]
               m == Len(f[i])
    <2>2. b \in Byte /\ e = Escape(b) /\ f[i] \in Seq(Char) /\ e \in Seq(Char) /\ m \in Nat
      <3>1. b \in Byte /\ e = Escape(b)
        BY <1>0, <1>2, <2>1
      <3>2. f[i] \in Seq(Char)
        BY <1>3, <2>1
      <3>3. e \in Seq(Char)
        BY <1>1, <2>1, ElementOfSeq
      <3> QED BY <3>1, <3>2, <3>3
    <2>3. PICK x \in Seq(Char) : f[n] = Cat(f[i], Cat(e, x))
      <3>1. \A j \in 1 .. Len(r) : f[j] = Cat(f[j - 1], r[j])
        BY <1>1, <1>3
      <3>2. f \in [0 .. Len(r) -> Seq(Char)] /\ i \in 0 .. Len(r) /\ i < Len(r)
        BY <1>1, <1>3, <2>1
      <3> QED BY <1>1, <3>1, <3>2, TurnsContinue
    <2>4. f[i + 1] = Cat(f[i], e)
      BY <1>3, <2>1
    <2> HIDE DEF b, e, m
    <2>5. /\ Len(f[i + 1]) = m + Len(e) /\ Len(t) = m + Len(e) + Len(x)
          /\ \A j \in 1 .. Len(e) : t[m + j] = e[j]
      <3>1. f[n] = t
        BY <1>1, <1>3
      <3>2. /\ Len(Cat(f[i], e)) = Len(f[i]) + Len(e)
            /\ Len(Cat(f[i], Cat(e, x))) = Len(f[i]) + Len(e) + Len(x)
            /\ \A j \in 1 .. Len(e) : Cat(f[i], Cat(e, x))[Len(f[i]) + j] = e[j]
        <4> DEFINE a == f[i]
        <4>1. a \in Seq(Char) /\ e \in Seq(Char) /\ x \in Seq(Char)
          BY <2>2, Zenon
        <4> HIDE DEF a
        <4>2. /\ Len(Cat(a, e)) = Len(a) + Len(e)
              /\ Len(Cat(a, Cat(e, x))) = Len(a) + Len(e) + Len(x)
              /\ \A j \in 1 .. Len(e) : Cat(a, Cat(e, x))[Len(a) + j] = e[j]
          BY <4>1, PartInside
        <4> QED BY <4>2 DEF a
      <3> QED BY <2>3, <2>4, <3>1, <3>2, Zenon DEF m
    <2>6. ASSUME NEW j \in 1 .. Len(e) PROVE A[m + j] = DecodeNext(A[(m + j) - 1], e[j])
      <3>1. m + j \in 1 .. Len(t)
        <4>1. Len(e) \in Nat /\ Len(x) \in Nat
          BY <2>2
        <4> QED BY <2>2, <2>5, <4>1
      <3>2. A[m + j] = DecodeNext(A[(m + j) - 1], t[m + j])
        BY <1>4, <3>1
      <3>3. t[m + j] = e[j]
        BY <2>5
      <3> QED BY <3>2, <3>3, Zenon
    <2>7. CASE e = <<b>> /\ b # Percent
      <3>1. Len(e) = 1 /\ e[1] = b
        BY <2>7
      <3>2. A[m + 1] = DecodeNext(A[(m + 1) - 1], b) /\ (m + 1) - 1 = m
        BY <2>2, <2>6, <3>1
      <3>3. Len(f[i + 1]) = m + 1
        BY <2>5, <3>1
      <3>4. ReadTo(A[m], s, i)
        BY <2>1 DEF m
      <3>5. ReadTo(DecodeNext(A[m], s[i + 1]), s, i + 1)
        BY <1>s, <2>1, <2>7, <3>4, PlainRead DEF b
      <3> QED BY <3>2, <3>3, <3>5 DEF b
    <2>8. ASSUME NEW g \in 48 .. 70, NEW h \in 48 .. 70, e = <<Percent, g, h>>, 16 * Unhex(g) + Unhex(h) = b
          PROVE  ReadTo(A[Len(f[i + 1])], s, i + 1)
      <3>1. Len(e) = 3 /\ e[1] = Percent /\ e[2] = g /\ e[3] = h
        BY <2>8
      <3>2. A[m + 1] = DecodeNext(A[m], Percent)
        <4>1. A[m + 1] = DecodeNext(A[(m + 1) - 1], e[1]) /\ (m + 1) - 1 = m
          BY <2>2, <2>6, <3>1
        <4> QED BY <3>1, <4>1
      <3>3. A[m + 2] = DecodeNext(A[m + 1], g)
        <4>1. A[m + 2] = DecodeNext(A[(m + 2) - 1], e[2]) /\ (m + 2) - 1 = m + 1
          BY <2>2, <2>6, <3>1
        <4> QED BY <3>1, <4>1
      <3>4. A[m + 3] = DecodeNext(A[m + 2], h)
        <4>1. A[m + 3] = DecodeNext(A[(m + 3) - 1], e[3]) /\ (m + 3) - 1 = m + 2
          BY <2>2, <2>6, <3>1
        <4> QED BY <3>1, <4>1
      <3>5. Len(f[i + 1]) = m + 3
        BY <2>5, <3>1
      <3>6. ReadTo(A[m], s, i)
        BY <2>1 DEF m
      <3>7. g \in Int /\ h \in Int /\ 16 * Unhex(g) + Unhex(h) = s[i + 1]
        BY <2>8 DEF b
      <3>8. ReadTo(DecodeNext(DecodeNext(DecodeNext(A[m], Percent), g), h), s, i + 1)
        BY <1>s, <2>1, <3>6, <3>7, EscapeRead
      <3> QED BY <3>2, <3>3, <3>4, <3>5, <3>8
    <2> QED BY <2>2, <2>7, <2>8, EscapeForms
  <1>7. n \in At
    <2> HIDE DEF At
    <2> QED BY <1>0, <1>5, <1>6, InductionOnSet
  <1>8. f[n] = t /\ ReadTo(A[Len(f[n])], s, n)
    BY <1>0, <1>1, <1>3, <1>7
  <1>9. A[Len(t)].out = SubSeq(s, 1, n)
    <2>1. A[Len(t)] = [out |-> SubSeq(s, 1, n), escape |-> <<>>]
      BY <1>8, Zenon DEF ReadTo
    <2> QED BY <2>1, PartialOut, Zenon
  <1> QED BY <1>4, <1>9, SubSeqFull DEF n, t

(* UpTo returns the characters before the first c, wherever that is. *)
LEMMA UpToIs ==
    ASSUME NEW s \in Seq(Char), NEW c, NEW n \in 0 .. Len(s),
           \A j \in 1 .. n : s[j] # c, n = Len(s) \/ s[n + 1] = c
    PROVE  UpTo(s, c) = SubSeq(s, 1, n)
  <1>0. Len(s) \in Nat /\ n \in Nat
    OBVIOUS
  <1>1. PICK m \in 0 .. Len(s) : /\ UpTo(s, c) = SubSeq(s, 1, m)
                                 /\ \A j \in 1 .. m : s[j] # c
                                 /\ m = Len(s) \/ s[m + 1] = c
    BY UpToFirst
  <1>2. ~ (m < n)
    <2> SUFFICES ASSUME m < n PROVE FALSE
      OBVIOUS
    <2>1. m + 1 \in 1 .. n /\ m # Len(s)
      BY <1>0
    <2> QED BY <1>1, <2>1
  <1>3. ~ (n < m)
    <2> SUFFICES ASSUME n < m PROVE FALSE
      OBVIOUS
    <2>1. n + 1 \in 1 .. m /\ n # Len(s)
      BY <1>0
    <2> QED BY <1>1, <2>1
  <1>4. m = n
    BY <1>0, <1>2, <1>3
  <1> QED BY <1>1, <1>4

(* What is left of a string behind its first m characters. *)
LEMMA FromProperties ==
    ASSUME NEW s \in Seq(Char), NEW m \in Nat, m <= Len(s)
    PROVE  /\ From(s, m + 1) \in Seq(Char) /\ Len(From(s, m + 1)) = Len(s) - m
           /\ \A i \in 1 .. Len(s) - m : From(s, m + 1)[i] = s[m + i]
  <1> DEFINE l == m + 1
             n == Len(s)
             z == SubSeq(s, l, n)
  <1>1. n \in Nat /\ l \in Nat
    OBVIOUS
  <1>2. \A i \in l .. n : s[i] \in Char
    <2>1. \A i \in 1 .. n : s[i] \in Char
      BY ElementOfSeq
    <2> QED BY <1>1, <2>1
  <1>3. From(s, m + 1) = z
    BY DEF From
  <1> HIDE DEF n
  <1>4. /\ z \in Seq(Char) /\ Len(z) = IF l <= n THEN n - l + 1 ELSE 0
        /\ \A i \in 1 .. n - l + 1 : z[i] = s[l + i - 1]
    <2> HIDE DEF l
    <2>1. l \in Int /\ n \in Int
      BY <1>1
    <2>2. \A u, v : u \in Int /\ v \in Int /\ (\A i \in u .. v : s[i] \in Char)
                    => /\ SubSeq(s, u, v) \in Seq(Char)
                       /\ Len(SubSeq(s, u, v)) = IF u <= v THEN v - u + 1 ELSE 0
                       /\ \A i \in 1 .. v - u + 1 : SubSeq(s, u, v)[i] = s[u + i - 1]
      <3> HIDE DEF Char
      <3> TAKE u, v
      <3> HAVE u \in Int /\ v \in Int /\ (\A i \in u .. v : s[i] \in Char)
      <3> QED BY SubSeqProperties
    <2> QED BY <1>2, <2>1, <2>2, Zenon
  <1> HIDE DEF z
  <1>5. Len(z) = n - m
    BY <1>1, <1>4 DEF n
  <1>6. ASSUME NEW i \in 1 .. n - m PROVE z[i] = s[m + i]
    <2>1. i \in 1 .. n - l + 1 /\ l + i - 1 = m + i
      BY <1>1
    <2> HIDE DEF l
    <2> QED BY <1>4, <2>1, Zenon
  <1> QED BY <1>3, <1>4, <1>5, <1>6 DEF n

(* The characters of a string in two parts, and the parts. *)
LEMMA TwoParts ==
    ASSUME NEW a \in Seq(Char), NEW y \in Seq(Char)
    PROVE  LET k == Cat(a, y)
           IN  /\ k \in Seq(Char) /\ Len(k) = Len(a) + Len(y) /\ Len(a) \in Nat /\ Len(y) \in Nat
               /\ \A i \in 1 .. Len(a) : k[i] = a[i]
               /\ \A i \in 1 .. Len(y) : k[Len(a) + i] = y[i]
               /\ \A n \in 0 .. Len(a) : SubSeq(k, 1, n) = SubSeq(a, 1, n)
               /\ From(k, Len(a) + 1) = y
  <1> DEFINE k == Cat(a, y)
  <1>0. Len(a) \in Nat /\ Len(y) \in Nat
    OBVIOUS
  <1>1. /\ k \in Seq(Char) /\ Len(k) = Len(a) + Len(y)
        /\ \A i \in 1 .. Len(a) + Len(y) : k[i] = IF i <= Len(a) THEN a[i] ELSE y[i - Len(a)]
    BY CatProperties
  <1> HIDE DEF k
  <1>2. ASSUME NEW i \in 1 .. Len(a) PROVE k[i] = a[i]
    <2>1. i \in 1 .. Len(a) + Len(y) /\ i <= Len(a)
      BY <1>0
    <2> QED BY <1>1, <2>1
  <1>3. ASSUME NEW i \in 1 .. Len(y) PROVE k[Len(a) + i] = y[i]
    <2>1. Len(a) + i \in 1 .. Len(a) + Len(y) /\ ~ (Len(a) + i <= Len(a)) /\ (Len(a) + i) - Len(a) = i
      BY <1>0
    <2> QED BY <1>1, <2>1
  <1>4. ASSUME NEW n \in 0 .. Len(a) PROVE SubSeq(k, 1, n) = SubSeq(a, 1, n)
    <2>1. SubSeq(k, 1, n) \in Seq(Char) /\ Len(SubSeq(k, 1, n)) = n /\ \A i \in 1 .. n : SubSeq(k, 1, n)[i] = k[i]
      <3>1. n \in Nat /\ n <= Len(k)
        BY <1>0, <1>1
      <3> QED BY <1>1, <3>1
    <2>2. SubSeq(a, 1, n) \in Seq(Char) /\ Len(SubSeq(a, 1, n)) = n /\ \A i \in 1 .. n : SubSeq(a, 1, n)[i] = a[i]
      <3>1. n \in Nat /\ n <= Len(a)
        BY <1>0
      <3> QED BY <3>1
    <2>3. \A i \in 1 .. n : k[i] = a[i]
      BY <1>0, <1>2
    <2> HIDE DEF Char
    <2> QED BY <2>1, <2>2, <2>3, SeqEqual
  <1>5. From(k, Len(a) + 1) = y
    <2> DEFINE z == From(k, Len(a) + 1)
    <2>1. /\ z \in Seq(Char) /\ Len(z) = Len(y)
          /\ \A i \in 1 .. Len(y) : z[i] = k[Len(a) + i]
      <3>1. Len(a) <= Len(k) /\ Len(k) - Len(a) = Len(y)
        BY <1>0, <1>1
      <3>2. /\ z \in Seq(Char) /\ Len(z) = Len(k) - Len(a)
            /\ \A i \in 1 .. Len(k) - Len(a) : z[i] = k[Len(a) + i]
        BY <1>0, <1>1, <3>1, FromProperties, Zenon
      <3> HIDE DEF z
      <3> QED BY <3>1, <3>2
    <2> HIDE DEF z
    <2>2. z = y
      BY <1>3, <2>1, SeqEqual
    <2> QED BY <2>2 DEF z
  <1> QED BY <1>0, <1>1, <1>2, <1>3, <1>4, <1>5 DEF k

(* A part that begins with c, or is empty, does not change what is up to c. *)
LEMMA UpToExtended ==
    ASSUME NEW a \in Seq(Char), NEW y \in Seq(Char), NEW c, y = <<>> \/ y[1] = c
    PROVE  UpTo(Cat(a, y), c) = UpTo(a, c)
  <1> DEFINE k == Cat(a, y)
  <1>1. PICK n \in 0 .. Len(a) : /\ UpTo(a, c) = SubSeq(a, 1, n)
                                 /\ \A j \in 1 .. n : a[j] # c
                                 /\ n = Len(a) \/ a[n + 1] = c
    BY UpToFirst
  <1>2. /\ k \in Seq(Char) /\ Len(k) = Len(a) + Len(y) /\ Len(a) \in Nat /\ Len(y) \in Nat
        /\ \A i \in 1 .. Len(a) : k[i] = a[i]
        /\ \A i \in 1 .. Len(y) : k[Len(a) + i] = y[i]
        /\ SubSeq(k, 1, n) = SubSeq(a, 1, n)
    BY TwoParts
  <1> HIDE DEF k
  <1>3. n \in 0 .. Len(k) /\ \A j \in 1 .. n : k[j] # c
    BY <1>1, <1>2
  <1>4. n = Len(k) \/ k[n + 1] = c
    <2>1. CASE n # Len(a)
      <3>1. n + 1 \in 1 .. Len(a)
        BY <1>2, <2>1
      <3> QED BY <1>1, <1>2, <2>1, <3>1
    <2>2. CASE n = Len(a) /\ y = <<>>
      BY <1>2, <2>2
    <2>3. CASE n = Len(a) /\ y # <<>>
      <3>1. 1 \in 1 .. Len(y) /\ y[1] = c
        BY <1>2, <2>3
      <3> QED BY <1>2, <2>3, <3>1
    <2> QED BY <2>1, <2>2, <2>3
  <1>5. UpTo(k, c) = SubSeq(k, 1, n)
    BY <1>2, <1>3, <1>4, UpToIs, ZenonT(60)
  <1> QED BY <1>1, <1>2, <1>5 DEF k

(* All of a string without c is up to c. *)
LEMMA UpToAll ==
    ASSUME NEW a \in Seq(Char), NEW c, \A i \in 1 .. Len(a) : a[i] # c
    PROVE  UpTo(a, c) = a
  <1>1. Len(a) \in 0 .. Len(a)
    OBVIOUS
  <1>2. UpTo(a, c) = SubSeq(a, 1, Len(a))
    BY <1>1, UpToIs
  <1> QED BY <1>2, SubSeqFull

(* The pairs behind the separators of a query. *)
Separators(t) == {j \in 1 .. Len(t) : t[j] = Amp}

PairAt(t, j) == ReadPair(UpTo(From(t, j + 1), Amp))

Pairs(t) == {PairAt(t, j) : j \in Separators(t)}

(* They and the first one are the query. *)
LEMMA QueryPairs ==
    ASSUME NEW s \in Seq(Char)
    PROVE  ReadQuery(s) = {ReadPair(UpTo(s, Amp))} \cup Pairs(s)
  <1>1. From(s, 0 + 1) = s
    <2>1. SubSeq(s, 1, Len(s)) = s
      BY SubSeqFull
    <2> QED BY <2>1 DEF From
  <1>2. PairAt(s, 0) = ReadPair(UpTo(s, Amp))
    BY <1>1 DEF PairAt
  <1>3. {j \in DOMAIN s : s[j] = Amp} = Separators(s)
    BY DEF Separators
  <1>4. ReadQuery(s) = {PairAt(s, i) : i \in {0} \cup Separators(s)}
    BY <1>3, Zenon DEF ReadQuery, PairAt
  <1> QED BY <1>2, <1>4, Zenon DEF Pairs

(* The pairs of a query in two parts, the second empty or at a separator. *)
LEMMA PairsUnion ==
    ASSUME NEW g \in Seq(Char), NEW y \in Seq(Char), y = <<>> \/ y[1] = Amp
    PROVE  Pairs(Cat(g, y)) = Pairs(g) \cup Pairs(y)
  <1> DEFINE k == Cat(g, y)
  <1>0. Len(g) \in Nat /\ Len(y) \in Nat
    OBVIOUS
  <1>1. /\ k \in Seq(Char) /\ Len(k) = Len(g) + Len(y)
        /\ \A i \in 1 .. Len(g) : k[i] = g[i]
        /\ \A i \in 1 .. Len(y) : k[Len(g) + i] = y[i]
    BY TwoParts
  <1> HIDE DEF k
  <1>2. ASSUME NEW j \in 1 .. Len(g) PROVE PairAt(k, j) = PairAt(g, j)
    <2> DEFINE b == From(g, j + 1)
               z == From(k, j + 1)
               w == Cat(b, y)
    <2>1. j \in Nat /\ j <= Len(g) /\ j <= Len(k)
      BY <1>0, <1>1
    <2>2. b \in Seq(Char) /\ Len(b) = Len(g) - j /\ \A i \in 1 .. Len(g) - j : b[i] = g[j + i]
      BY <2>1, FromProperties, Zenon
    <2>3. z \in Seq(Char) /\ Len(z) = Len(k) - j /\ \A i \in 1 .. Len(k) - j : z[i] = k[j + i]
      BY <1>1, <2>1, FromProperties, Zenon
    <2> HIDE DEF b, z
    <2>4. /\ w \in Seq(Char) /\ Len(w) = Len(b) + Len(y)
          /\ \A i \in 1 .. Len(b) : w[i] = b[i]
          /\ \A i \in 1 .. Len(y) : w[Len(b) + i] = y[i]
      BY <2>2, TwoParts
    <2>5. UpTo(w, Amp) = UpTo(b, Amp)
      BY <2>2, UpToExtended
    <2> HIDE DEF w
    <2>6. Len(z) = Len(w)
      BY <1>0, <1>1, <2>1, <2>2, <2>3, <2>4
    <2>7. ASSUME NEW i \in 1 .. Len(z) PROVE z[i] = w[i]
      <3>1. z[i] = k[j + i]
        BY <2>3
      <3>2. CASE i <= Len(g) - j
        <4>1. i \in 1 .. Len(g) - j /\ i \in 1 .. Len(b) /\ j + i \in 1 .. Len(g)
          BY <1>0, <2>1, <2>2, <3>2
        <4>2. w[i] = b[i] /\ b[i] = g[j + i] /\ k[j + i] = g[j + i]
          BY <1>1, <2>2, <2>4, <4>1
        <4> QED BY <3>1, <4>2
      <3>3. CASE ~ (i <= Len(g) - j)
        <4> DEFINE m == i - Len(b)
        <4>1. m \in 1 .. Len(y) /\ Len(b) + m = i /\ Len(g) + m = j + i
          BY <1>0, <1>1, <2>1, <2>2, <2>3, <3>3
        <4> HIDE DEF m
        <4>2. w[Len(b) + m] = y[m] /\ k[Len(g) + m] = y[m]
          BY <1>1, <2>4, <4>1
        <4> QED BY <3>1, <4>1, <4>2
      <3> QED BY <3>2, <3>3
    <2>8. z = w
      <3> HIDE DEF Char
      <3> QED BY <2>3, <2>4, <2>6, <2>7, SeqEqual
    <2>9. UpTo(From(k, j + 1), Amp) = UpTo(From(g, j + 1), Amp)
      BY <2>5, <2>8 DEF b, z
    <2> QED BY <2>9 DEF PairAt
  <1>3. ASSUME NEW j \in 1 .. Len(y) PROVE PairAt(k, Len(g) + j) = PairAt(y, j)
    <2> DEFINE m == Len(g) + j
               b == From(y, j + 1)
               z == From(k, m + 1)
    <2>1. j \in Nat /\ j <= Len(y) /\ m \in Nat /\ m <= Len(k)
      BY <1>0, <1>1
    <2> HIDE DEF m
    <2>2. b \in Seq(Char) /\ Len(b) = Len(y) - j /\ \A i \in 1 .. Len(y) - j : b[i] = y[j + i]
      BY <2>1, FromProperties, Zenon
    <2>3. z \in Seq(Char) /\ Len(z) = Len(k) - m /\ \A i \in 1 .. Len(k) - m : z[i] = k[m + i]
      BY <1>1, <2>1, FromProperties, Zenon
    <2> HIDE DEF b, z
    <2>4. Len(z) = Len(b)
      BY <1>0, <1>1, <2>1, <2>2, <2>3 DEF m
    <2>5. ASSUME NEW i \in 1 .. Len(z) PROVE z[i] = b[i]
      <3>1. i \in 1 .. Len(k) - m /\ i \in 1 .. Len(y) - j
        BY <2>2, <2>3, <2>4
      <3>2. j + i \in 1 .. Len(y) /\ m + i = Len(g) + (j + i)
        BY <1>0, <2>1, <3>1 DEF m
      <3>3. k[Len(g) + (j + i)] = y[j + i]
        BY <1>1, <3>2
      <3> QED BY <2>2, <2>3, <3>1, <3>2, <3>3
    <2>6. z = b
      <3> HIDE DEF Char
      <3> QED BY <2>2, <2>3, <2>4, <2>5, SeqEqual
    <2> QED BY <2>6 DEF PairAt, b, z, m
  <1>4. Pairs(k) \subseteq Pairs(g) \cup Pairs(y)
    <2> SUFFICES ASSUME NEW j \in Separators(k) PROVE PairAt(k, j) \in Pairs(g) \cup Pairs(y)
      BY Zenon DEF Pairs
    <2>0. j \in 1 .. Len(k) /\ k[j] = Amp
      BY DEF Separators
    <2>1. CASE j <= Len(g)
      <3>1. j \in 1 .. Len(g)
        BY <1>0, <1>1, <2>0, <2>1
      <3>2. j \in Separators(g)
        BY <1>1, <2>0, <3>1 DEF Separators
      <3> QED BY <1>2, <3>1, <3>2, Zenon DEF Pairs
    <2>2. CASE ~ (j <= Len(g))
      <3> DEFINE m == j - Len(g)
      <3>1. m \in 1 .. Len(y) /\ Len(g) + m = j
        BY <1>0, <1>1, <2>0, <2>2
      <3> HIDE DEF m
      <3>2. m \in Separators(y)
        BY <1>1, <2>0, <3>1 DEF Separators
      <3>3. PairAt(k, j) = PairAt(y, m)
        BY <1>3, <3>1
      <3> QED BY <3>2, <3>3, Zenon DEF Pairs
    <2> QED BY <2>1, <2>2
  <1>5. Pairs(g) \subseteq Pairs(k)
    <2> SUFFICES ASSUME NEW j \in Separators(g) PROVE PairAt(g, j) \in Pairs(k)
      BY Zenon DEF Pairs
    <2>0. j \in 1 .. Len(g) /\ g[j] = Amp
      BY DEF Separators
    <2>1. j \in 1 .. Len(k) /\ k[j] = Amp
      BY <1>0, <1>1, <2>0
    <2>2. j \in Separators(k)
      BY <2>1 DEF Separators
    <2> QED BY <1>2, <2>0, <2>2, Zenon DEF Pairs
  <1>6. Pairs(y) \subseteq Pairs(k)
    <2> SUFFICES ASSUME NEW j \in Separators(y) PROVE PairAt(y, j) \in Pairs(k)
      BY Zenon DEF Pairs
    <2>0. j \in 1 .. Len(y) /\ y[j] = Amp
      BY DEF Separators
    <2>1. Len(g) + j \in 1 .. Len(k) /\ k[Len(g) + j] = Amp
      BY <1>0, <1>1, <2>0
    <2>2. Len(g) + j \in Separators(k)
      BY <2>1 DEF Separators
    <2> QED BY <1>3, <2>0, <2>2, Zenon DEF Pairs
  <1> QED BY <1>4, <1>5, <1>6 DEF k

(* A pair is read as its name and the decoded value. *)
LEMMA PairRead ==
    ASSUME NEW w \in Char \ {Equals}, NEW v \in Seq(Char)
    PROVE  ReadPair(Cat(<<w, Equals>>, v)) = << <<w>>, PercentDecode(v) >>
  <1> DEFINE a == <<w, Equals>>
             k == Cat(a, v)
  <1>1. Equals \in Char
    BY CharRange DEF Equals
  <1>2. a \in Seq(Char) /\ Len(a) = 2 /\ a[1] = w /\ a[2] = Equals
    BY <1>1
  <1> HIDE DEF a
  <1>3. /\ k \in Seq(Char) /\ Len(k) = Len(a) + Len(v) /\ Len(v) \in Nat
        /\ \A i \in 1 .. Len(a) : k[i] = a[i]
        /\ From(k, Len(a) + 1) = v
    BY <1>2, TwoParts
  <1> HIDE DEF k
  <1>4. k[1] = w /\ k[2] = Equals /\ Len(k) >= 2 /\ Len(k) \in Nat
    BY <1>2, <1>3
  <1>5. UpTo(k, Equals) = SubSeq(k, 1, 1)
    <2>1. 1 \in 0 .. Len(k) /\ (\A j \in 1 .. 1 : k[j] # Equals) /\ k[1 + 1] = Equals
      BY <1>4
    <2> QED BY <1>3, <2>1, UpToIs
  <1>6. SubSeq(k, 1, 1) = <<w>>
    <2> DEFINE z == SubSeq(k, 1, 1)
    <2>1. z \in Seq(Char) /\ Len(z) = 1 /\ z[1] = k[1]
      BY <1>3, <1>4
    <2>2. <<w>> \in Seq(Char) /\ Len(<<w>>) = 1 /\ <<w>>[1] = w
      OBVIOUS
    <2>3. \A i \in 1 .. Len(z) : z[i] = <<w>>[i]
      BY <1>4, <2>1, <2>2
    <2> HIDE DEF z, Char
    <2>4. z = <<w>>
      BY <2>1, <2>2, <2>3, SeqEqual
    <2> QED BY <2>4 DEF z
  <1>7. Len(<<w>>) + 2 = Len(a) + 1
    BY <1>2
  <1>8. ReadPair(k) = << UpTo(k, Equals), PercentDecode(From(k, Len(UpTo(k, Equals)) + 2)) >>
    BY Zenon DEF ReadPair
  <1>9. ReadPair(k) = << <<w>>, PercentDecode(From(k, Len(a) + 1)) >>
    BY <1>5, <1>6, <1>7, <1>8, Zenon
  <1> QED BY <1>3, <1>9, Zenon DEF k, a

(* A pair holds no separator. *)
LEMMA PairAlone ==
    ASSUME NEW w \in Char \ {Amp}, NEW v \in Seq(Encoded)
    PROVE  LET k == Cat(<<w, Equals>>, v)
           IN  k \in Seq(Char) /\ v \in Seq(Char) /\ \A i \in 1 .. Len(k) : k[i] # Amp
  <1> DEFINE a == <<w, Equals>>
             k == Cat(a, v)
  <1>1. Equals \in Char /\ Equals # Amp
    BY CharRange DEF Equals, Amp
  <1>2. a \in Seq(Char) /\ Len(a) = 2 /\ a[1] = w /\ a[2] = Equals
    BY <1>1
  <1>3. Encoded \subseteq Char /\ Amp \notin Encoded
    BY EncodedTyped
  <1>4. v \in Seq(Char) /\ Len(v) \in Nat /\ \A i \in 1 .. Len(v) : v[i] \in Encoded
    BY <1>3, SeqMonotone
  <1> HIDE DEF a
  <1>5. /\ k \in Seq(Char) /\ Len(k) = Len(a) + Len(v)
        /\ \A i \in 1 .. Len(a) : k[i] = a[i]
        /\ \A i \in 1 .. Len(v) : k[Len(a) + i] = v[i]
    BY <1>2, <1>4, TwoParts
  <1> HIDE DEF k
  <1>6. ASSUME NEW i \in 1 .. Len(k) PROVE k[i] # Amp
    <2>1. CASE i <= 2
      <3>1. i = 1 \/ i = 2
        BY <1>2, <1>4, <1>5, <2>1
      <3> QED BY <1>1, <1>2, <1>5, <3>1
    <2>2. CASE ~ (i <= 2)
      <3> DEFINE j == i - 2
      <3>1. j \in 1 .. Len(v) /\ i = Len(a) + j
        BY <1>2, <1>4, <1>5, <2>2
      <3> HIDE DEF j
      <3>2. k[i] = v[j] /\ v[j] \in Encoded
        BY <1>4, <1>5, <3>1
      <3> QED BY <1>3, <3>2
    <2> QED BY <2>1, <2>2
  <1> QED BY <1>4, <1>5, <1>6 DEF k, a

(* A separator and a pair. *)
LEMMA SeparatedPair ==
    ASSUME NEW w \in Char \ {Equals, Amp}, NEW v \in Seq(Encoded)
    PROVE  LET e == Cat(<<Amp, w, Equals>>, v)
           IN  e \in Seq(Char) /\ e[1] = Amp /\ Pairs(e) = {<< <<w>>, PercentDecode(v) >>}
  <1> DEFINE a == <<Amp>>
             b == <<w, Equals>>
             k == Cat(b, v)
             e == Cat(a, k)
  <1>1. Equals \in Char /\ Amp \in Char
    BY CharRange DEF Equals, Amp
  <1>2. a \in Seq(Char) /\ Len(a) = 1 /\ a[1] = Amp /\ b \in Seq(Char)
    BY <1>1
  <1>3. k \in Seq(Char) /\ v \in Seq(Char) /\ \A i \in 1 .. Len(k) : k[i] # Amp
    BY PairAlone
  <1>4. ReadPair(k) = << <<w>>, PercentDecode(v) >>
    BY <1>3, PairRead
  <1>5. Cat(<<Amp, w, Equals>>, v) = e
    <2>1. <<Amp, w, Equals>> = Cat(a, b)
      BY <1>1 DEF Cat
    <2> HIDE DEF a, b
    <2>2. Cat(Cat(a, b), v) = Cat(a, Cat(b, v))
      <3>1. a \in Seq(Char) /\ b \in Seq(Char) /\ v \in Seq(Char)
        BY <1>2, <1>3, Zenon
      <3> QED BY <3>1, Reassociated
    <2> QED BY <2>1, <2>2
  <1> HIDE DEF a, k
  <1>6. /\ e \in Seq(Char) /\ Len(e) = Len(a) + Len(k) /\ Len(k) \in Nat
        /\ \A i \in 1 .. Len(a) : e[i] = a[i]
        /\ \A i \in 1 .. Len(k) : e[Len(a) + i] = k[i]
        /\ From(e, Len(a) + 1) = k
    BY <1>2, <1>3, TwoParts
  <1> HIDE DEF e
  <1>7. Separators(e) = {1}
    <2>1. e[1] = Amp /\ 1 \in 1 .. Len(e)
      BY <1>2, <1>6
    <2>2. ASSUME NEW i \in 1 .. Len(e), i # 1 PROVE e[i] # Amp
      <3> DEFINE j == i - 1
      <3>1. j \in 1 .. Len(k) /\ i = Len(a) + j
        BY <1>2, <1>6, <2>2
      <3> HIDE DEF j
      <3> QED BY <1>3, <1>6, <3>1
    <2> QED BY <2>1, <2>2 DEF Separators
  <1>8. UpTo(k, Amp) = k
    BY <1>3, UpToAll
  <1>9. PairAt(e, 1) = << <<w>>, PercentDecode(v) >>
    BY <1>2, <1>4, <1>6, <1>8 DEF PairAt
  <1>10. Pairs(e) = {PairAt(e, 1)}
    BY <1>7, Zenon DEF Pairs
  <1>11. e[1] = Amp
    BY <1>2, <1>6
  <1> QED BY <1>5, <1>6, <1>9, <1>10, <1>11, Zenon

(* The names of the parameters, and what a reader gets of those that are set. *)
ParameterNames == {"issuer", "algorithm", "digits", "period", "counter"}

SetPair(u, p) == << <<Word(p)>>, u[p] >>

(* A value as the URI holds it, and what is decoded of it. *)
LEMMA ValueRead ==
    ASSUME NEW u \in URIs, NEW p \in ParameterNames
    PROVE  LET v == IF p = "issuer" THEN PercentEncode(u[p]) ELSE u[p]
           IN  v \in Seq(Encoded) /\ PercentDecode(v) = u[p]
  <1>1. u \in [typ : {"totp", "hotp"}, label : Seq(Byte), secret : Seq(Byte), issuer : Seq(Byte),
              algorithm : Seq(Unreserved), digits : Seq(Unreserved), period : Seq(Unreserved),
              counter : Seq(Unreserved)]
    BY URIsAssumption
  <1>2. CASE p = "issuer"
    <2>1. u[p] \in Seq(Byte)
      BY <1>1, <1>2
    <2>2. PercentEncode(u[p]) \in Seq(Encoded)
      BY <2>1, EncodeTurns
    <2>3. PercentDecode(PercentEncode(u[p])) = u[p]
      BY <2>1, EncodedDecodes
    <2> QED BY <1>2, <2>2, <2>3, Zenon
  <1>3. CASE p # "issuer"
    <2>1. u[p] \in Seq(Unreserved)
      BY <1>1, <1>3 DEF ParameterNames
    <2>2. Unreserved \subseteq Encoded /\ Percent \notin Unreserved
      BY EncodedTyped
    <2>3. Unreserved \subseteq Int
      BY DEF Unreserved, Byte
    <2>4. /\ u[p] \in Seq(Encoded) /\ u[p] \in Seq(Int)
          /\ \A i \in 1 .. Len(u[p]) : u[p][i] \in Unreserved
      BY <2>1, <2>2, <2>3, SeqMonotone
    <2>5. PercentDecode(u[p]) = u[p]
      BY <2>2, <2>4, PlainDecodes
    <2> QED BY <1>3, <2>4, <2>5, Zenon
  <1> QED BY <1>2, <1>3

(* One parameter of a URI. *)
LEMMA ParameterRead ==
    ASSUME NEW u \in URIs, NEW p \in ParameterNames
    PROVE  /\ Parameter(u, p) \in Seq(Char)
           /\ Parameter(u, p) = <<>> \/ Parameter(u, p)[1] = Amp
           /\ Pairs(Parameter(u, p)) = IF u[p] = <<>> THEN {} ELSE {SetPair(u, p)}
  <1> DEFINE v == IF p = "issuer" THEN PercentEncode(u[p]) ELSE u[p]
             w == Word(p)
             e == Cat(<<Amp, w, Equals>>, v)
  <1>1. v \in Seq(Encoded) /\ PercentDecode(v) = u[p]
    BY ValueRead
  <1>2. w \in Char \ {Equals, Amp}
    BY WordRange, CharRange DEF Equals, Amp
  <1>3. Parameter(u, p) = IF u[p] = <<>> THEN <<>> ELSE e
    BY Zenon DEF Parameter, Cat
  <1> HIDE DEF v, w
  <1>4. e \in Seq(Char) /\ e[1] = Amp /\ Pairs(e) = {<< <<w>>, PercentDecode(v) >>}
    BY <1>1, <1>2, SeparatedPair
  <1> HIDE DEF e
  <1>5. Pairs(<<>>) = {}
    <2>1. Separators(<<>>) = {}
      BY DEF Separators
    <2> QED BY <2>1, Zenon DEF Pairs
  <1>6. CASE u[p] = <<>>
    <2>1. Parameter(u, p) = <<>>
      BY <1>3, <1>6
    <2>2. <<>> \in Seq(Char)
      OBVIOUS
    <2> QED BY <1>5, <1>6, <2>1, <2>2, Zenon
  <1>7. CASE u[p] # <<>>
    <2>1. Parameter(u, p) = e
      BY <1>3, <1>7
    <2>2. << <<w>>, PercentDecode(v) >> = SetPair(u, p)
      BY <1>1 DEF SetPair, w
    <2> QED BY <1>4, <1>7, <2>1, <2>2, Zenon
  <1> QED BY <1>6, <1>7

(* The parameters of a URI. *)
LEMMA ParametersRead ==
    ASSUME NEW u \in URIs
    PROVE  LET F == FlattenSeq([i \in DOMAIN Parameters |-> Parameter(u, Parameters[i])])
           IN  /\ F \in Seq(Char)
               /\ F = <<>> \/ F[1] = Amp
               /\ Pairs(F) = {SetPair(u, p) : p \in {p \in ToSet(Parameters) : u[p] # <<>>}}
  <1> DEFINE r == [i \in DOMAIN Parameters |-> Parameter(u, Parameters[i])]
             name(i) == Parameters[i]
             set(i) == {j \in 1 .. i : u[name(j)] # <<>>}
             Good(i, x) == /\ x = <<>> \/ x[1] = Amp
                           /\ Pairs(x) = {SetPair(u, name(j)) : j \in set(i)}
  <1>1. DOMAIN Parameters = 1 .. 5 /\ \A i \in 1 .. 5 : name(i) \in ParameterNames
    BY DEF Parameters, ParameterNames
  <1>2. \A i \in 1 .. 5 : /\ r[i] = Parameter(u, name(i)) /\ r[i] \in Seq(Char)
                          /\ r[i] = <<>> \/ r[i][1] = Amp
                          /\ Pairs(r[i]) = IF u[name(i)] = <<>> THEN {} ELSE {SetPair(u, name(i))}
    <2> SUFFICES ASSUME NEW i \in 1 .. 5
                 PROVE  /\ r[i] = Parameter(u, name(i)) /\ r[i] \in Seq(Char)
                        /\ r[i] = <<>> \/ r[i][1] = Amp
                        /\ Pairs(r[i]) = IF u[name(i)] = <<>> THEN {} ELSE {SetPair(u, name(i))}
      OBVIOUS
    <2>1. r[i] = Parameter(u, name(i))
      BY <1>1
    <2>2. name(i) \in ParameterNames
      BY <1>1
    <2> HIDE DEF r, name
    <2> QED BY <2>1, <2>2, ParameterRead
  <1>3. r \in Seq(Seq(Char)) /\ Len(r) = 5
    <2>1. r \in [1 .. 5 -> Seq(Char)]
      BY <1>1, <1>2
    <2> HIDE DEF r, Char
    <2>2. r \in Seq(Seq(Char))
      <3> DEFINE S == Seq(Char)
                 n == 5
      <3>1. n \in Nat /\ r \in [1 .. n -> S]
        BY <2>1
      <3> HIDE DEF S, n
      <3>2. r \in Seq(S)
        BY <3>1, SeqDef
      <3> QED BY <3>2 DEF S
    <2>3. DOMAIN r = 1 .. 5
      BY <2>1
    <2> QED BY <2>2, <2>3, LenProperties
  <1> HIDE DEF r, name
  <1>4. PICK f \in [0 .. 5 -> Seq(Char)] :
               /\ f[0] = <<>> /\ FlattenSeq(r) = f[5]
               /\ \A i \in 1 .. 5 : f[i] = Cat(f[i - 1], r[i])
    <2>1. \E f \in [0 .. Len(r) -> Seq(Char)] :
             /\ f[0] = <<>> /\ FlattenSeq(r) = f[Len(r)]
             /\ \A i \in 1 .. Len(r) : f[i] = Cat(f[i - 1], r[i])
      BY <1>3, FlattenTurns
    <2>2. Len(r) = 5
      BY <1>3, Zenon
    <2> QED BY <2>1, <2>2, ZenonT(60)
  <1>5. Good(0, f[0])
    <2>1. Separators(<<>>) = {}
      BY DEF Separators
    <2>2. Pairs(<<>>) = {}
      BY <2>1, Zenon DEF Pairs
    <2>3. set(0) = {}
      OBVIOUS
    <2> QED BY <1>4, <2>2, <2>3, Zenon
  <1>6. ASSUME NEW i \in 1 .. 5, Good(i - 1, f[i - 1]) PROVE Good(i, f[i])
    <2> DEFINE g == f[i - 1]
               y == r[i]
    <2>1. /\ g \in Seq(Char) /\ y \in Seq(Char) /\ f[i] = Cat(g, y)
          /\ y = <<>> \/ y[1] = Amp
          /\ Pairs(y) = IF u[name(i)] = <<>> THEN {} ELSE {SetPair(u, name(i))}
      <3>1. i - 1 \in 0 .. 5
        OBVIOUS
      <3>2. g \in Seq(Char) /\ f[i] = Cat(g, y)
        BY <1>4, <3>1
      <3> QED BY <1>2, <3>2, Zenon
    <2>2. Pairs(f[i]) = Pairs(g) \cup Pairs(y)
      BY <2>1, PairsUnion
    <2>3. set(i) = set(i - 1) \cup (IF u[name(i)] = <<>> THEN {} ELSE {i})
      OBVIOUS
    <2>4. Pairs(f[i]) = {SetPair(u, name(j)) : j \in set(i)}
      <3>1. Pairs(g) = {SetPair(u, name(j)) : j \in set(i - 1)}
        BY <1>6
      <3> HIDE DEF set, g, y
      <3> QED BY <2>1, <2>2, <2>3, <3>1, Zenon
    <2>5. f[i] = <<>> \/ f[i][1] = Amp
      <3>1. Len(g) \in Nat /\ Len(y) \in Nat
        BY <2>1
      <3>2. g = <<>> \/ g[1] = Amp
        BY <1>6
      <3> HIDE DEF g, y
      <3>3. /\ f[i] \in Seq(Char) /\ Len(f[i]) = Len(g) + Len(y)
            /\ \A j \in 1 .. Len(g) : f[i][j] = g[j]
            /\ \A j \in 1 .. Len(y) : f[i][Len(g) + j] = y[j]
        <4> DEFINE x == Cat(g, y)
        <4>1. /\ x \in Seq(Char) /\ Len(x) = Len(g) + Len(y)
              /\ \A j \in 1 .. Len(g) : x[j] = g[j]
              /\ \A j \in 1 .. Len(y) : x[Len(g) + j] = y[j]
          BY <2>1, TwoParts
        <4> HIDE DEF x
        <4>2. f[i] = x
          BY <2>1 DEF x
        <4> QED BY <4>1, <4>2
      <3>4. CASE g # <<>>
        <4>1. 1 \in 1 .. Len(g)
          BY <2>1, <3>1, <3>4
        <4> QED BY <3>2, <3>3, <3>4, <4>1
      <3>5. CASE g = <<>> /\ y # <<>>
        <4>1. 1 \in 1 .. Len(y) /\ Len(g) + 1 = 1
          BY <2>1, <3>1, <3>5
        <4> QED BY <2>1, <3>3, <3>5, <4>1
      <3>6. CASE g = <<>> /\ y = <<>>
        BY <3>1, <3>3, <3>6
      <3> QED BY <3>4, <3>5, <3>6
    <2> QED BY <2>4, <2>5
  <1>7. Good(5, f[5])
    <2> HIDE DEF Good
    <2>1. Good(1, f[1])
      BY <1>5, <1>6
    <2>2. Good(2, f[2])
      BY <2>1, <1>6
    <2>3. Good(3, f[3])
      BY <2>2, <1>6
    <2>4. Good(4, f[4])
      BY <2>3, <1>6
    <2> QED BY <2>4, <1>6
  <1>8. {SetPair(u, name(j)) : j \in set(5)} = {SetPair(u, p) : p \in {p \in ToSet(Parameters) : u[p] # <<>>}}
    <2>1. ToSet(Parameters) = {name(j) : j \in 1 .. 5}
      BY <1>1, Zenon DEF ToSet, name
    <2> QED BY <2>1, Zenon
  <1>9. FlattenSeq(r) \in Seq(Char)
    BY <1>4
  <1> QED BY <1>4, <1>7, <1>8, <1>9, Zenon DEF r, name

(* The secret that is written is one over the bytes. *)
LEMMA NormalizedSecret ==
    ASSUME NEW s \in Seq(Byte)
    PROVE  NormalizeBase32Secret(s) \in Seq(Byte)
  <1> DEFINE r == [i \in DOMAIN s |-> IF s[i] = Equals \/ IsSpace(s[i]) THEN <<>> ELSE <<s[i]>>]
             n == Len(s)
             S == Seq(Byte)
  <1>1. n \in Nat /\ DOMAIN s = 1 .. n /\ \A i \in 1 .. n : s[i] \in Byte
    BY ElementOfSeq, LenProperties
  <1>2. r \in [1 .. n -> S]
    <2> HIDE DEF Byte
    <2>1. <<>> \in S /\ \A b \in Byte : <<b>> \in S
      OBVIOUS
    <2> HIDE DEF S
    <2> QED BY <1>1, <2>1
  <1> HIDE DEF r, n, S
  <1>3. r \in Seq(S)
    BY <1>1, <1>2, SeqDef
  <1>4. Byte \in SUBSET Char
    BY EncodedTyped
  <1>5. FlattenSeq(r) \in Seq(Byte)
    BY <1>3, <1>4, FlattenOver DEF S
  <1> QED BY <1>5 DEF NormalizeBase32Secret, r

(* No word is read as a reserved character. *)
LEMMA WordApart ==
    ASSUME NEW x PROVE Word(x) \in Char \ {Equals, Amp, Query}
  BY WordRange, CharRange DEF Equals, Amp, Query

(* The query of a URI: the secret, then the parameters. *)
LEMMA QueryRead ==
    ASSUME NEW v \in Seq(Encoded), NEW F \in Seq(Char), F = <<>> \/ F[1] = Amp
    PROVE  LET q == Cat(Cat(<<Word("secret"), Equals>>, v), F)
           IN  /\ q \in Seq(Char)
               /\ ReadQuery(q) = {<< <<Word("secret")>>, PercentDecode(v) >>} \cup Pairs(F)
  <1> DEFINE w == Word("secret")
             k == Cat(<<w, Equals>>, v)
             q == Cat(k, F)
  <1>1. w \in Char \ {Equals, Amp}
    <2>1. w \in Char \ {Equals, Amp, Query}
      BY WordApart, Zenon
    <2> HIDE DEF w
    <2> QED BY <2>1
  <1> HIDE DEF w
  <1>2. k \in Seq(Char) /\ v \in Seq(Char) /\ \A i \in 1 .. Len(k) : k[i] # Amp
    BY <1>1, PairAlone
  <1>3. ReadPair(k) = << <<w>>, PercentDecode(v) >>
    BY <1>1, <1>2, PairRead
  <1> HIDE DEF k
  <1>4. q \in Seq(Char)
    BY <1>2, TwoParts
  <1>5. UpTo(q, Amp) = k
    <2>1. UpTo(q, Amp) = UpTo(k, Amp)
      BY <1>2, UpToExtended
    <2>2. UpTo(k, Amp) = k
      BY <1>2, UpToAll
    <2> QED BY <2>1, <2>2
  <1>6. Pairs(k) = {}
    <2>1. Separators(k) = {}
      BY <1>2 DEF Separators
    <2> QED BY <2>1, Zenon DEF Pairs
  <1>7. Pairs(q) = Pairs(k) \cup Pairs(F)
    BY <1>2, PairsUnion
  <1> HIDE DEF q
  <1>8. ReadQuery(q) = {ReadPair(UpTo(q, Amp))} \cup Pairs(q)
    BY <1>4, QueryPairs
  <1>9. ReadQuery(q) = {<< <<w>>, PercentDecode(v) >>} \cup Pairs(F)
    BY <1>3, <1>5, <1>6, <1>7, <1>8, Zenon
  <1> QED BY <1>4, <1>9 DEF q, k, w

(* A URI is its path, then its query. *)
LEMMA URIRead ==
    ASSUME NEW t, NEW l \in Seq(Encoded), NEW q \in Seq(Char)
    PROVE  LET p == Cat(<<Word("otpauth"), Colon, Slash, Slash, Word(t), Slash>>, l)
               uri == Cat(p, Cat(<<Query>>, q))
           IN  ReadURI(uri) = [typ |-> Word(t), label |-> PercentDecode(l), query |-> ReadQuery(q)]
  <1> DEFINE h == <<Word("otpauth"), Colon, Slash, Slash, Word(t), Slash>>
             p == Cat(h, l)
             y == Cat(<<Query>>, q)
             uri == Cat(p, y)
             w == Word(t)
             o == Word("otpauth")
  <1>1. /\ Colon \in Char \ {Query} /\ Slash \in Char \ {Query} /\ Query \in Char
        /\ w \in Char \ {Query} /\ o \in Char \ {Query}
    <2>1. w \in Char \ {Equals, Amp, Query} /\ o \in Char \ {Equals, Amp, Query}
      BY WordApart, Zenon
    <2> HIDE DEF w, o
    <2> QED BY <2>1, CharRange DEF Colon, Slash, Query
  <1> HIDE DEF w, o
  <1>2. /\ h \in Seq(Char) /\ Len(h) = 6 /\ h[5] = w
        /\ \A i \in 1 .. 6 : h[i] # Query
    <2>1. h = <<o, Colon, Slash, Slash, w, Slash>>
      BY DEF w, o
    <2> HIDE DEF h
    <2>2. h \in Seq(Char) /\ Len(h) = 6 /\ h[1] = o /\ h[2] = Colon /\ h[3] = Slash /\ h[4] = Slash /\ h[5] = w /\ h[6] = Slash
      BY <1>1, <2>1
    <2>3. \A i \in 1 .. 6 : i = 1 \/ i = 2 \/ i = 3 \/ i = 4 \/ i = 5 \/ i = 6
      OBVIOUS
    <2>4. \A i \in 1 .. 6 : h[i] # Query
      BY <1>1, <2>2, <2>3
    <2> QED BY <2>2, <2>4
  <1>3. Encoded \subseteq Char /\ Query \notin Encoded
    BY EncodedTyped
  <1>4. l \in Seq(Char) /\ Len(l) \in Nat /\ \A i \in 1 .. Len(l) : l[i] \in Encoded
    BY <1>3, SeqMonotone
  <1> HIDE DEF h
  <1>5. /\ p \in Seq(Char) /\ Len(p) = Len(h) + Len(l)
        /\ \A i \in 1 .. Len(h) : p[i] = h[i]
        /\ \A i \in 1 .. Len(l) : p[Len(h) + i] = l[i]
        /\ From(p, Len(h) + 1) = l
    BY <1>2, <1>4, TwoParts
  <1> HIDE DEF p
  <1>6. ASSUME NEW i \in 1 .. Len(p) PROVE p[i] # Query
    <2>1. CASE i <= 6
      <3>1. i \in 1 .. Len(h) /\ i \in 1 .. 6
        BY <1>2, <1>4, <1>5, <2>1
      <3> QED BY <1>2, <1>5, <3>1
    <2>2. CASE ~ (i <= 6)
      <3> DEFINE j == i - 6
      <3>1. j \in 1 .. Len(l) /\ i = Len(h) + j
        BY <1>2, <1>4, <1>5, <2>2
      <3> HIDE DEF j
      <3>2. p[i] = l[j] /\ l[j] \in Encoded
        BY <1>4, <1>5, <3>1
      <3> QED BY <1>3, <3>2
    <2> QED BY <2>1, <2>2
  <1>7. <<Query>> \in Seq(Char) /\ Len(<<Query>>) = 1 /\ <<Query>>[1] = Query
    BY <1>1
  <1>8. y \in Seq(Char) /\ y[1] = Query
    <2> DEFINE s == <<Query>>
    <2>1. s \in Seq(Char) /\ Len(s) = 1 /\ s[1] = Query
      BY <1>7
    <2> HIDE DEF s
    <2>2. Cat(s, q) \in Seq(Char) /\ \A i \in 1 .. Len(s) : Cat(s, q)[i] = s[i]
      BY <2>1, TwoParts
    <2>3. Cat(s, q)[1] = s[1]
      BY <2>1, <2>2
    <2> QED BY <2>1, <2>2, <2>3 DEF s
  <1>9. UpTo(uri, Query) = p
    <2> HIDE DEF y
    <2>1. UpTo(uri, Query) = UpTo(p, Query)
      BY <1>5, <1>8, UpToExtended
    <2>2. UpTo(p, Query) = p
      BY <1>5, <1>6, UpToAll
    <2> QED BY <2>1, <2>2
  <1>10. From(uri, Len(p) + 2) = q
    <2> DEFINE s == <<Query>>
               a == Cat(p, s)
    <2>1. s \in Seq(Char) /\ Len(s) = 1
      BY <1>7
    <2> HIDE DEF s
    <2>2. a \in Seq(Char) /\ Len(a) = Len(p) + Len(s) /\ Len(p) \in Nat
      BY <1>5, <2>1, TwoParts
    <2>3. Cat(a, q) = Cat(p, Cat(s, q))
      BY <1>5, <2>1, Reassociated
    <2> HIDE DEF a
    <2>4. From(Cat(a, q), Len(a) + 1) = q
      BY <2>2, TwoParts
    <2>5. Len(a) + 1 = Len(p) + 2
      BY <2>1, <2>2
    <2>6. uri = Cat(a, q)
      BY <2>3 DEF s
    <2> QED BY <2>4, <2>5, <2>6, Zenon
  <1>11. p[5] = w
    BY <1>2, <1>5
  <1>12. From(p, 7) = l
    <2>1. Len(h) + 1 = 7
      BY <1>2
    <2> QED BY <1>5, <2>1, Zenon
  <1> HIDE DEF uri
  <1>13. ReadURI(uri) = [typ |-> p[5], label |-> PercentDecode(From(p, 7)),
                         query |-> ReadQuery(From(uri, Len(p) + 2))]
    BY <1>9, Zenon DEF ReadURI
  <1>14. ReadURI(uri) = [typ |-> w, label |-> PercentDecode(l), query |-> ReadQuery(q)]
    BY <1>10, <1>11, <1>12, <1>13, Zenon
  <1> QED BY <1>14, Zenon DEF uri, y, p, h, w

(* OtpAuthUri: whatever the label, the secret and the issuer hold, reading  *)
(* the built URI gives them back with every parameter that was set, and     *)
(* nothing else.                                                            *)
THEOREM URIsReadBack == Spec => []URIReadsBack
  <1>1. JobInv => URIReadsBack
    <2>0. SUFFICES ASSUME JobInv, Doing("uri")
                 PROVE  LET u == job.in
                            set == {p \in ToSet(Parameters) : u[p] # <<>>}
                        IN  ReadURI(BuildURI(u)) =
                                [typ |-> Word(u.typ), label |-> u.label,
                                 query |-> {<< <<Word("secret")>>, NormalizeBase32Secret(u.secret)>>}
                                             \cup {<< <<Word(p)>>, u[p]>> : p \in set}]
      BY DEF URIReadsBack
    <2> DEFINE u == job.in
               n == NormalizeBase32Secret(u.secret)
               h == <<Word("otpauth"), Colon, Slash, Slash, Word(u.typ), Slash>>
               l == PercentEncode(u.label)
               v == PercentEncode(n)
               F == FlattenSeq([i \in DOMAIN Parameters |-> Parameter(u, Parameters[i])])
               s == <<Query>>
               k == <<Word("secret"), Equals>>
               p == Cat(h, l)
               q == Cat(Cat(k, v), F)
    <2>1. u \in URIs
      BY <2>0 DEF JobInv, Doing
    <2>2. u.label \in Seq(Byte) /\ u.secret \in Seq(Byte)
      BY <2>1, URIsAssumption
    <2>3. n \in Seq(Byte)
      BY <2>2, NormalizedSecret
    <2>4. l \in Seq(Encoded) /\ v \in Seq(Encoded)
      BY <2>2, <2>3, EncodeTurns
    <2>5. PercentDecode(l) = u.label /\ PercentDecode(v) = n
      BY <2>2, <2>3, EncodedDecodes
    <2>6. /\ F \in Seq(Char)
          /\ F = <<>> \/ F[1] = Amp
          /\ Pairs(F) = {SetPair(u, x) : x \in {x \in ToSet(Parameters) : u[x] # <<>>}}
      BY <2>1, ParametersRead
    <2>7. BuildURI(u) = Cat(p, Cat(s, q))
      <3>1. BuildURI(u) = Cat(Cat(Cat(p, <<Query, Word("secret"), Equals>>), v), F)
        BY Zenon DEF BuildURI, Cat
      <3>2. Word("secret") \in Char /\ Equals \in Char /\ Query \in Char /\ Colon \in Char /\ Slash \in Char
        BY WordRange, CharRange DEF Equals, Query, Colon, Slash
      <3>3. s \in Seq(Char) /\ k \in Seq(Char) /\ <<Query, Word("secret"), Equals>> = Cat(s, k)
        BY <3>2 DEF Cat
      <3>4. h \in Seq(Char)
        <4>1. Word("otpauth") \in Char /\ Word(u.typ) \in Char
          BY WordRange, CharRange
        <4> QED BY <3>2, <4>1
      <3>5. Encoded \subseteq Char
        BY EncodedTyped
      <3>6. l \in Seq(Char) /\ v \in Seq(Char)
        BY <2>4, <3>5, SeqMonotone
      <3> HIDE DEF s, k, h, l, v, F
      <3>7. p \in Seq(Char) /\ Cat(k, v) \in Seq(Char) /\ Cat(s, k) \in Seq(Char)
        BY <3>3, <3>4, <3>6, CatProperties
      <3> HIDE DEF p
      <3>8. Cat(Cat(s, k), v) = Cat(s, Cat(k, v)) /\ Cat(s, Cat(k, v)) \in Seq(Char)
        BY <3>3, <3>6, <3>7, Reassociated, CatProperties
      <3>9. Cat(Cat(p, Cat(s, k)), v) = Cat(p, Cat(s, Cat(k, v)))
        <4>1. Cat(Cat(p, Cat(s, k)), v) = Cat(p, Cat(Cat(s, k), v))
          BY <3>6, <3>7, Reassociated
        <4> QED BY <3>8, <4>1, Zenon
      <3>10. Cat(Cat(p, Cat(s, Cat(k, v))), F) = Cat(p, Cat(Cat(s, Cat(k, v)), F))
        BY <2>6, <3>7, <3>8, Reassociated
      <3>11. Cat(Cat(s, Cat(k, v)), F) = Cat(s, Cat(Cat(k, v), F))
        BY <2>6, <3>3, <3>7, Reassociated
      <3> QED BY <3>1, <3>3, <3>9, <3>10, <3>11, Zenon
    <2> HIDE DEF u, n, l, v, F
    <2>8. q \in Seq(Char) /\ ReadQuery(q) = {<< <<Word("secret")>>, PercentDecode(v) >>} \cup Pairs(F)
      BY <2>4, <2>6, QueryRead
    <2> HIDE DEF q
    <2>9. ReadURI(Cat(p, Cat(s, q))) = [typ |-> Word(u.typ), label |-> PercentDecode(l), query |-> ReadQuery(q)]
      BY <2>4, <2>8, URIRead
    <2> HIDE DEF p, s
    <2>10. ReadURI(BuildURI(u)) =
               [typ |-> Word(u.typ), label |-> u.label,
                query |-> {<< <<Word("secret")>>, n >>}
                            \cup {SetPair(u, x) : x \in {x \in ToSet(Parameters) : u[x] # <<>>}}]
      BY <2>5, <2>6, <2>7, <2>8, <2>9, Zenon
    <2> QED BY <2>10, Zenon DEF SetPair, u, n
  <1> QED BY <1>1, JobInvariant, PTL

-----------------------------------------------------------------------------
(* Migration. *)

(* The loop that puts the groups together. *)
LEMMA UngroupedTyped ==
    ASSUME NEW g \in Seq(Byte)
    PROVE  /\ Ungrouped(g) \in Nat
           /\ \E f \in [0 .. Len(g) -> Nat] :
                 /\ f[0] = 0 /\ Ungrouped(g) = f[Len(g)]
                 /\ \A n \in 1 .. Len(g) : f[n] = (g[Len(g) - (n - 1)] % 128) + 128 * f[n - 1]
  <1> DEFINE N == Len(g)
             d(n) == g[N - (n - 1)] % 128
             F == CHOOSE high : high = [n \in 0 .. N |-> IF n = 0 THEN 0 ELSE d(n) + 128 * high[n - 1]]
             Eq(h) == h = [n \in 0 .. N |-> IF n = 0 THEN 0 ELSE d(n) + 128 * h[n - 1]]
             turn == [n \in 1 .. N |-> [x \in Nat |-> d(n) + 128 * x]]
  <1>0. N \in Nat /\ \A n \in 1 .. N : g[n] \in Byte
    BY ElementOfSeq
  <1>1. Ungrouped(g) = F[N]
    BY DEF Ungrouped
  <1> HIDE DEF N
  <1>2. \A n \in 1 .. N : d(n) \in 0 .. 127
    <2> SUFFICES ASSUME NEW n \in 1 .. N PROVE d(n) \in 0 .. 127
      OBVIOUS
    <2>1. N - (n - 1) \in 1 .. N
      BY <1>0
    <2>2. g[N - (n - 1)] \in Byte
      BY <1>0, <2>1
    <2>3. \A b \in Byte : b % 128 \in 0 .. 127
      BY DEF Byte
    <2> QED BY <2>2, <2>3, Zenon
  <1> HIDE DEF d
  <1>3. turn \in [1 .. N -> [Nat -> Nat]]
    <2>1. ASSUME NEW n \in 1 .. N, NEW x \in Nat PROVE d(n) + 128 * x \in Nat
      <3>1. d(n) \in 0 .. 127
        BY <1>2
      <3>2. \A y \in 0 .. 127 : y + 128 * x \in Nat
        OBVIOUS
      <3> QED BY <3>1, <3>2, Zenon
    <2> QED BY <2>1
  <1>4. PICK f \in [0 .. N -> Nat] : f[0] = 0 /\ \A n \in 1 .. N : f[n] = turn[n][f[n - 1]]
    <2> HIDE DEF turn
    <2>1. \E f : Turns(f, Nat, 0, N, turn)
      BY <1>0, <1>3, LoopExists
    <2> QED BY <2>1 DEF Turns
  <1>5. ASSUME NEW n \in 1 .. N PROVE f[n] = d(n) + 128 * f[n - 1]
    <2>1. n - 1 \in 0 .. N /\ f[n - 1] \in Nat
      BY <1>0
    <2> QED BY <1>4, <2>1
  <1>6. Eq(f)
    BY <1>0, <1>4, <1>5
  <1>7. Eq(F)
    BY <1>6
  <1> HIDE DEF F
  <1>8. F[0] = 0 /\ \A n \in 1 .. N : F[n] = d(n) + 128 * F[n - 1]
    <2>1. F = [n \in 0 .. N |-> IF n = 0 THEN 0 ELSE d(n) + 128 * F[n - 1]]
      BY <1>7
    <2> QED BY <1>0, <2>1
  <1> DEFINE At == {n \in Nat : n <= N => F[n] = f[n]}
  <1>9. 0 \in At
    BY <1>4, <1>8
  <1>10. ASSUME NEW n \in Nat, n \in At PROVE n + 1 \in At
    <2> SUFFICES ASSUME n + 1 <= N PROVE F[n + 1] = f[n + 1]
      OBVIOUS
    <2>1. n + 1 \in 1 .. N /\ (n + 1) - 1 = n /\ F[n] = f[n]
      BY <1>0, <1>10
    <2> QED BY <1>5, <1>8, <2>1
  <1>11. N \in At
    <2> HIDE DEF At
    <2> QED BY <1>0, <1>9, <1>10, InductionOnSet
  <1>12. F[N] = f[N] /\ f[N] \in Nat
    BY <1>0, <1>11
  <1> QED BY <1>1, <1>4, <1>5, <1>12 DEF N, d

(* Where a varint ends: the first byte below 128. *)
Below(data, i) == {k \in i .. Len(data) : data[k] < 128}

(* What the reader of a varint returns. *)
LEMMA VarintRead ==
    ASSUME NEW data \in Seq(Byte), NEW i \in Nat \ {0}
    PROVE  \/ ReadProtoVarint(data, i) = Failed("ErrInvalidMigration")
           \/ \E last \in i .. Len(data) :
                 /\ data[last] < 128 /\ \A k \in i .. last - 1 : data[k] >= 128
                 /\ SubSeq(data, i, last) \in Seq(Byte)
                 /\ Len(SubSeq(data, i, last)) = (last - i) + 1 /\ (last - i) + 1 <= MaxVarintBytes
                 /\ Ungrouped(SubSeq(data, i, last)) \in Nat
                 /\ ReadProtoVarint(data, i) =
                        Read(Ungrouped(SubSeq(data, i, last)) % (MaxUint64 + 1), last + 1)
  <1> DEFINE I == Below(data, i)
             last == IF I # {} THEN Min(I) ELSE 0
             g == SubSeq(data, i, last)
  <1>0. Len(data) \in Nat /\ i \in Nat /\ \A k \in 1 .. Len(data) : data[k] \in Byte
    BY ElementOfSeq
  <1>1. ReadProtoVarint(data, i) =
          IF last = 0 \/ Len(g) > MaxVarintBytes THEN Failed("ErrInvalidMigration")
          ELSE Read(Ungrouped(g) % (MaxUint64 + 1), last + 1)
    BY DEF ReadProtoVarint, SelectInSubSeq, Below
  <1>2. CASE I = {} \/ Len(g) > MaxVarintBytes
    BY <1>1, <1>2
  <1>3. CASE I # {} /\ ~ (Len(g) > MaxVarintBytes)
    <2>1. I \in SUBSET Nat
      BY <1>0 DEF Below
    <2>2. last \in I /\ \A y \in I : last <= y
      BY <1>3, <2>1, MinOfNaturals
    <2> HIDE DEF last
    <2>3. last \in i .. Len(data) /\ data[last] < 128
      BY <2>2 DEF Below
    <2>4. ASSUME NEW k \in i .. last - 1 PROVE data[k] >= 128
      <3>1. k \in i .. Len(data) /\ k \in 1 .. Len(data) /\ k < last
        BY <1>0, <2>3
      <3>2. k \notin I
        BY <1>0, <2>2, <2>3, <3>1
      <3>3. data[k] \in Byte
        BY <1>0, <3>1
      <3>4. ~ (data[k] < 128)
        BY <3>1, <3>2 DEF Below
      <3>5. \A b \in Byte : ~ (b < 128) => b >= 128
        BY DEF Byte
      <3> QED BY <3>3, <3>4, <3>5, Zenon
    <2>5. g \in Seq(Byte) /\ Len(g) = (last - i) + 1
      <3>1. last \in Int /\ i \in Int /\ i <= last /\ \A k \in i .. last : data[k] \in Byte
        BY <1>0, <2>3
      <3> HIDE DEF Byte
      <3>2. g \in Seq(Byte) /\ Len(g) = IF i <= last THEN last - i + 1 ELSE 0
        BY <3>1, SubSeqProperties
      <3> QED BY <3>1, <3>2
    <2>6. MaxVarintBytes \in Nat
      BY WidthsAssumption
    <2>7. Ungrouped(g) \in Nat
      BY <2>5, UngroupedTyped
    <2>8. ReadProtoVarint(data, i) = Read(Ungrouped(g) % (MaxUint64 + 1), last + 1)
      BY <1>0, <1>1, <1>3, <2>3 DEF last
    <2> QED BY <1>3, <2>3, <2>4, <2>5, <2>6, <2>7, <2>8
  <1> QED BY <1>2, <1>3

(* What it returns when it finds the end. *)
LEMMA VarintIs ==
    ASSUME NEW data \in Seq(Byte), NEW i \in Nat \ {0}, NEW last \in i .. Len(data),
           data[last] < 128, \A k \in i .. last - 1 : data[k] >= 128, (last - i) + 1 <= MaxVarintBytes
    PROVE  ReadProtoVarint(data, i) =
               Read(Ungrouped(SubSeq(data, i, last)) % (MaxUint64 + 1), last + 1)
  <1> DEFINE I == Below(data, i)
             end == IF I # {} THEN Min(I) ELSE 0
             g(n) == SubSeq(data, i, n)
  <1>0. Len(data) \in Nat /\ i \in Nat /\ last \in Nat /\ \A k \in 1 .. Len(data) : data[k] \in Byte
    BY ElementOfSeq
  <1>1. ReadProtoVarint(data, i) =
          IF end = 0 \/ Len(g(end)) > MaxVarintBytes THEN Failed("ErrInvalidMigration")
          ELSE Read(Ungrouped(g(end)) % (MaxUint64 + 1), end + 1)
    BY DEF ReadProtoVarint, SelectInSubSeq, Below
  <1>2. last \in I /\ I # {}
    BY DEF Below
  <1>3. I \in SUBSET Nat
    BY <1>0 DEF Below
  <1>4. end \in I /\ \A y \in I : end <= y
    BY <1>2, <1>3, MinOfNaturals
  <1>5. end = last
    <2> HIDE DEF end
    <2>1. end <= last /\ end \in i .. Len(data) /\ data[end] < 128
      BY <1>2, <1>4 DEF Below
    <2>2. CASE end < last
      <3>1. end \in i .. last - 1 /\ end \in 1 .. Len(data)
        BY <1>0, <2>1, <2>2
      <3>2. data[end] >= 128 /\ data[end] \in Byte
        BY <1>0, <3>1
      <3>3. \A b \in Byte : ~ (b < 128 /\ b >= 128)
        BY DEF Byte
      <3> QED BY <2>1, <3>2, <3>3
    <2> QED BY <1>0, <2>1, <2>2
  <1> HIDE DEF end
  <1>6. Len(g(last)) = (last - i) + 1
    <2>1. last \in Int /\ i \in Int /\ i <= last /\ \A k \in i .. last : data[k] \in Byte
      BY <1>0
    <2> HIDE DEF Byte
    <2>2. Len(g(last)) = IF i <= last THEN last - i + 1 ELSE 0
      BY <2>1, SubSeqProperties
    <2> QED BY <2>1, <2>2
  <1>7. MaxVarintBytes \in Nat /\ last # 0
    BY <1>0, WidthsAssumption
  <1>8. ~ (Len(g(last)) > MaxVarintBytes)
    BY <1>0, <1>6, <1>7
  <1> HIDE DEF g
  <1>9. ReadProtoVarint(data, i) = Read(Ungrouped(g(last)) % (MaxUint64 + 1), last + 1)
    BY <1>1, <1>5, <1>7, <1>8
  <1> QED BY <1>9 DEF g

(* r is an error, or a value of V and a position behind i in n bytes. *)
Reads(r, V, i, n) ==
    r = Failed("ErrInvalidMigration") \/ \E v \in V, next \in i + 1 .. n + 1 : r = Read(v, next)

(* A varint is a uint64. *)
LEMMA VarintReads ==
    ASSUME NEW data \in Seq(Byte), NEW i \in Nat \ {0}
    PROVE  Reads(ReadProtoVarint(data, i), 0 .. MaxUint64, i, Len(data))
  <1> DEFINE r == ReadProtoVarint(data, i)
  <1>1. CASE r = Failed("ErrInvalidMigration")
    BY <1>1, Zenon DEF Reads
  <1>2. ASSUME NEW last \in i .. Len(data), NEW u \in Nat, r = Read(u % (MaxUint64 + 1), last + 1)
        PROVE  Reads(r, 0 .. MaxUint64, i, Len(data))
    <2>1. MaxUint64 \in Nat /\ Len(data) \in Nat
      BY WidthsAssumption
    <2>2. u % (MaxUint64 + 1) \in 0 .. MaxUint64
      BY <2>1
    <2>3. last + 1 \in i + 1 .. Len(data) + 1
      BY <2>1
    <2> QED BY <1>2, <2>2, <2>3, Zenon DEF Reads
  <1> QED BY <1>1, <1>2, VarintRead

(* A varint of the cut data is the one of the whole. *)
LEMMA VarintCut ==
    ASSUME NEW data \in Seq(Byte), NEW m \in 0 .. Len(data), NEW i \in Nat \ {0}
    PROVE  LET r == ReadProtoVarint(SubSeq(data, 1, m), i)
           IN  r.err # "nil" \/ r = ReadProtoVarint(data, i)
  <1> DEFINE c == SubSeq(data, 1, m)
             r == ReadProtoVarint(c, i)
  <1>0. Len(data) \in Nat /\ m \in Nat
    OBVIOUS
  <1>1. /\ c \in Seq(Byte) /\ Len(c) = m /\ \A k \in 1 .. m : c[k] = data[k]
        /\ \A a \in Nat \ {0}, j \in Nat : j <= m => SubSeq(c, a, j) = SubSeq(data, a, j)
    BY CutTyped
  <1> HIDE DEF c
  <1>2. Failed("ErrInvalidMigration").err # "nil"
    BY DEF Failed
  <1>3. ASSUME NEW last \in i .. Len(c), c[last] < 128, \A k \in i .. last - 1 : c[k] >= 128,
               (last - i) + 1 <= MaxVarintBytes,
               r = Read(Ungrouped(SubSeq(c, i, last)) % (MaxUint64 + 1), last + 1)
        PROVE  r = ReadProtoVarint(data, i)
    <2>1. last \in i .. Len(data) /\ last \in Nat /\ last <= m /\ last \in 1 .. m
      BY <1>0, <1>1
    <2>2. data[last] < 128
      BY <1>1, <1>3, <2>1
    <2>3. ASSUME NEW k \in i .. last - 1 PROVE data[k] >= 128
      <3>1. k \in 1 .. m
        BY <1>0, <2>1
      <3> QED BY <1>1, <1>3, <3>1
    <2>4. ReadProtoVarint(data, i) = Read(Ungrouped(SubSeq(data, i, last)) % (MaxUint64 + 1), last + 1)
      BY <1>3, <2>1, <2>2, <2>3, VarintIs
    <2>5. SubSeq(c, i, last) = SubSeq(data, i, last)
      BY <1>1, <2>1
    <2> QED BY <1>3, <2>4, <2>5, Zenon
  <1>4. r = Failed("ErrInvalidMigration") \/ r = ReadProtoVarint(data, i)
    BY <1>1, <1>3, VarintRead
  <1> QED BY <1>2, <1>4 DEF c

(* Bytes behind their length, of the data and of the cut data. *)
LEMMA BytesRead ==
    ASSUME NEW data \in Seq(Byte), NEW i \in Nat \ {0}
    PROVE  Reads(ReadProtoBytes(data, i), Seq(Byte), i, Len(data))
  <1> DEFINE s == ReadProtoVarint(data, i)
             r == ReadProtoBytes(data, i)
             end == s.next + s.value
  <1>1. r = IF s.err # "nil" THEN s
            ELSE IF s.value > MaxInt \/ end - 1 > Len(data) THEN Failed("ErrInvalidMigration")
            ELSE Read(SubSeq(data, s.next, end - 1), end)
    BY DEF ReadProtoBytes, ThenRead
  <1> HIDE DEF r
  <1>2. CASE s = Failed("ErrInvalidMigration")
    <2>1. r = s
      BY <1>1, <1>2 DEF Failed
    <2> QED BY <1>2, <2>1, Zenon DEF Reads, r
  <1>3. ASSUME NEW v \in 0 .. MaxUint64, NEW next \in i + 1 .. Len(data) + 1, s = Read(v, next)
        PROVE  Reads(r, Seq(Byte), i, Len(data))
    <2>0. MaxUint64 \in Nat /\ Len(data) \in Nat
      BY WidthsAssumption
    <2>1. s.err = "nil" /\ s.value = v /\ s.next = next
      BY <1>3 DEF Read
    <2>2. CASE v > MaxInt \/ (next + v) - 1 > Len(data)
      <3>1. r = Failed("ErrInvalidMigration")
        BY <1>1, <2>1, <2>2
      <3> QED BY <3>1, Zenon DEF Reads
    <2>3. CASE ~ (v > MaxInt \/ (next + v) - 1 > Len(data))
      <3> DEFINE e == next + v
                 b == SubSeq(data, next, e - 1)
      <3>1. r = Read(b, e)
        BY <1>1, <2>1, <2>3
      <3>2. e \in i + 1 .. Len(data) + 1
        BY <2>0, <2>3
      <3>3. b \in Seq(Byte)
        <4>1. \A k \in next .. e - 1 : data[k] \in Byte
          <5>1. \A k \in 1 .. Len(data) : data[k] \in Byte
            BY ElementOfSeq
          <5>2. \A k \in next .. e - 1 : k \in 1 .. Len(data)
            BY <2>0, <3>2
          <5> QED BY <5>1, <5>2
        <4>2. next \in Int /\ e - 1 \in Int
          BY <2>0, <3>2
        <4> HIDE DEF e, Byte
        <4> QED BY <4>1, <4>2, SubSeqProperties
      <3> HIDE DEF e, b
      <3> QED BY <3>1, <3>2, <3>3, Zenon DEF Reads
    <2> QED BY <2>2, <2>3
  <1>4. Reads(s, 0 .. MaxUint64, i, Len(data))
    BY VarintReads
  <1> QED BY <1>2, <1>3, <1>4, Zenon DEF Reads, r

(* Bytes of the cut data are those of the whole. *)
LEMMA BytesCut ==
    ASSUME NEW data \in Seq(Byte), NEW m \in 0 .. Len(data), NEW i \in Nat \ {0}
    PROVE  LET r == ReadProtoBytes(SubSeq(data, 1, m), i)
           IN  r.err # "nil" \/ r = ReadProtoBytes(data, i)
  <1> DEFINE c == SubSeq(data, 1, m)
             s == ReadProtoVarint(c, i)
             t == ReadProtoVarint(data, i)
             r == ReadProtoBytes(c, i)
             w == ReadProtoBytes(data, i)
  <1>0. Len(data) \in Nat /\ m \in Nat /\ m <= Len(data)
    OBVIOUS
  <1>1. /\ c \in Seq(Byte) /\ Len(c) = m
        /\ \A a \in Nat \ {0}, j \in Nat : j <= m => SubSeq(c, a, j) = SubSeq(data, a, j)
    BY CutTyped
  <1>2. s.err # "nil" \/ s = t
    BY VarintCut
  <1> HIDE DEF c
  <1>3. Reads(s, 0 .. MaxUint64, i, m)
    BY <1>1, VarintReads
  <1>4. r = IF s.err # "nil" THEN s
            ELSE IF s.value > MaxInt \/ (s.next + s.value) - 1 > m THEN Failed("ErrInvalidMigration")
            ELSE Read(SubSeq(c, s.next, (s.next + s.value) - 1), s.next + s.value)
    BY <1>1 DEF ReadProtoBytes, ThenRead
  <1>5. w = IF t.err # "nil" THEN t
            ELSE IF t.value > MaxInt \/ (t.next + t.value) - 1 > Len(data) THEN Failed("ErrInvalidMigration")
            ELSE Read(SubSeq(data, t.next, (t.next + t.value) - 1), t.next + t.value)
    BY DEF ReadProtoBytes, ThenRead
  <1> HIDE DEF r, w, s, t
  <1>6. ASSUME s = t, NEW v \in 0 .. MaxUint64, NEW next \in i + 1 .. m + 1, s = Read(v, next)
        PROVE  r.err # "nil" \/ r = w
    <2>0. MaxUint64 \in Nat
      BY WidthsAssumption
    <2>1. s.err = "nil" /\ s.value = v /\ s.next = next
      BY <1>6 DEF Read
    <2>2. CASE v > MaxInt \/ (next + v) - 1 > m
      <3>1. r = Failed("ErrInvalidMigration")
        BY <1>4, <2>1, <2>2
      <3> QED BY <3>1 DEF Failed
    <2>3. CASE ~ (v > MaxInt \/ (next + v) - 1 > m)
      <3> DEFINE e == (next + v) - 1
      <3>1. ~ (e > Len(data)) /\ e \in Nat /\ e <= m /\ next \in Nat \ {0}
        BY <1>0, <2>0, <2>3
      <3>2. r = Read(SubSeq(c, next, e), next + v)
        BY <1>4, <2>1, <2>3
      <3>3. w = Read(SubSeq(data, next, e), next + v)
        BY <1>5, <1>6, <2>1, <2>3, <3>1
      <3> HIDE DEF e
      <3>4. SubSeq(c, next, e) = SubSeq(data, next, e)
        BY <1>1, <3>1
      <3> QED BY <3>2, <3>3, <3>4, Zenon
    <2> QED BY <2>2, <2>3
  <1>7. Failed("ErrInvalidMigration").err # "nil"
    BY DEF Failed
  <1>8. r.err # "nil" \/ r = w
    BY <1>2, <1>3, <1>4, <1>7, <1>6, Zenon DEF Reads
  <1> QED BY <1>8 DEF r, w, c

(* The value of a field. *)
Values == 0 .. MaxUint64 \cup Seq(Byte)

(* The value of a field of a payload. *)
LEMMA PayloadFieldReads ==
    ASSUME NEW data \in Seq(Byte), NEW i \in Nat \ {0}, NEW num, NEW wire
    PROVE  Reads(ReadPayloadField(data, i, num, wire), Values, i, Len(data))
  <1> DEFINE r == ReadPayloadField(data, i, num, wire)
             f == Failed("ErrInvalidMigration")
  <1>1. Reads(ReadProtoVarint(data, i), Values, i, Len(data))
    BY VarintReads, Zenon DEF Reads, Values
  <1>2. Reads(ReadProtoBytes(data, i), Values, i, Len(data))
    BY BytesRead, Zenon DEF Reads, Values
  <1>3. Reads(f, Values, i, Len(data))
    BY Zenon DEF Reads
  <1>4. r \in {f, ReadProtoVarint(data, i), ReadProtoBytes(data, i)}
    BY DEF ReadPayloadField, ReadScalar, SkipProtoField
  <1> HIDE DEF f, r
  <1> QED BY <1>1, <1>2, <1>3, <1>4 DEF r

(* It is the same in the cut data. *)
LEMMA PayloadFieldCut ==
    ASSUME NEW data \in Seq(Byte), NEW m \in 0 .. Len(data), NEW i \in Nat \ {0}, NEW num, NEW wire
    PROVE  LET r == ReadPayloadField(SubSeq(data, 1, m), i, num, wire)
           IN  r.err # "nil" \/ r = ReadPayloadField(data, i, num, wire)
  <1> DEFINE c == SubSeq(data, 1, m)
             r(d) == ReadPayloadField(d, i, num, wire)
             f == Failed("ErrInvalidMigration")
  <1>1. ReadProtoVarint(c, i).err # "nil" \/ ReadProtoVarint(c, i) = ReadProtoVarint(data, i)
    BY VarintCut
  <1>2. ReadProtoBytes(c, i).err # "nil" \/ ReadProtoBytes(c, i) = ReadProtoBytes(data, i)
    BY BytesCut
  <1>3. f.err # "nil"
    BY DEF Failed
  <1> HIDE DEF f, c
  <1>4. \/ r(c) = f
        \/ r(c) = ReadProtoVarint(c, i) /\ r(data) = ReadProtoVarint(data, i)
        \/ r(c) = ReadProtoBytes(c, i) /\ r(data) = ReadProtoBytes(data, i)
    BY DEF ReadPayloadField, ReadScalar, SkipProtoField, f
  <1> HIDE DEF r
  <1>5. r(c).err # "nil" \/ r(c) = r(data)
    BY <1>1, <1>2, <1>3, <1>4
  <1> QED BY <1>5 DEF r, c

(* What an account can be read as, and what a payload holds. *)
ReadAccounts == {DecodeMigrationAccount(v).value : v \in Values}

Payloads ==
    [accounts : Seq(ReadAccounts), version : Values, batchSize : Values, batchIndex : Values,
     batchID : Values]

(* A field is an error, or adds to a payload. *)
LEMMA PayloadFieldSet ==
    ASSUME NEW p \in Payloads, NEW v \in Values, NEW num
    PROVE  LET s == SetPayloadField(p, num, v)
           IN  \/ s.err # "nil" /\ s \in {Failed("ErrInvalidMigration")} \cup {DecodeMigrationAccount(x) : x \in Values}
               \/ s.err = "nil" /\ s.value \in Payloads /\ Begins(p.accounts, s.value.accounts)
  <1> DEFINE s == SetPayloadField(p, num, v)
             a == DecodeMigrationAccount(v)
             k == CheckedUint64ToInt32(v)
             f == Failed("ErrInvalidMigration")
  <1>0. p.accounts \in Seq(ReadAccounts)
    BY DEF Payloads
  <1>1. Begins(p.accounts, p.accounts)
    BY <1>0 DEF Begins
  <1>2. CASE num = 1
    <2>1. s = IF a.err # "nil" THEN a ELSE Ok([p EXCEPT !.accounts = Append(p.accounts, a.value)])
      BY <1>2 DEF SetPayloadField, Then
    <2>2. CASE a.err # "nil"
      BY <2>1, <2>2
    <2>3. CASE a.err = "nil"
      <3> DEFINE q == [p EXCEPT !.accounts = Append(p.accounts, a.value)]
                 t == Append(p.accounts, a.value)
      <3>1. s = Ok(q)
        BY <2>1, <2>3
      <3>2. a.value \in ReadAccounts
        BY DEF ReadAccounts
      <3> HIDE DEF a
      <3>3. t \in Seq(ReadAccounts) /\ Begins(p.accounts, t)
        BY <1>0, <3>2 DEF Begins
      <3> HIDE DEF t
      <3>4. q.accounts = t /\ q \in Payloads
        BY <3>3 DEF Payloads, t
      <3>5. s.err = "nil" /\ s.value = q
        BY <3>1 DEF Ok
      <3> QED BY <3>3, <3>4, <3>5
    <2> QED BY <2>2, <2>3
  <1>3. CASE num # 1
    <2>1. k = f \/ k = Ok(v)
      BY DEF CheckedUint64ToInt32
    <2>2. f.err # "nil" /\ Ok(v).err = "nil" /\ Ok(v).value = v
      BY DEF Failed, Ok
    <2> HIDE DEF k, f
    <2>3. \/ k = f /\ s = f
          \/ s \in {Ok([p EXCEPT !.version = v]), Ok([p EXCEPT !.batchSize = v]),
                    Ok([p EXCEPT !.batchIndex = v]), Ok([p EXCEPT !.batchID = v]), Ok(p)}
      <3>1. s = CASE num = 2 -> (IF k.err # "nil" THEN k ELSE Ok([p EXCEPT !.version = k.value]))
                  [] num = 3 -> (IF k.err # "nil" THEN k ELSE Ok([p EXCEPT !.batchSize = k.value]))
                  [] num = 4 -> (IF k.err # "nil" THEN k ELSE Ok([p EXCEPT !.batchIndex = k.value]))
                  [] num = 5 -> (IF k.err # "nil" THEN k ELSE Ok([p EXCEPT !.batchID = k.value]))
                  [] OTHER   -> Ok(p)
        BY <1>3 DEF SetPayloadField, Then, k
      <3>2. CASE k = f
        BY <2>2, <3>1, <3>2
      <3>3. CASE k = Ok(v)
        <4>1. k.err = "nil" /\ k.value = v
          BY <2>2, <3>3
        <4> QED BY <3>1, <4>1
      <3> QED BY <2>1, <3>2, <3>3
    <2>4. CASE s = f
      BY <2>2, <2>4 DEF f
    <2>5. ASSUME NEW q, s = Ok(q),
                 q \in {[p EXCEPT !.version = v], [p EXCEPT !.batchSize = v],
                        [p EXCEPT !.batchIndex = v], [p EXCEPT !.batchID = v], p}
          PROVE  s.err = "nil" /\ s.value \in Payloads /\ Begins(p.accounts, s.value.accounts)
      <3>1. s.err = "nil" /\ s.value = q
        BY <2>5 DEF Ok
      <3>2. q \in Payloads /\ q.accounts = p.accounts
        BY <2>5 DEF Payloads
      <3> QED BY <1>1, <3>1, <3>2
    <2> QED BY <2>3, <2>4, <2>5
  <1> QED BY <1>2, <1>3

(* The loop over the fields of a payload: one turn, and what it carries. *)
PayloadTurn(data, r) == NextField(data, r, ReadPayloadField, SetPayloadField)

PayloadStates(n) == {Read(p, next) : p \in Payloads, next \in 1 .. n + 1}

PayloadErrors ==
    {e \in {Failed("ErrInvalidMigration")} \cup {DecodeMigrationAccount(v) : v \in Values} : e.err # "nil"}

(* A turn, with the readers' results by name. *)
LEMMA PayloadTurnIs ==
    ASSUME NEW data, NEW r
    PROVE  PayloadTurn(data, r) =
             LET tag   == ReadProtoVarint(data, r.next)
                 num   == tag.value \div 8
                 field == ReadPayloadField(data, tag.next, num, tag.value % 8)
                 set   == SetPayloadField(r.value, num, field.value)
             IN  IF r.err # "nil" \/ r.next > Len(data) THEN r
                 ELSE IF tag.err # "nil" THEN tag
                 ELSE IF field.err # "nil" THEN field
                 ELSE IF set.err # "nil" THEN set
                 ELSE Read(set.value, field.next)
  BY Zenon DEF PayloadTurn, NextField, ThenRead, Then

(* What a state holds. *)
LEMMA PayloadState ==
    ASSUME NEW n \in Nat, NEW r \in PayloadStates(n)
    PROVE  /\ r.err = "nil" /\ r.value \in Payloads /\ r.next \in 1 .. n + 1
           /\ r = Read(r.value, r.next)
  <1>1. PICK p \in Payloads, next \in 1 .. n + 1 : r = Read(p, next)
    BY DEF PayloadStates
  <1>2. r.err = "nil" /\ r.value = p /\ r.next = next
    BY <1>1 DEF Read
  <1> QED BY <1>1, <1>2

(* A turn adds to the payload, or ends in an error. *)
LEMMA PayloadTurnTyped ==
    ASSUME NEW data \in Seq(Byte), NEW r \in PayloadStates(Len(data)) \cup PayloadErrors
    PROVE  LET s == PayloadTurn(data, r)
           IN  \/ s \in PayloadErrors
               \/ /\ s \in PayloadStates(Len(data)) /\ r \in PayloadStates(Len(data))
                  /\ Begins(r.value.accounts, s.value.accounts)
  <1> DEFINE n == Len(data)
             s == PayloadTurn(data, r)
             tag == ReadProtoVarint(data, r.next)
             num == tag.value \div 8
             field == ReadPayloadField(data, tag.next, num, tag.value % 8)
             set == SetPayloadField(r.value, num, field.value)
             f == Failed("ErrInvalidMigration")
  <1>0. n \in Nat /\ f \in PayloadErrors /\ f.err # "nil"
    BY DEF PayloadErrors, Failed
  <1>1. s = IF r.err # "nil" \/ r.next > n THEN r
            ELSE IF tag.err # "nil" THEN tag
            ELSE IF field.err # "nil" THEN field
            ELSE IF set.err # "nil" THEN set
            ELSE Read(set.value, field.next)
    BY PayloadTurnIs
  <1>2. CASE r \in PayloadErrors
    <2>1. r.err # "nil"
      BY <1>2 DEF PayloadErrors
    <2>2. s = r
      BY <1>1, <2>1
    <2> HIDE DEF s
    <2> QED BY <1>2, <2>2 DEF s
  <1>3. CASE r \in PayloadStates(n)
    <2>1. r.err = "nil" /\ r.value \in Payloads /\ r.next \in 1 .. n + 1
      BY <1>0, <1>3, PayloadState
    <2>2. CASE r.next > n
      <3>1. s = r
        BY <1>1, <2>2
      <3>2. Begins(r.value.accounts, r.value.accounts)
        BY <2>1 DEF Begins, Payloads
      <3> HIDE DEF s
      <3> QED BY <1>3, <3>1, <3>2 DEF s
    <2>3. CASE ~ (r.next > n)
      <3>1. r.next \in Nat \ {0}
        BY <1>0, <2>1
      <3>2. Reads(tag, 0 .. MaxUint64, r.next, n)
        BY <3>1, VarintReads
      <3>3. CASE tag = f
        <4>1. s = f
          BY <1>0, <1>1, <2>1, <2>3, <3>3
        <4> HIDE DEF s, f
        <4> QED BY <1>0, <4>1 DEF s
      <3>4. ASSUME NEW t \in 0 .. MaxUint64, NEW next \in r.next + 1 .. n + 1, tag = Read(t, next)
            PROVE  \/ s \in PayloadErrors
                   \/ /\ s \in PayloadStates(n) /\ r \in PayloadStates(n)
                      /\ Begins(r.value.accounts, s.value.accounts)
        <4>1. tag.err = "nil" /\ tag.next = next
          BY <3>4 DEF Read
        <4>2. next \in Nat \ {0}
          BY <1>0, <3>1
        <4>3. Reads(field, Values, next, n)
          BY <4>1, <4>2, PayloadFieldReads
        <4> HIDE DEF tag, num, s
        <4>4. CASE field = f
          <5>1. s = f
            BY <1>0, <1>1, <2>1, <2>3, <4>1, <4>4
          <5> QED BY <1>0, <5>1
        <4>5. ASSUME NEW v \in Values, NEW after \in next + 1 .. n + 1, field = Read(v, after)
              PROVE  \/ s \in PayloadErrors
                     \/ /\ s \in PayloadStates(n) /\ r \in PayloadStates(n)
                        /\ Begins(r.value.accounts, s.value.accounts)
          <5>1. field.err = "nil" /\ field.value = v /\ field.next = after
            BY <4>5 DEF Read
          <5>2. \/ set.err # "nil" /\ set \in {f} \cup {DecodeMigrationAccount(x) : x \in Values}
                \/ set.err = "nil" /\ set.value \in Payloads /\ Begins(r.value.accounts, set.value.accounts)
            BY <2>1, <5>1, PayloadFieldSet
          <5> HIDE DEF field, set
          <5>3. CASE set.err # "nil"
            <6>1. s = set
              BY <1>1, <2>1, <2>3, <4>1, <5>1, <5>3
            <6> QED BY <5>2, <5>3, <6>1 DEF PayloadErrors
          <5>4. CASE set.err = "nil"
            <6>1. s = Read(set.value, after)
              BY <1>1, <2>1, <2>3, <4>1, <5>1, <5>4
            <6>2. after \in 1 .. n + 1
              BY <1>0, <4>2
            <6>3. s \in PayloadStates(n)
              BY <5>2, <5>4, <6>1, <6>2 DEF PayloadStates
            <6>4. s.value = set.value
              BY <6>1 DEF Read
            <6> QED BY <1>3, <5>2, <5>4, <6>3, <6>4
          <5> QED BY <5>3, <5>4
        <4> HIDE DEF field, f
        <4> QED BY <4>3, <4>4, <4>5, Zenon DEF Reads, f
      <3> HIDE DEF tag, f
      <3> QED BY <3>2, <3>3, <3>4, Zenon DEF Reads, f
    <2> QED BY <2>2, <2>3
  <1> QED BY <1>2, <1>3

(* A turn over the cut data is the one over the whole, unless it fails or   *)
(* the cut data has come to its end.                                        *)
LEMMA PayloadTurnCut ==
    ASSUME NEW data \in Seq(Byte), NEW m \in 0 .. Len(data), NEW r \in PayloadStates(m)
    PROVE  LET s == PayloadTurn(SubSeq(data, 1, m), r)
           IN  s.err # "nil" \/ s = PayloadTurn(data, r) \/ (s = r /\ r.next > m)
  <1> DEFINE c == SubSeq(data, 1, m)
             i == r.next
             tag(d) == ReadProtoVarint(d, i)
             field(d, t) == ReadPayloadField(d, t.next, t.value \div 8, t.value % 8)
             set(t, g) == SetPayloadField(r.value, t.value \div 8, g.value)
             s(d) == PayloadTurn(d, r)
  <1>0. m \in Nat /\ Len(data) \in Nat /\ m <= Len(data)
    OBVIOUS
  <1>1. c \in Seq(Byte) /\ Len(c) = m
    BY CutTyped
  <1>2. r.err = "nil" /\ i \in 1 .. m + 1
    BY <1>0, PayloadState
  <1>3. i \in Nat \ {0}
    BY <1>0, <1>2
  <1>4. tag(c).err # "nil" \/ tag(c) = tag(data)
    BY <1>3, VarintCut
  <1>5. Reads(tag(c), 0 .. MaxUint64, i, m)
    BY <1>1, <1>3, VarintReads
  <1>6. \A d : s(d) = IF r.err # "nil" \/ i > Len(d) THEN r
                      ELSE IF tag(d).err # "nil" THEN tag(d)
                      ELSE IF field(d, tag(d)).err # "nil" THEN field(d, tag(d))
                      ELSE IF set(tag(d), field(d, tag(d))).err # "nil" THEN set(tag(d), field(d, tag(d)))
                      ELSE Read(set(tag(d), field(d, tag(d))).value, field(d, tag(d)).next)
    BY PayloadTurnIs, Zenon
  <1>7. CASE i > m
    <2>1. s(c) = r
      BY <1>1, <1>6, <1>7
    <2> QED BY <1>7, <2>1
  <1>8. CASE ~ (i > m)
    <2>1. ~ (i > Len(data)) /\ ~ (i > Len(c))
      BY <1>0, <1>1, <1>3, <1>8
    <2>2. CASE tag(c).err # "nil"
      <3>1. s(c) = tag(c)
        BY <1>2, <1>6, <2>1, <2>2
      <3> QED BY <2>2, <3>1
    <2>3. ASSUME NEW t \in 0 .. MaxUint64, NEW next \in i + 1 .. m + 1, tag(c) = Read(t, next)
          PROVE  s(c).err # "nil" \/ s(c) = s(data)
      <3> DEFINE g == tag(c)
      <3>1. g.err = "nil" /\ g.next = next
        BY <2>3 DEF Read
      <3>2. tag(data) = g
        BY <1>4, <3>1
      <3>3. next \in Nat \ {0}
        BY <1>0, <1>3
      <3>4. field(c, g).err # "nil" \/ field(c, g) = field(data, g)
        BY <3>1, <3>3, PayloadFieldCut
      <3> HIDE DEF g, c, s, field, set
      <3>5. s(c) = IF field(c, g).err # "nil" THEN field(c, g)
                   ELSE IF set(g, field(c, g)).err # "nil" THEN set(g, field(c, g))
                   ELSE Read(set(g, field(c, g)).value, field(c, g).next)
        BY <1>2, <1>6, <2>1, <3>1 DEF g
      <3>6. s(data) = IF field(data, g).err # "nil" THEN field(data, g)
                      ELSE IF set(g, field(data, g)).err # "nil" THEN set(g, field(data, g))
                      ELSE Read(set(g, field(data, g)).value, field(data, g).next)
        BY <1>2, <1>6, <2>1, <3>1, <3>2
      <3> QED BY <3>4, <3>5, <3>6, Zenon
    <2>4. tag(c).err # "nil" \/ \E t \in 0 .. MaxUint64, next \in i + 1 .. m + 1 : tag(c) = Read(t, next)
      <3>1. Failed("ErrInvalidMigration").err # "nil"
        BY DEF Failed
      <3> QED BY <1>5, <3>1, Zenon DEF Reads
    <2> QED BY <2>2, <2>3, <2>4
  <1> QED BY <1>7, <1>8

(* The parser of a payload, and its loop. *)
ParsePayload(data) == ReadMessage(data, NewPayload, ReadPayloadField, SetPayloadField)

LoopStates(n) == PayloadStates(n) \cup PayloadErrors

(* The loop starts with an empty payload. *)
LEMMA PayloadStart ==
    ASSUME NEW n \in Nat PROVE Read(NewPayload, 1) \in PayloadStates(n)
  <1>1. NewPayload \in Payloads
    <2>1. 0 \in Values
      BY WidthsAssumption DEF Values
    <2>2. <<>> \in Seq(ReadAccounts)
      OBVIOUS
    <2> QED BY <2>1, <2>2 DEF NewPayload, Payloads
  <1>2. 1 \in 1 .. n + 1
    OBVIOUS
  <1> QED BY <1>1, <1>2 DEF PayloadStates

(* What the loop has read after each turn. *)
LEMMA PayloadLoop ==
    ASSUME NEW data \in Seq(Byte)
    PROVE  \E A \in [0 .. Len(data) -> LoopStates(Len(data))] :
              /\ A[0] = Read(NewPayload, 1)
              /\ \A n \in 1 .. Len(data) : A[n] = PayloadTurn(data, A[n - 1])
              /\ ParsePayload(data) =
                    IF A[Len(data)].err # "nil" THEN A[Len(data)] ELSE Ok(A[Len(data)].value)
  <1> DEFINE N == Len(data)
             T == LoopStates(N)
             b == Read(NewPayload, 1)
             turn(x) == PayloadTurn(data, x)
             F == CHOOSE after : after = [n \in 0 .. N |-> IF n = 0 THEN b ELSE turn(after[n - 1])]
             Eq(h) == h = [n \in 0 .. N |-> IF n = 0 THEN b ELSE turn(h[n - 1])]
             g == [n \in 1 .. N |-> [x \in T |-> turn(x)]]
  <1>0. N \in Nat
    OBVIOUS
  <1>1. ParsePayload(data) = IF F[N].err # "nil" THEN F[N] ELSE Ok(F[N].value)
    BY DEF ParsePayload, ReadMessage, PayloadTurn, Then
  <1>2. b \in T
    BY <1>0, PayloadStart DEF LoopStates
  <1>3. ASSUME NEW x \in T PROVE turn(x) \in T
    BY PayloadTurnTyped DEF LoopStates
  <1> HIDE DEF N, T, b, turn
  <1>4. g \in [1 .. N -> [T -> T]]
    BY <1>3
  <1>5. PICK f \in [0 .. N -> T] : f[0] = b /\ \A n \in 1 .. N : f[n] = g[n][f[n - 1]]
    <2> HIDE DEF g
    <2>1. \E f : Turns(f, T, b, N, g)
      BY <1>0, <1>2, <1>4, LoopExists
    <2> QED BY <2>1 DEF Turns
  <1>6. ASSUME NEW n \in 1 .. N PROVE f[n] = turn(f[n - 1])
    <2>1. n - 1 \in 0 .. N /\ f[n - 1] \in T
      BY <1>0
    <2> QED BY <1>5, <2>1
  <1>7. Eq(f)
    BY <1>0, <1>5, <1>6
  <1>8. Eq(F)
    BY <1>7
  <1> HIDE DEF F
  <1>9. F[0] = b /\ \A n \in 1 .. N : F[n] = turn(F[n - 1])
    <2>1. F = [n \in 0 .. N |-> IF n = 0 THEN b ELSE turn(F[n - 1])]
      BY <1>8
    <2> QED BY <1>0, <2>1
  <1> DEFINE At == {n \in Nat : n <= N => F[n] = f[n]}
  <1>10. 0 \in At
    BY <1>5, <1>9
  <1>11. ASSUME NEW n \in Nat, n \in At PROVE n + 1 \in At
    <2> SUFFICES ASSUME n + 1 <= N PROVE F[n + 1] = f[n + 1]
      OBVIOUS
    <2>1. n + 1 \in 1 .. N /\ (n + 1) - 1 = n /\ F[n] = f[n]
      BY <1>0, <1>11
    <2> QED BY <1>6, <1>9, <2>1
  <1>12. N \in At
    <2> HIDE DEF At
    <2> QED BY <1>0, <1>10, <1>11, InductionOnSet
  <1>13. F[N] = f[N]
    BY <1>0, <1>12
  <1> QED BY <1>1, <1>5, <1>6, <1>13 DEF N, T, b, turn

(* The accounts that the loop has read stay. *)
LEMMA PayloadGrows ==
    ASSUME NEW data \in Seq(Byte), NEW A \in [0 .. Len(data) -> LoopStates(Len(data))],
           \A n \in 1 .. Len(data) : A[n] = PayloadTurn(data, A[n - 1]),
           NEW k \in 0 .. Len(data), NEW j \in k .. Len(data), A[j].err = "nil"
    PROVE  Begins(A[k].value.accounts, A[j].value.accounts)
  <1> DEFINE N == Len(data)
             a(n) == A[n].value.accounts
             At == {n \in Nat : k + n <= j /\ A[k + n].err = "nil" => Begins(a(k), a(k + n))}
  <1>0. N \in Nat /\ k \in Nat /\ j \in Nat
    OBVIOUS
  <1>1. ASSUME NEW n \in 0 .. N, A[n].err = "nil" PROVE A[n] \in PayloadStates(N) /\ a(n) \in Seq(ReadAccounts)
    <2>1. A[n] \in PayloadStates(N)
      BY <1>1 DEF LoopStates, PayloadErrors
    <2>2. A[n].value \in Payloads
      BY <1>0, <2>1, PayloadState
    <2> QED BY <2>1, <2>2 DEF Payloads
  <1>2. 0 \in At
    <2>1. SUFFICES ASSUME A[k].err = "nil" PROVE Begins(a(k), a(k))
      BY <1>0
    <2>2. a(k) \in Seq(ReadAccounts)
      BY <1>0, <1>1, <2>1
    <2> HIDE DEF a
    <2> QED BY <2>2 DEF Begins
  <1>3. ASSUME NEW n \in Nat, n \in At PROVE n + 1 \in At
    <2> DEFINE m == k + n
    <2>1. SUFFICES ASSUME m + 1 <= j, A[m + 1].err = "nil" PROVE Begins(a(k), a(m + 1))
      BY <1>0
    <2>2. m + 1 \in 1 .. N /\ (m + 1) - 1 = m /\ m \in 0 .. N /\ m + 1 \in 0 .. N /\ m <= j
      BY <1>0, <2>1
    <2> HIDE DEF m
    <2>3. A[m + 1] = PayloadTurn(data, A[m]) /\ A[m] \in LoopStates(N)
      BY <2>2
    <2>4. A[m + 1] \notin PayloadErrors
      BY <2>1 DEF PayloadErrors
    <2>5. A[m] \in PayloadStates(N) /\ Begins(A[m].value.accounts, A[m + 1].value.accounts)
      BY <2>3, <2>4, PayloadTurnTyped DEF LoopStates
    <2>6. A[m].err = "nil"
      BY <1>0, <2>5, PayloadState
    <2>7. Begins(a(k), a(m))
      BY <1>3, <2>2, <2>6 DEF m
    <2>8. a(m) \in Seq(ReadAccounts) /\ a(m + 1) \in Seq(ReadAccounts)
      BY <1>1, <2>1, <2>2, <2>6
    <2>9. k \in 0 .. N /\ Len(a(m)) \in Nat /\ Len(a(m + 1)) \in Nat /\ Begins(a(m), a(m + 1))
      BY <2>5, <2>8
    <2>10. A[k].err = "nil"
      <3>1. CASE A[k].err # "nil"
        <4> DEFINE Bad == {x \in Nat : k + x <= N => A[k + x].err # "nil"}
        <4>1. 0 \in Bad
          BY <1>0, <3>1
        <4>2. ASSUME NEW x \in Nat, x \in Bad PROVE x + 1 \in Bad
          <5>1. SUFFICES ASSUME (k + x) + 1 <= N PROVE A[(k + x) + 1].err # "nil"
            BY <1>0
          <5> DEFINE y == k + x
          <5>2. y + 1 \in 1 .. N /\ (y + 1) - 1 = y /\ y \in 0 .. N /\ A[y].err # "nil"
            BY <1>0, <4>2, <5>1
          <5> HIDE DEF y
          <5>3. A[y + 1] = PayloadTurn(data, A[y])
            BY <5>2
          <5>4. PayloadTurn(data, A[y]) = A[y]
            BY <5>2, PayloadTurnIs
          <5> QED BY <5>2, <5>3, <5>4 DEF y
        <4>3. n \in Bad
          <5> HIDE DEF Bad
          <5> QED BY <4>1, <4>2, InductionOnSet
        <4> QED BY <2>2, <2>6, <4>3 DEF m
      <3> QED BY <3>1
    <2>11. a(k) \in Seq(ReadAccounts)
      BY <1>1, <2>10
    <2> HIDE DEF a
    <2> QED BY <2>7, <2>8, <2>9, <2>11 DEF Begins
  <1>4. j - k \in At
    <2> HIDE DEF At
    <2>1. j - k \in Nat
      BY <1>0
    <2> QED BY <1>2, <1>3, <2>1, InductionOnSet
  <1> QED BY <1>0, <1>4

(* The parser reads of cut data an error, or some of the first accounts. *)
LEMMA CutIsParsed ==
    ASSUME NEW data \in Seq(Byte), NEW m \in 0 .. Len(data),
           ParsePayload(data).err = "nil", ParsePayload(SubSeq(data, 1, m)).err = "nil"
    PROVE  IsPrefix(ParsePayload(SubSeq(data, 1, m)).value.accounts, ParsePayload(data).value.accounts)
  <1> DEFINE c == SubSeq(data, 1, m)
             N == Len(data)
  <1>0. m \in Nat /\ N \in Nat /\ m <= N
    OBVIOUS
  <1>1. c \in Seq(Byte) /\ Len(c) = m
    BY CutTyped
  <1>2. PICK A \in [0 .. N -> LoopStates(N)] :
               /\ A[0] = Read(NewPayload, 1)
               /\ \A n \in 1 .. N : A[n] = PayloadTurn(data, A[n - 1])
               /\ ParsePayload(data) = IF A[N].err # "nil" THEN A[N] ELSE Ok(A[N].value)
    BY PayloadLoop
  <1>3. \A r \in PayloadStates(m) : LET s == PayloadTurn(c, r)
                                    IN  s.err # "nil" \/ s = PayloadTurn(data, r) \/ (s = r /\ r.next > m)
    BY PayloadTurnCut
  <1>4. ParsePayload(c).err = "nil"
    OBVIOUS
  <1> HIDE DEF c
  <1>5. PICK C \in [0 .. m -> LoopStates(m)] :
               /\ C[0] = Read(NewPayload, 1)
               /\ \A n \in 1 .. m : C[n] = PayloadTurn(c, C[n - 1])
               /\ ParsePayload(c) = IF C[m].err # "nil" THEN C[m] ELSE Ok(C[m].value)
    BY <1>1, PayloadLoop
  <1> HIDE DEF N
  <1> DEFINE Same(n) == \E k \in 0 .. n : C[n] = A[k] /\ (k = n \/ C[n].next > m)
             At == {n \in Nat : n <= m => C[n].err # "nil" \/ Same(n)}
  <1>6. 0 \in At
    <2>1. 0 \in 0 .. 0 /\ C[0] = A[0]
      BY <1>2, <1>5
    <2> QED BY <2>1
  <1>7. ASSUME NEW n \in Nat, n \in At PROVE n + 1 \in At
    <2>1. SUFFICES ASSUME n + 1 <= m PROVE C[n + 1].err # "nil" \/ Same(n + 1)
      OBVIOUS
    <2>2. n + 1 \in 1 .. m /\ (n + 1) - 1 = n /\ n \in 0 .. m /\ n + 1 \in 1 .. N
      BY <1>0, <2>1
    <2>3. C[n + 1] = PayloadTurn(c, C[n]) /\ A[n + 1] = PayloadTurn(data, A[n]) /\ C[n] \in LoopStates(m)
      BY <1>2, <1>5, <2>2
    <2>4. CASE C[n].err # "nil"
      <3>1. PayloadTurn(c, C[n]) = C[n]
        BY <2>4, PayloadTurnIs
      <3> QED BY <2>3, <2>4, <3>1
    <2>5. CASE C[n].err = "nil"
      <3>1. C[n] \in PayloadStates(m)
        BY <2>3, <2>5 DEF LoopStates, PayloadErrors
      <3>2. PICK k \in 0 .. n : C[n] = A[k] /\ (k = n \/ C[n].next > m)
        BY <1>7, <2>1, <2>5
      <3>3. k \in 0 .. n + 1 /\ n + 1 \in 0 .. n + 1
        OBVIOUS
      <3>4. CASE C[n].next > m
        <4>1. PayloadTurn(c, C[n]) = C[n]
          BY <1>1, <3>4, PayloadTurnIs
        <4>2. C[n + 1] = A[k] /\ C[n + 1].next > m
          BY <2>3, <3>2, <3>4, <4>1
        <4> QED BY <3>3, <4>2
      <3>5. CASE ~ (C[n].next > m)
        <4>1. C[n + 1].err # "nil" \/ C[n + 1] = PayloadTurn(data, C[n])
          BY <1>3, <2>3, <3>1, <3>5
        <4>2. C[n] = A[n]
          BY <3>2, <3>5
        <4>3. C[n + 1].err # "nil" \/ C[n + 1] = A[n + 1]
          BY <2>3, <4>1, <4>2
        <4> QED BY <3>3, <4>3
      <3> QED BY <3>4, <3>5
    <2> QED BY <2>4, <2>5
  <1>8. m \in At
    <2> HIDE DEF At
    <2> QED BY <1>0, <1>6, <1>7, InductionOnSet
  <1>9. A[N].err = "nil" /\ C[m].err = "nil"
    BY <1>2, <1>4, <1>5 DEF N
  <1>10. PICK k \in 0 .. m : C[m] = A[k]
    BY <1>0, <1>8, <1>9
  <1>11. k \in 0 .. N /\ N \in k .. N
    BY <1>0
  <1>12. Begins(A[k].value.accounts, A[N].value.accounts)
    BY <1>2, <1>9, <1>11, PayloadGrows DEF N
  <1>13. \A x \in 0 .. N : A[x].err = "nil" => A[x].value.accounts \in Seq(ReadAccounts)
    <2> SUFFICES ASSUME NEW x \in 0 .. N, A[x].err = "nil" PROVE A[x].value.accounts \in Seq(ReadAccounts)
      OBVIOUS
    <2>1. A[x] \in PayloadStates(N)
      BY <1>2 DEF LoopStates, PayloadErrors
    <2>2. A[x].value \in Payloads
      BY <1>0, <2>1, PayloadState
    <2> QED BY <2>2 DEF Payloads
  <1>14. IsPrefix(A[k].value.accounts, A[N].value.accounts)
    <2>1. A[k].value.accounts \in Seq(ReadAccounts) /\ A[N].value.accounts \in Seq(ReadAccounts)
      BY <1>9, <1>10, <1>11, <1>13
    <2> QED BY <1>12, <2>1, BeginsIsPrefix
  <1>15. ParsePayload(c).value = A[k].value /\ ParsePayload(data).value = A[N].value
    BY <1>2, <1>5, <1>9, <1>10 DEF Ok
  <1>16. IsPrefix(ParsePayload(c).value.accounts, ParsePayload(data).value.accounts)
    BY <1>14, <1>15
  <1> QED BY <1>16 DEF c

(* Byte i of a text in base64. *)
ByteOfText(g, i) ==
    LET d == (4 * (i - 1)) \div 3
    IN  CASE i % 3 = 1 -> g[d + 1] * 4 + g[d + 2] \div 16
          [] i % 3 = 2 -> (g[d + 1] % 16) * 16 + g[d + 2] \div 4
          [] i % 3 = 0 -> (g[d + 1] % 4) * 64 + g[d + 2]

(* It is a byte, and two digits of the text decide it. *)
LEMMA ByteOfTextTyped ==
    ASSUME NEW g \in Seq(0 .. 63), NEW i \in 1 .. (6 * Len(g)) \div 8
    PROVE  LET d == (4 * (i - 1)) \div 3
           IN  d + 1 \in 1 .. Len(g) /\ d + 2 \in 1 .. Len(g) /\ ByteOfText(g, i) \in Byte
  <1> DEFINE N == Len(g)
             d == (4 * (i - 1)) \div 3
             x == g[d + 1]
             y == g[d + 2]
  <1>0. N \in Nat /\ \A k \in 1 .. N : g[k] \in 0 .. 63
    BY ElementOfSeq
  <1>1. i \in Nat /\ i >= 1 /\ 8 * i <= 6 * N
    BY <1>0
  <1> HIDE DEF N
  <1>2. d \in Nat /\ 3 * d <= 4 * (i - 1)
    BY <1>1
  <1>3. d + 1 \in 1 .. N /\ d + 2 \in 1 .. N
    <2> HIDE DEF d
    <2> QED BY <1>0, <1>1, <1>2
  <1> HIDE DEF d
  <1>4. x \in 0 .. 63 /\ y \in 0 .. 63
    BY <1>0, <1>3
  <1>5. i % 3 = 1 \/ i % 3 = 2 \/ i % 3 = 0
    BY <1>1
  <1>6. ByteOfText(g, i) = CASE i % 3 = 1 -> x * 4 + y \div 16
                             [] i % 3 = 2 -> (x % 16) * 16 + y \div 4
                             [] i % 3 = 0 -> (x % 4) * 64 + y
    BY DEF ByteOfText, d
  <1> HIDE DEF x, y
  <1>7. x * 4 + y \div 16 \in Byte /\ (x % 16) * 16 + y \div 4 \in Byte /\ (x % 4) * 64 + y \in Byte
    BY <1>4 DEF Byte
  <1>8. ByteOfText(g, i) \in Byte
    <2> HIDE DEF Byte
    <2> QED BY <1>5, <1>6, <1>7
  <1> QED BY <1>3, <1>8 DEF N, d

(* A text in base64 is bytes. *)
LEMMA BytesTyped ==
    ASSUME NEW g \in Seq(0 .. 63)
    PROVE  /\ Bytes(g) \in Seq(Byte) /\ Len(Bytes(g)) = (6 * Len(g)) \div 8
           /\ \A i \in 1 .. (6 * Len(g)) \div 8 : Bytes(g)[i] = ByteOfText(g, i)
  <1> DEFINE n == (6 * Len(g)) \div 8
  <1>1. n \in Nat
    OBVIOUS
  <1>2. Bytes(g) = [i \in 1 .. n |-> ByteOfText(g, i)]
    BY Zenon DEF Bytes, ByteOfText
  <1>3. \A i \in 1 .. n : ByteOfText(g, i) \in Byte
    BY ByteOfTextTyped
  <1> HIDE DEF n, Byte
  <1>4. Bytes(g) \in [1 .. n -> Byte]
    BY <1>2, <1>3
  <1>5. Bytes(g) \in Seq(Byte) /\ Len(Bytes(g)) = n
    BY <1>1, <1>4, SeqDef, LenProperties
  <1> QED BY <1>2, <1>5 DEF n

(* The bytes of a text that is cut short are the first ones. *)
LEMMA BytesOfCut ==
    ASSUME NEW g \in Seq(0 .. 63), NEW m \in 0 .. Len(g)
    PROVE  /\ SubSeq(g, 1, m) \in Seq(0 .. 63) /\ Len(SubSeq(g, 1, m)) = m
           /\ (6 * m) \div 8 \in 0 .. Len(Bytes(g))
           /\ Bytes(SubSeq(g, 1, m)) = SubSeq(Bytes(g), 1, (6 * m) \div 8)
  <1> DEFINE c == SubSeq(g, 1, m)
             B == Bytes(g)
             k == (6 * m) \div 8
             x == Bytes(c)
             y == SubSeq(B, 1, k)
  <1>0. m \in Nat /\ Len(g) \in Nat /\ m <= Len(g)
    OBVIOUS
  <1>1. c \in Seq(0 .. 63) /\ Len(c) = m /\ \A i \in 1 .. m : c[i] = g[i]
    BY CutOf
  <1>2. /\ B \in Seq(Byte) /\ Len(B) = (6 * Len(g)) \div 8
        /\ \A i \in 1 .. (6 * Len(g)) \div 8 : B[i] = ByteOfText(g, i)
    BY BytesTyped
  <1> HIDE DEF c
  <1>3. /\ x \in Seq(Byte) /\ Len(x) = (6 * Len(c)) \div 8
        /\ \A i \in 1 .. (6 * Len(c)) \div 8 : x[i] = ByteOfText(c, i)
    BY <1>1, BytesTyped
  <1> HIDE DEF B, x
  <1>4. k \in Nat /\ k <= Len(B) /\ Len(x) = k
    BY <1>0, <1>1, <1>2, <1>3
  <1> HIDE DEF k
  <1>5. y \in Seq(Byte) /\ Len(y) = k /\ \A i \in 1 .. k : y[i] = B[i]
    <2> HIDE DEF Byte
    <2> QED BY <1>2, <1>4
  <1>6. ASSUME NEW i \in 1 .. k PROVE x[i] = y[i]
    <2> DEFINE d == (4 * (i - 1)) \div 3
    <2>1. i \in 1 .. (6 * Len(c)) \div 8 /\ i \in 1 .. (6 * Len(g)) \div 8
      BY <1>2, <1>3, <1>4
    <2>2. d + 1 \in 1 .. m /\ d + 2 \in 1 .. m
      BY <1>1, <2>1, ByteOfTextTyped
    <2>3. c[d + 1] = g[d + 1] /\ c[d + 2] = g[d + 2]
      BY <1>1, <2>2
    <2>4. ByteOfText(c, i) = ByteOfText(g, i)
      BY <2>3, Zenon DEF ByteOfText
    <2> QED BY <1>2, <1>3, <1>5, <2>1, <2>4
  <1>7. x = y
    <2> HIDE DEF Byte, y
    <2> QED BY <1>3, <1>4, <1>5, <1>6, SeqEqual
  <1> QED BY <1>1, <1>4, <1>7 DEF c, x, y, k, B

(* Digit d of bytes in base64, from the two bytes that hold it. *)
SextetAt(bytes, d) ==
    ((256 * ByteAt(bytes, 1 + (6 * d) \div 8) + ByteAt(bytes, 2 + (6 * d) \div 8))
        \div 2 ^ (10 - ((6 * d) % 8))) % 64

(* The encoder writes the bits of the bytes, six at a time. *)
LEMMA TextWritten ==
    ASSUME NEW bytes \in Seq(Byte)
    PROVE  /\ RawURLEncoding(bytes) \in Seq(0 .. 63)
           /\ Len(RawURLEncoding(bytes)) = (8 * Len(bytes) + 5) \div 6
           /\ \A d \in Nat : d < (8 * Len(bytes) + 5) \div 6 =>
                 RawURLEncoding(bytes)[d + 1] = SextetAt(bytes, d)
  <1> DEFINE B == Len(bytes)
             D == (8 * Len(bytes) + 5) \div 6
             g == RawURLEncoding(bytes)
  <1>0. B \in Nat /\ D \in Nat /\ (8 * Len(bytes) + 6 - 1) \div 6 = D
    OBVIOUS
  <1>1. DOMAIN g = 1 .. D
    BY <1>0 DEF RawURLEncoding, Digits
  <1>2. ASSUME NEW d \in Nat, d < D
        PROVE  g[d + 1] = SextetAt(bytes, d) /\ SextetAt(bytes, d) \in 0 .. 63
    <2> DEFINE k == 1 + (6 * d) \div 8
               pair == 256 * bytes[k] + (IF k < Len(bytes) THEN bytes[k + 1] ELSE 0)
    <2>1. 6 * d <= 8 * B - 1
      BY <1>0, <1>2
    <2>2. k \in 1 .. B /\ 2 + (6 * d) \div 8 = k + 1
      BY <1>0, <2>1
    <2>3. d + 1 \in 1 .. (8 * Len(bytes) + 6 - 1) \div 6 /\ (d + 1) - 1 = d
      BY <1>0, <1>2
    <2>4. g[d + 1] = (pair \div 2 ^ (16 - 6 - ((6 * d) % 8))) % 2 ^ 6
      <3>1. g[d + 1]
              = LET bit == 6 * ((d + 1) - 1)
                    j   == 1 + bit \div 8
                    two == 256 * bytes[j] + (IF j < Len(bytes) THEN bytes[j + 1] ELSE 0)
                IN  (two \div 2 ^ (16 - 6 - (bit % 8))) % 2 ^ 6
        BY <2>3 DEF RawURLEncoding, Digits
      <3> QED BY <2>3, <3>1, Zenon
    <2>5. pair = 256 * ByteAt(bytes, k) + ByteAt(bytes, k + 1)
      <3>1. k \in 1 .. B /\ (k < B <=> k + 1 <= B)
        BY <1>0, <2>2
      <3> HIDE DEF k
      <3> QED BY <3>1 DEF ByteAt
    <2>6. g[d + 1] = SextetAt(bytes, d)
      <3>1. 2 ^ 6 = 64
        BY Powers
      <3>2. 16 - 6 - ((6 * d) % 8) = 10 - ((6 * d) % 8)
        OBVIOUS
      <3> QED BY <2>2, <2>4, <2>5, <3>1, <3>2, ZenonT(60) DEF SextetAt
    <2>7. SextetAt(bytes, d) \in 0 .. 63
      <3> DEFINE e == (6 * d) % 8
                 p == 2 ^ (10 - e)
                 a == ByteAt(bytes, k)
                 c == ByteAt(bytes, k + 1)
      <3>1. a \in 0 .. 255 /\ c \in 0 .. 255
        <4>1. k \in Nat \ {0} /\ k + 1 \in Nat \ {0}
          BY <1>0, <2>2
        <4> QED BY <4>1, ByteAtTyped
      <3>2. p \in Nat \ {0}
        <4>1. e \in 0 .. 7
          OBVIOUS
        <4> HIDE DEF e
        <4>2. \/ 10 - e = 10 \/ 10 - e = 9 \/ 10 - e = 8 \/ 10 - e = 7
              \/ 10 - e = 6 \/ 10 - e = 5 \/ 10 - e = 4 \/ 10 - e = 3
          BY <4>1
        <4>3. p = 2 ^ 10 \/ p = 2 ^ 9 \/ p = 2 ^ 8 \/ p = 2 ^ 7 \/ p = 2 ^ 6 \/ p = 2 ^ 5 \/ p = 2 ^ 4 \/ p = 2 ^ 3
          BY <4>2, Zenon
        <4> HIDE DEF p
        <4> QED BY <4>3, Powers
      <3>3. SextetAt(bytes, d) = ((256 * a + c) \div p) % 64
        BY <2>2, Zenon DEF SextetAt
      <3> HIDE DEF p, a, c
      <3> DEFINE f == (256 * a + c) \div p
      <3>4. f \in Int
        BY <3>1, <3>2
      <3> HIDE DEF f
      <3>5. f % 64 \in 0 .. 63
        BY <3>4
      <3> QED BY <3>3, <3>5, Zenon DEF f
    <2> QED BY <2>6, <2>7
  <1>3. ASSUME NEW i \in 1 .. D PROVE g[i] \in 0 .. 63
    <2> DEFINE d == i - 1
    <2>1. d \in Nat /\ d < D /\ d + 1 = i
      BY <1>0
    <2> HIDE DEF d
    <2>2. g[d + 1] \in 0 .. 63
      BY <1>2, <2>1
    <2> QED BY <2>1, <2>2
  <1>4. g = [i \in 1 .. D |-> g[i]]
    <2>1. g = [i \in DOMAIN g |-> g[i]]
      BY DEF RawURLEncoding, Digits
    <2> QED BY <1>1, <2>1, Zenon
  <1>5. g \in [1 .. D -> 0 .. 63]
    <2> HIDE DEF g, D
    <2> QED BY <1>3, <1>4, Zenon
  <1>6. g \in Seq(0 .. 63) /\ Len(g) = D
    <2> HIDE DEF g, D
    <2> QED BY <1>0, <1>5, SeqDef, LenProperties
  <1> QED BY <1>2, <1>6

(* The loop that shifts. *)
LEMMA ShiftedTyped ==
    ASSUME NEW v \in Nat
    PROVE  /\ Shifted(v)[0] = v
           /\ \A n \in 0 .. MaxVarintBytes : Shifted(v)[n] \in Nat
           /\ \A n \in 1 .. MaxVarintBytes : Shifted(v)[n] = Shifted(v)[n - 1] \div 128
  <1> DEFINE N == MaxVarintBytes
             F == Shifted(v)
             Eq(h) == h = [n \in 0 .. N |-> IF n = 0 THEN v ELSE h[n - 1] \div 128]
             g == [n \in 1 .. N |-> [x \in Nat |-> x \div 128]]
  <1>0. N \in Nat
    BY WidthsAssumption
  <1> HIDE DEF N
  <1>1. g \in [1 .. N -> [Nat -> Nat]]
    <2>1. \A x \in Nat : x \div 128 \in Nat
      OBVIOUS
    <2> QED BY <2>1
  <1>2. PICK f \in [0 .. N -> Nat] : f[0] = v /\ \A n \in 1 .. N : f[n] = g[n][f[n - 1]]
    <2> HIDE DEF g
    <2>1. \E f : Turns(f, Nat, v, N, g)
      BY <1>0, <1>1, LoopExists
    <2> QED BY <2>1 DEF Turns
  <1>3. ASSUME NEW n \in 1 .. N PROVE f[n] = f[n - 1] \div 128
    <2>1. n - 1 \in 0 .. N /\ f[n - 1] \in Nat
      BY <1>0
    <2> QED BY <1>2, <2>1
  <1>4. Eq(f)
    BY <1>0, <1>2, <1>3
  <1>5. Eq(F)
    BY <1>4 DEF Shifted, N
  <1> HIDE DEF F
  <1>6. F[0] = v /\ \A n \in 1 .. N : F[n] = F[n - 1] \div 128
    <2>1. F = [n \in 0 .. N |-> IF n = 0 THEN v ELSE F[n - 1] \div 128]
      BY <1>5
    <2> QED BY <1>0, <2>1
  <1> DEFINE At == {n \in Nat : n <= N => F[n] \in Nat}
  <1>7. 0 \in At
    BY <1>6
  <1>8. ASSUME NEW n \in Nat, n \in At PROVE n + 1 \in At
    <2> SUFFICES ASSUME n + 1 <= N PROVE F[n + 1] \in Nat
      OBVIOUS
    <2>1. n + 1 \in 1 .. N /\ (n + 1) - 1 = n /\ F[n] \in Nat
      BY <1>0, <1>8
    <2>2. F[n + 1] = F[n] \div 128
      BY <1>6, <2>1
    <2> QED BY <2>1, <2>2
  <1>9. \A n \in Nat : n \in At
    <2> HIDE DEF At
    <2> QED BY <1>7, <1>8, InductionOnSet
  <1>10. \A n \in 0 .. N : F[n] \in Nat
    BY <1>0, <1>9
  <1> QED BY <1>6, <1>10 DEF F, N

(* A smaller number has come to zero as soon. *)
LEMMA ShiftedAtMost ==
    ASSUME NEW v \in Nat, NEW w \in Nat, v <= w
    PROVE  \A n \in 0 .. MaxVarintBytes : Shifted(v)[n] <= Shifted(w)[n]
  <1> DEFINE N == MaxVarintBytes
             F == Shifted(v)
             G == Shifted(w)
             At == {n \in Nat : n <= N => F[n] <= G[n]}
  <1>0. N \in Nat
    BY WidthsAssumption
  <1>1. /\ F[0] = v /\ \A n \in 0 .. N : F[n] \in Nat
        /\ \A n \in 1 .. N : F[n] = F[n - 1] \div 128
    BY ShiftedTyped
  <1>2. /\ G[0] = w /\ \A n \in 0 .. N : G[n] \in Nat
        /\ \A n \in 1 .. N : G[n] = G[n - 1] \div 128
    BY ShiftedTyped
  <1> HIDE DEF F, G, N
  <1>3. 0 \in At
    BY <1>1, <1>2
  <1>4. ASSUME NEW n \in Nat, n \in At PROVE n + 1 \in At
    <2>1. SUFFICES ASSUME n + 1 <= N PROVE F[n + 1] <= G[n + 1]
      OBVIOUS
    <2>2. n + 1 \in 1 .. N /\ (n + 1) - 1 = n /\ n \in 0 .. N /\ F[n] <= G[n]
      BY <1>0, <1>4, <2>1
    <2>3. F[n] \in Nat /\ G[n] \in Nat /\ F[n + 1] = F[n] \div 128 /\ G[n + 1] = G[n] \div 128
      BY <1>1, <1>2, <2>2
    <2> QED BY <2>2, <2>3
  <1>5. \A n \in Nat : n \in At
    <2> HIDE DEF At
    <2> QED BY <1>3, <1>4, InductionOnSet
  <1> QED BY <1>0, <1>5 DEF F, G, N

(* The number of bytes of a varint. *)
VarintSize(v) == Min({n \in 1 .. MaxVarintBytes : Shifted(v)[n] = 0})

(* Every uint64 has one, and its last group is not cut. *)
LEMMA VarintSizeIs ==
    ASSUME NEW v \in 0 .. MaxUint64
    PROVE  LET size == VarintSize(v)
           IN  /\ size \in 1 .. MaxVarintBytes /\ Shifted(v)[size] = 0
               /\ \A n \in 1 .. size - 1 : Shifted(v)[n] # 0
  <1> DEFINE S == {n \in 1 .. MaxVarintBytes : Shifted(v)[n] = 0}
             size == Min(S)
  <1>0. MaxVarintBytes \in Nat /\ MaxUint64 \in Nat /\ v \in Nat /\ v <= MaxUint64 /\ MaxUint64 > 0
        /\ Shifted(MaxUint64)[MaxVarintBytes] = 0
    BY WidthsAssumption
  <1>1. MaxVarintBytes # 0
    <2>1. Shifted(MaxUint64)[0] = MaxUint64
      BY <1>0, ShiftedTyped
    <2> QED BY <1>0, <2>1
  <1>2. MaxVarintBytes \in 0 .. MaxVarintBytes /\ MaxVarintBytes \in 1 .. MaxVarintBytes
    BY <1>0, <1>1
  <1>3. Shifted(v)[MaxVarintBytes] <= Shifted(MaxUint64)[MaxVarintBytes] /\ Shifted(v)[MaxVarintBytes] \in Nat
    BY <1>0, <1>2, ShiftedAtMost, ShiftedTyped
  <1>4. MaxVarintBytes \in S
    BY <1>0, <1>2, <1>3
  <1>5. S \in SUBSET Nat
    BY <1>0
  <1>6. size \in S /\ \A y \in S : size <= y
    <2> HIDE DEF S
    <2> QED BY <1>4, <1>5, MinOfNaturals
  <1> HIDE DEF size
  <1>7. ASSUME NEW n \in 1 .. size - 1 PROVE Shifted(v)[n] # 0
    <2>1. n \in 1 .. MaxVarintBytes /\ ~ (size <= n)
      BY <1>0, <1>6
    <2>2. n \notin S
      BY <1>6, <2>1
    <2> QED BY <2>1, <2>2
  <1> QED BY <1>6, <1>7 DEF VarintSize, size

(* A varint is bytes: all but the last one carry the bit that says so. *)
LEMMA VarintWritten ==
    ASSUME NEW v \in 0 .. MaxUint64
    PROVE  LET s == AppendProtoVarint(v)
               size == VarintSize(v)
           IN  /\ s \in Seq(Byte) /\ Len(s) = size
               /\ \A n \in 1 .. size : s[n] = (Shifted(v)[n - 1] % 128) + (IF n < size THEN 128 ELSE 0)
  <1> DEFINE s == AppendProtoVarint(v)
             size == VarintSize(v)
             e(n) == (Shifted(v)[n - 1] % 128) + (IF n < size THEN 128 ELSE 0)
  <1>0. MaxVarintBytes \in Nat /\ v \in Nat
    BY WidthsAssumption
  <1>1. size \in 1 .. MaxVarintBytes /\ size \in Nat
    BY <1>0, VarintSizeIs
  <1>2. s = [n \in 1 .. size |-> e(n)]
    BY Zenon DEF AppendProtoVarint, VarintSize
  <1> HIDE DEF size
  <1>3. ASSUME NEW n \in 1 .. size PROVE e(n) \in Byte
    <2>1. n - 1 \in 0 .. MaxVarintBytes
      BY <1>0, <1>1
    <2>2. Shifted(v)[n - 1] \in Nat
      BY <1>0, <2>1, ShiftedTyped
    <2>3. \A x \in Nat, b \in {0, 128} : (x % 128) + b \in Byte
      BY DEF Byte
    <2>4. (IF n < size THEN 128 ELSE 0) \in {0, 128}
      OBVIOUS
    <2> QED BY <2>2, <2>3, <2>4, ZenonT(60)
  <1> HIDE DEF e, s
  <1>4. s \in [1 .. size -> Byte] /\ \A n \in 1 .. size : s[n] = e(n)
    BY <1>2, <1>3, Zenon
  <1>5. s \in Seq(Byte) /\ Len(s) = size
    BY <1>1, <1>4, SeqDef, LenProperties
  <1> QED BY <1>4, <1>5 DEF s, e, size

(* Fields of a message are bytes. *)
LEMMA FieldsWritten ==
    ASSUME NEW field \in 1 .. 7
    PROVE  /\ 8 * field \in 0 .. MaxUint64 /\ 8 * field + 2 \in 0 .. MaxUint64
           /\ \A v \in 0 .. MaxUint64 : AppendProtoVarintField(field, v) \in Seq(Byte)
           /\ \A s \in Str : Len(s) \in 0 .. MaxUint64 /\ AppendProtoBytesField(field, s) \in Seq(Byte)
  <1>1. 8 * field \in 0 .. MaxUint64 /\ 8 * field + 2 \in 0 .. MaxUint64
    BY WidthsAssumption
  <1>2. ASSUME NEW v \in 0 .. MaxUint64 PROVE AppendProtoVarint(v) \in Seq(Byte)
    BY VarintWritten
  <1>3. ASSUME NEW v \in 0 .. MaxUint64 PROVE AppendProtoVarintField(field, v) \in Seq(Byte)
    <2>1. AppendProtoVarint(8 * field) \in Seq(Byte) /\ AppendProtoVarint(v) \in Seq(Byte)
      BY <1>1, <1>2
    <2> QED BY <2>1, ConcatProperties DEF AppendProtoVarintField
  <1>4. ASSUME NEW s \in Str
        PROVE  Len(s) \in 0 .. MaxUint64 /\ AppendProtoBytesField(field, s) \in Seq(Byte)
    <2>1. s \in Seq(Byte) /\ Len(s) \in Nat /\ Len(s) <= MaxInt
      BY DEF Str
    <2>2. Len(s) \in 0 .. MaxUint64
      BY <2>1, WidthsAssumption
    <2> DEFINE a == AppendProtoVarint(8 * field + 2)
               b == AppendProtoVarint(Len(s))
    <2>3. a \in Seq(Byte) /\ b \in Seq(Byte)
      BY <1>1, <1>2, <2>2
    <2>4. AppendProtoBytesField(field, s) = (a \o b) \o s
      BY DEF AppendProtoBytesField
    <2> HIDE DEF a, b
    <2>5. (a \o b) \in Seq(Byte)
      BY <2>3, ConcatProperties
    <2>6. ((a \o b) \o s) \in Seq(Byte)
      BY <2>1, <2>5, ConcatProperties
    <2> QED BY <2>2, <2>4, <2>6
  <1> QED BY <1>1, <1>3, <1>4

(* A secret gets no longer when it is normalised. *)
LEMMA NormalizedNoLonger ==
    ASSUME NEW s \in Seq(Byte)
    PROVE  NormalizeBase32Secret(s) \in Seq(Byte) /\ Len(NormalizeBase32Secret(s)) <= Len(s)
  <1> DEFINE r == [i \in DOMAIN s |-> IF s[i] = Equals \/ IsSpace(s[i]) THEN <<>> ELSE <<s[i]>>]
             n == Len(s)
  <1>1. n \in Nat /\ DOMAIN s = 1 .. n /\ \A i \in 1 .. n : s[i] \in Byte /\ s[i] \in Char
    <2>1. n \in Nat /\ DOMAIN s = 1 .. n /\ \A i \in 1 .. n : s[i] \in Byte
      BY ElementOfSeq, LenProperties
    <2> QED BY <2>1, EncodedTyped
  <1>2. ASSUME NEW i \in 1 .. n PROVE r[i] \in Seq(Char) /\ Len(r[i]) <= 1
    <2>1. r[i] = <<>> \/ r[i] = <<s[i]>>
      BY <1>1
    <2> QED BY <1>1, <2>1
  <1>3. r \in [1 .. n -> Seq(Char)]
    BY <1>1, <1>2
  <1> HIDE DEF r, n
  <1>4. r \in Seq(Seq(Char)) /\ Len(r) = n
    BY <1>1, <1>3, SeqDef, LenProperties
  <1>5. PICK f \in [0 .. n -> Seq(Char)] :
               /\ f[0] = <<>> /\ FlattenSeq(r) = f[n]
               /\ \A i \in 1 .. n : f[i] = Cat(f[i - 1], r[i])
    BY <1>4, FlattenTurns
  <1> DEFINE At == {i \in Nat : i <= n => Len(f[i]) <= i}
  <1>6. 0 \in At
    BY <1>5
  <1>7. ASSUME NEW i \in Nat, i \in At PROVE i + 1 \in At
    <2>1. SUFFICES ASSUME i + 1 <= n PROVE Len(f[i + 1]) <= i + 1
      OBVIOUS
    <2>2. i + 1 \in 1 .. n /\ (i + 1) - 1 = i /\ Len(f[i]) <= i /\ f[i] \in Seq(Char)
      BY <1>1, <1>5, <1>7, <2>1
    <2>3. f[i + 1] = Cat(f[i], r[i + 1]) /\ r[i + 1] \in Seq(Char) /\ Len(r[i + 1]) <= 1
      BY <1>2, <1>5, <2>2
    <2>4. Len(f[i + 1]) = Len(f[i]) + Len(r[i + 1])
      BY <2>2, <2>3, CatProperties
    <2>5. Len(f[i]) \in Nat /\ Len(r[i + 1]) \in Nat
      BY <2>2, <2>3
    <2>6. \A x \in Nat, y \in Nat, z \in Nat : x <= z /\ y <= 1 => x + y <= z + 1
      OBVIOUS
    <2> QED BY <2>2, <2>3, <2>4, <2>5, <2>6, Zenon
  <1>8. n \in At
    <2> HIDE DEF At
    <2> QED BY <1>1, <1>6, <1>7, InductionOnSet
  <1>9. Len(FlattenSeq(r)) <= n
    BY <1>1, <1>5, <1>8
  <1>10. NormalizeBase32Secret(s) = FlattenSeq(r)
    BY DEF NormalizeBase32Secret, r
  <1> QED BY <1>9, <1>10, NormalizedSecret DEF n

(* The decoder adds one byte for a character at most. *)
LEMMA DecodedNoLonger ==
    ASSUME NEW room \in Nat, NEW text \in Seq(Byte)
    PROVE  /\ DecodeBase32(room, text) \in DecoderStates
           /\ Len(DecodeBase32(room, text).dst) <= Len(text)
  <1> DEFINE n == Len(text)
  <1>0. n \in Nat /\ \A i \in 1 .. n : text[i] \in Byte
    BY ElementOfSeq
  <1>1. PICK A : /\ A[0] = DecoderStart /\ A[n] = DecodeBase32(room, text)
                 /\ \A i \in 1 .. n : A[i] = Turn(room, A[i - 1], text[i])
    BY DecoderTurns
  <1>2. ASSUME NEW s \in DecoderStates, NEW c \in Byte
        PROVE  Turn(room, s, c) \in DecoderStates /\ Len(Turn(room, s, c).dst) <= Len(s.dst) + 1
    <2> DEFINE t == DecodeDigit(room, s, c)
    <2>1. t \in DecoderStates
      BY TurnTyped
    <2>2. s.dst \in Seq(Byte) /\ Len(s.dst) \in Nat
      BY DEF DecoderStates
    <2>3. t.dst = s.dst \/ \E x : t.dst = Append(s.dst, x)
      BY DEF DecodeDigit, NoRoom, DecoderStates
    <2>4. Len(t.dst) <= Len(s.dst) + 1
      <3>1. ASSUME NEW x PROVE Len(Append(s.dst, x)) = Len(s.dst) + 1
        BY <2>2
      <3> QED BY <2>2, <2>3, <3>1
    <2> HIDE DEF t
    <2> QED BY <2>1, <2>2, <2>4 DEF Turn, t
  <1> DEFINE At == {i \in Nat : i <= n => A[i] \in DecoderStates /\ Len(A[i].dst) <= i}
  <1> HIDE DEF n
  <1>3. 0 \in At
    <2>1. DecoderStart \in DecoderStates /\ Len(DecoderStart.dst) = 0
      BY DEF DecoderStart, DecoderStates
    <2> QED BY <1>1, <2>1
  <1>4. ASSUME NEW i \in Nat, i \in At PROVE i + 1 \in At
    <2>1. SUFFICES ASSUME i + 1 <= n PROVE A[i + 1] \in DecoderStates /\ Len(A[i + 1].dst) <= i + 1
      OBVIOUS
    <2>2. i + 1 \in 1 .. n /\ (i + 1) - 1 = i /\ A[i] \in DecoderStates /\ Len(A[i].dst) <= i
      BY <1>0, <1>4, <2>1
    <2>3. A[i + 1] = Turn(room, A[i], text[i + 1]) /\ text[i + 1] \in Byte
      BY <1>0, <1>1, <2>2
    <2>4. A[i + 1] \in DecoderStates /\ Len(A[i + 1].dst) <= Len(A[i].dst) + 1
      BY <1>2, <2>2, <2>3
    <2>5. Len(A[i].dst) \in Nat /\ Len(A[i + 1].dst) \in Nat
      BY <2>2, <2>4 DEF DecoderStates
    <2> QED BY <2>2, <2>4, <2>5
  <1>5. n \in At
    <2> HIDE DEF At
    <2> QED BY <1>0, <1>3, <1>4, InductionOnSet
  <1> QED BY <1>0, <1>1, <1>5 DEF n

(* Accounts, and their secrets as the exporter decodes them. *)
Accounts ==
    [type : {"totp", "hotp"}, label : Str, issuer : Str, secretB32 : Str, algorithm : STRING,
     digits : Nat, period : Nat, counter : 0 .. MaxUint64]

SecretOf(a) ==
    LET secret == NormalizeBase32Secret(a.secretB32)
    IN  DecodeBase32((Len(secret) * 5) \div 8 + 1, secret)

(* The digits that it writes for them. *)
DigitsOf(a) == IF a.digits = 0 THEN 6 ELSE a.digits

(* A secret that is decoded is a string. *)
LEMMA SecretTyped ==
    ASSUME NEW a \in Accounts
    PROVE  /\ NormalizeBase32Secret(a.secretB32) \in Str
           /\ SecretOf(a) \in DecoderStates /\ SecretOf(a).dst \in Str
           /\ Len(SecretOf(a).dst) <= Len(NormalizeBase32Secret(a.secretB32))
  <1> DEFINE s == NormalizeBase32Secret(a.secretB32)
             room == (Len(s) * 5) \div 8 + 1
             d == SecretOf(a)
  <1>1. a.secretB32 \in Seq(Byte) /\ Len(a.secretB32) \in Nat /\ Len(a.secretB32) <= MaxInt
    BY DEF Accounts, Str
  <1>2. s \in Seq(Byte) /\ Len(s) <= Len(a.secretB32) /\ Len(s) \in Nat
    BY <1>1, NormalizedNoLonger
  <1>3. d = DecodeBase32(room, s)
    BY DEF SecretOf
  <1> HIDE DEF s, d
  <1>4. room \in Nat
    BY <1>2
  <1>5. d \in DecoderStates /\ Len(d.dst) <= Len(s)
    BY <1>2, <1>3, <1>4, DecodedNoLonger
  <1>6. d.dst \in Seq(Byte) /\ Len(d.dst) \in Nat
    BY <1>5 DEF DecoderStates
  <1>7. MaxInt \in Nat
    BY WidthsAssumption
  <1>8. s \in Str /\ d.dst \in Str
    BY <1>1, <1>2, <1>5, <1>6, <1>7 DEF Str
  <1> QED BY <1>5, <1>8 DEF s, d

(* What is written for an account, when nothing fails. *)
AccountMessage(a) ==
    AppendProtoBytesField(1, SecretOf(a).dst)
      \o AppendProtoBytesField(2, MigrationName(a))
      \o (IF a.issuer = <<>> THEN <<>> ELSE AppendProtoBytesField(3, a.issuer))
      \o AppendProtoVarintField(4, AlgorithmEnum[a.algorithm])
      \o AppendProtoVarintField(5, DigitEnum[DigitsOf(a)])
      \o AppendProtoVarintField(6, IF a.type = "hotp" THEN 1 ELSE 2)
      \o (IF a.type = "hotp" THEN AppendProtoVarintField(7, a.counter) ELSE <<>>)

(* That is when there is a secret, and the algorithm and the digits have a number. *)
LEMMA AccountEncoded ==
    ASSUME NEW a, EncodeMigrationAccount(a).err = "nil"
    PROVE  /\ NormalizeBase32Secret(a.secretB32) # <<>> /\ SecretOf(a).err = "nil"
           /\ a.algorithm \in DOMAIN AlgorithmEnum /\ DigitsOf(a) \in {6, 8}
           /\ EncodeMigrationAccount(a) = Ok(AccountMessage(a))
  <1> DEFINE r == EncodeMigrationAccount(a)
             s == NormalizeBase32Secret(a.secretB32)
             d == SecretOf(a)
             m == AccountMessage(a)
  <1>1. r = IF s = <<>> THEN Failed("ErrInvalidSecret")
            ELSE IF d.err # "nil" THEN Failed(d.err)
            ELSE IF a.algorithm \notin DOMAIN AlgorithmEnum THEN Failed("ErrInvalidAlgorithm")
            ELSE IF DigitsOf(a) \notin DOMAIN DigitEnum THEN Failed("ErrInvalidDigits")
            ELSE Ok(m)
    BY DEF EncodeMigrationAccount, SecretOf, DigitsOf, AccountMessage
  <1>2. \A e : e # "nil" => Failed(e).err # "nil"
    BY DEF Failed
  <1>3. DOMAIN DigitEnum = {6, 8}
    BY DEF DigitEnum
  <1> HIDE DEF s, d, m, r
  <1>4. "ErrInvalidSecret" # "nil" /\ "ErrInvalidAlgorithm" # "nil" /\ "ErrInvalidDigits" # "nil"
    OBVIOUS
  <1>5. r.err = "nil"
    BY DEF r
  <1> QED BY <1>1, <1>2, <1>3, <1>4, <1>5, Zenon DEF s, d, m, r

(* The numbers of the algorithms and of the digits. *)
LEMMA EnumsTyped ==
    /\ \A x \in DOMAIN AlgorithmEnum : AlgorithmEnum[x] \in 1 .. 3
    /\ \A x \in {6, 8} : DigitEnum[x] \in 1 .. 2
    /\ \A n \in 0 .. 3 : n \in 0 .. MaxUint64
  <1>1. ASSUME NEW x \in DOMAIN AlgorithmEnum PROVE AlgorithmEnum[x] \in 1 .. 3
    BY DEF AlgorithmEnum
  <1>2. ASSUME NEW x \in {6, 8} PROVE DigitEnum[x] \in 1 .. 2
    BY DEF DigitEnum
  <1>3. \A n \in 0 .. 3 : n \in 0 .. MaxUint64
    BY WidthsAssumption
  <1> QED BY <1>1, <1>2, <1>3

(* An account is written as bytes. *)
LEMMA AccountWritten ==
    ASSUME NEW a \in Accounts, MigrationName(a) \in Str, EncodeMigrationAccount(a).err = "nil"
    PROVE  AccountMessage(a) \in Seq(Byte)
  <1> DEFINE x1 == AppendProtoBytesField(1, SecretOf(a).dst)
             x2 == AppendProtoBytesField(2, MigrationName(a))
             x3 == IF a.issuer = <<>> THEN <<>> ELSE AppendProtoBytesField(3, a.issuer)
             x4 == AppendProtoVarintField(4, AlgorithmEnum[a.algorithm])
             x5 == AppendProtoVarintField(5, DigitEnum[DigitsOf(a)])
             x6 == AppendProtoVarintField(6, IF a.type = "hotp" THEN 1 ELSE 2)
             x7 == IF a.type = "hotp" THEN AppendProtoVarintField(7, a.counter) ELSE <<>>
  <1>0. 1 \in 1 .. 7 /\ 2 \in 1 .. 7 /\ 3 \in 1 .. 7 /\ 4 \in 1 .. 7 /\ 5 \in 1 .. 7 /\ 6 \in 1 .. 7 /\ 7 \in 1 .. 7
    OBVIOUS
  <1>1. a.algorithm \in DOMAIN AlgorithmEnum /\ DigitsOf(a) \in {6, 8}
    BY AccountEncoded
  <1>2. a.issuer \in Str /\ a.counter \in 0 .. MaxUint64 /\ SecretOf(a).dst \in Str
    BY SecretTyped DEF Accounts
  <1>3. AlgorithmEnum[a.algorithm] \in 0 .. MaxUint64 /\ DigitEnum[DigitsOf(a)] \in 0 .. MaxUint64
    <2>1. AlgorithmEnum[a.algorithm] \in 0 .. 3 /\ DigitEnum[DigitsOf(a)] \in 0 .. 3
      BY <1>1, EnumsTyped
    <2> QED BY <2>1, EnumsTyped
  <1>4. (IF a.type = "hotp" THEN 1 ELSE 2) \in 0 .. MaxUint64
    BY EnumsTyped
  <1>5. <<>> \in Seq(Byte)
    OBVIOUS
  <1>6. x1 \in Seq(Byte) /\ x2 \in Seq(Byte) /\ x3 \in Seq(Byte)
    BY <1>0, <1>2, <1>5, FieldsWritten
  <1>7. x4 \in Seq(Byte) /\ x5 \in Seq(Byte)
    BY <1>0, <1>3, FieldsWritten
  <1>8. x6 \in Seq(Byte) /\ x7 \in Seq(Byte)
    BY <1>0, <1>2, <1>4, <1>5, FieldsWritten
  <1>9. AccountMessage(a) = x1 \o x2 \o x3 \o x4 \o x5 \o x6 \o x7
    BY DEF AccountMessage
  <1> HIDE DEF x1, x2, x3, x4, x5, x6, x7
  <1>10. (x1 \o x2) \in Seq(Byte)
    BY <1>6, ConcatProperties
  <1>11. (x1 \o x2 \o x3) \in Seq(Byte)
    BY <1>6, <1>10, ConcatProperties
  <1>12. (x1 \o x2 \o x3 \o x4) \in Seq(Byte)
    BY <1>7, <1>11, ConcatProperties
  <1>13. (x1 \o x2 \o x3 \o x4 \o x5) \in Seq(Byte)
    BY <1>7, <1>12, ConcatProperties
  <1>14. (x1 \o x2 \o x3 \o x4 \o x5 \o x6) \in Seq(Byte)
    BY <1>8, <1>13, ConcatProperties
  <1>15. (x1 \o x2 \o x3 \o x4 \o x5 \o x6 \o x7) \in Seq(Byte)
    BY <1>8, <1>14, ConcatProperties
  <1> QED BY <1>9, <1>15

(* What is written for the accounts and the options. *)
AccountsWritten(accounts) ==
    [i \in DOMAIN accounts |-> AppendProtoBytesField(1, EncodeMigrationAccount(accounts[i]).value)]

OptionWritten(field, n) == IF n = 0 THEN <<>> ELSE AppendProtoVarintField(field, Uint64(n))

VersionOf(opts) == IF opts.version > 0 THEN opts.version ELSE 1

PayloadWritten(e) ==
    FlattenSeq(AccountsWritten(e.accounts)) \o AppendProtoVarintField(2, VersionOf(e.opts))
      \o OptionWritten(3, e.opts.batchSize) \o OptionWritten(4, e.opts.batchIndex)
      \o OptionWritten(5, e.opts.batchID)

(* A URI is built when no account fails. *)
LEMMA ExportIs ==
    ASSUME NEW e, e.accounts \in Seq(Accounts), BuildOtpAuthMigrationURI(e.accounts, e.opts).err = "nil"
    PROVE  /\ \A i \in 1 .. Len(e.accounts) : EncodeMigrationAccount(e.accounts[i]).err = "nil"
           /\ BuildOtpAuthMigrationURI(e.accounts, e.opts).value.data = RawURLEncoding(PayloadWritten(e))
  <1> DEFINE s == e.accounts
             n == Len(s)
             m == [i \in DOMAIN s |-> EncodeMigrationAccount(s[i])]
             I == {i \in 1 .. Len(m) : m[i].err # "nil"}
             bad == IF I # {} THEN Min(I) ELSE 0
             u == [scheme |-> "otpauth-migration", data |-> RawURLEncoding(PayloadWritten(e))]
             r == BuildOtpAuthMigrationURI(s, e.opts)
  <1>0. n \in Nat /\ DOMAIN s = 1 .. n
    BY LenProperties
  <1>1. r = IF bad # 0 THEN m[bad] ELSE Ok(u)
    <2>1. AccountsWritten(s) = [i \in DOMAIN m |-> AppendProtoBytesField(1, m[i].value)]
      BY DEF AccountsWritten
    <2>2. bad = SelectInSeq(m, LAMBDA x : x.err # "nil")
      BY DEF SelectInSeq
    <2>3. BuildOtpAuthMigrationURI(s, e.opts) =
            LET version == IF e.opts.version > 0 THEN e.opts.version ELSE 1
                option(field, x) == IF x = 0 THEN <<>> ELSE AppendProtoVarintField(field, Uint64(x))
            IN  IF SelectInSeq(m, LAMBDA x : x.err # "nil") # 0
                THEN m[SelectInSeq(m, LAMBDA x : x.err # "nil")]
                ELSE Ok([scheme |-> "otpauth-migration", data |-> RawURLEncoding(
                     FlattenSeq([i \in DOMAIN m |-> AppendProtoBytesField(1, m[i].value)])
                     \o AppendProtoVarintField(2, version)
                     \o option(3, e.opts.batchSize) \o option(4, e.opts.batchIndex)
                     \o option(5, e.opts.batchID))])
      BY DEF BuildOtpAuthMigrationURI
    <2> HIDE DEF bad, m
    <2> QED BY <2>1, <2>2, <2>3, Zenon DEF PayloadWritten, VersionOf, OptionWritten
  <1>2. DOMAIN m = 1 .. n /\ \A i \in 1 .. n : m[i] = EncodeMigrationAccount(s[i])
    BY <1>0
  <1>3. m \in [1 .. n -> {m[i] : i \in 1 .. n}]
    BY <1>0
  <1> HIDE DEF m, n
  <1>4. Len(m) = n
    <2>1. m \in Seq({m[i] : i \in 1 .. n})
      BY <1>0, <1>3, SeqDef
    <2> QED BY <1>0, <1>2, <2>1, LenProperties
  <1>5. I \in SUBSET Nat
    BY <1>0, <1>4
  <1>6. I = {}
    <2>1. CASE I # {}
      <3>1. Min(I) \in I
        <4> HIDE DEF I
        <4> QED BY <1>5, <2>1, MinOfNaturals
      <3>2. bad \in 1 .. n /\ m[bad].err # "nil"
        BY <1>4, <2>1, <3>1
      <3> HIDE DEF bad
      <3>3. r = m[bad]
        BY <1>0, <1>1, <3>2
      <3> QED BY <3>2, <3>3
    <2> QED BY <2>1
  <1>7. r = Ok(u)
    BY <1>1, <1>6
  <1>8. r.value.data = RawURLEncoding(PayloadWritten(e))
    BY <1>7 DEF Ok
  <1>9. \A i \in 1 .. n : EncodeMigrationAccount(s[i]).err = "nil"
    BY <1>2, <1>4, <1>6
  <1> QED BY <1>8, <1>9 DEF n

(* The number that is written for an option. *)
LEMMA OptionTyped ==
    ASSUME NEW field \in 1 .. 7, NEW n \in Int32
    PROVE  Uint64(n) \in 0 .. MaxUint64 /\ OptionWritten(field, n) \in Seq(Byte)
  <1>1. n \in Int /\ MaxUint64 \in Nat
    BY WidthsAssumption DEF Int32
  <1>2. Uint64(n) \in 0 .. MaxUint64
    BY <1>1 DEF Uint64
  <1>3. AppendProtoVarintField(field, Uint64(n)) \in Seq(Byte)
    BY <1>2, FieldsWritten
  <1> QED BY <1>2, <1>3 DEF OptionWritten

(* What the constants offer to export. *)
LEMMA ExportTyped ==
    ASSUME NEW e \in Exports
    PROVE  /\ e.accounts \in Seq(Accounts)
           /\ e.opts \in [version : Int32, batchSize : Int32, batchIndex : Int32, batchID : Int32]
           /\ \A i \in 1 .. Len(e.accounts) :
                 /\ e.accounts[i] \in Accounts /\ MigrationName(e.accounts[i]) \in Str
                 /\ EncodeMigrationAccount(e.accounts[i]).err = "nil" =>
                        EncodeMigrationAccount(e.accounts[i]).value \in Str
  <1>1. /\ e \in [accounts : Seq(Accounts),
                   opts : [version : Int32, batchSize : Int32, batchIndex : Int32, batchID : Int32]]
        /\ \A i \in DOMAIN e.accounts :
              /\ MigrationName(e.accounts[i]) \in Str
              /\ LET msg == EncodeMigrationAccount(e.accounts[i])
                 IN  msg.err = "nil" => Len(msg.value) <= MaxInt
    BY ExportsAssumption, Zenon DEF Accounts
  <1>2. e.accounts \in Seq(Accounts) /\ DOMAIN e.accounts = 1 .. Len(e.accounts)
        /\ \A i \in 1 .. Len(e.accounts) : e.accounts[i] \in Accounts
    <2>1. e.accounts \in Seq(Accounts)
      BY <1>1
    <2> QED BY <2>1, ElementOfSeq, LenProperties
  <1>3. e.opts \in [version : Int32, batchSize : Int32, batchIndex : Int32, batchID : Int32]
    BY <1>1
  <1>4. ASSUME NEW i \in 1 .. Len(e.accounts), EncodeMigrationAccount(e.accounts[i]).err = "nil"
        PROVE  EncodeMigrationAccount(e.accounts[i]).value \in Str
    <2> DEFINE a == e.accounts[i]
               m == EncodeMigrationAccount(a).value
    <2>1. a \in Accounts /\ MigrationName(a) \in Str /\ Len(m) <= MaxInt
      BY <1>1, <1>2, <1>4
    <2>2. EncodeMigrationAccount(a) = Ok(AccountMessage(a)) /\ AccountMessage(a) \in Seq(Byte)
      BY <1>4, <2>1, AccountEncoded, AccountWritten
    <2>3. m = AccountMessage(a)
      BY <2>2 DEF Ok
    <2> HIDE DEF m
    <2> QED BY <2>1, <2>2, <2>3 DEF Str, m
  <1> QED BY <1>1, <1>2, <1>3, <1>4

(* A payload is bytes. *)
LEMMA PayloadTyped ==
    ASSUME NEW e \in Exports, \A i \in 1 .. Len(e.accounts) : EncodeMigrationAccount(e.accounts[i]).err = "nil"
    PROVE  /\ AccountsWritten(e.accounts) \in Seq(Seq(Byte))
           /\ FlattenSeq(AccountsWritten(e.accounts)) \in Seq(Byte)
           /\ VersionOf(e.opts) \in 0 .. MaxInt32 /\ VersionOf(e.opts) \in 0 .. MaxUint64
           /\ PayloadWritten(e) \in Seq(Byte)
  <1> DEFINE s == e.accounts
             w == AccountsWritten(s)
             x1 == FlattenSeq(w)
             x2 == AppendProtoVarintField(2, VersionOf(e.opts))
             x3 == OptionWritten(3, e.opts.batchSize)
             x4 == OptionWritten(4, e.opts.batchIndex)
             x5 == OptionWritten(5, e.opts.batchID)
  <1>1. /\ s \in Seq(Accounts)
        /\ \A i \in 1 .. Len(s) : EncodeMigrationAccount(s[i]).value \in Str
    BY ExportTyped
  <1>2. DOMAIN s = 1 .. Len(s) /\ Len(s) \in Nat
    BY <1>1, LenProperties
  <1>3. 1 \in 1 .. 7 /\ 2 \in 1 .. 7 /\ 3 \in 1 .. 7 /\ 4 \in 1 .. 7 /\ 5 \in 1 .. 7
    OBVIOUS
  <1>4. w \in [1 .. Len(s) -> Seq(Byte)]
    <2>1. \A i \in 1 .. Len(s) : AppendProtoBytesField(1, EncodeMigrationAccount(s[i]).value) \in Seq(Byte)
      BY <1>1, <1>3, FieldsWritten
    <2>2. w = [i \in 1 .. Len(s) |-> AppendProtoBytesField(1, EncodeMigrationAccount(s[i]).value)]
      BY <1>2 DEF AccountsWritten
    <2> QED BY <2>1, <2>2
  <1> HIDE DEF s, w
  <1>5. w \in Seq(Seq(Byte))
    BY <1>2, <1>4, SeqDef
  <1>6. x1 \in Seq(Byte)
    <2>1. Byte \in SUBSET Char
      BY EncodedTyped
    <2> QED BY <1>5, <2>1, FlattenOver
  <1>7. e.opts.version \in Int32 /\ e.opts.batchSize \in Int32 /\ e.opts.batchIndex \in Int32 /\ e.opts.batchID \in Int32
    BY ExportTyped
  <1>8. VersionOf(e.opts) \in 0 .. MaxInt32 /\ VersionOf(e.opts) \in 0 .. MaxUint64
    BY <1>7, WidthsAssumption DEF VersionOf, Int32
  <1>9. x2 \in Seq(Byte) /\ x3 \in Seq(Byte) /\ x4 \in Seq(Byte) /\ x5 \in Seq(Byte)
    BY <1>3, <1>7, <1>8, FieldsWritten, OptionTyped
  <1>10. PayloadWritten(e) = x1 \o x2 \o x3 \o x4 \o x5
    BY DEF PayloadWritten, w, s
  <1> HIDE DEF x1, x2, x3, x4, x5
  <1>11. (x1 \o x2) \in Seq(Byte)
    BY <1>6, <1>9, ConcatProperties
  <1>12. (x1 \o x2 \o x3) \in Seq(Byte)
    BY <1>9, <1>11, ConcatProperties
  <1>13. (x1 \o x2 \o x3 \o x4) \in Seq(Byte)
    BY <1>9, <1>12, ConcatProperties
  <1>14. (x1 \o x2 \o x3 \o x4 \o x5) \in Seq(Byte)
    BY <1>9, <1>13, ConcatProperties
  <1> QED BY <1>5, <1>6, <1>8, <1>10, <1>14 DEF w, s, x1

(* A text without line breaks is decoded as it is. *)
LEMMA UnbrokenText ==
    ASSUME NEW s \in Seq(Char), \A i \in 1 .. Len(s) : s[i] # LineBreak
    PROVE  Unbroken(s) = s
  <1>1. DOMAIN s = 1 .. Len(s)
    BY LenProperties
  <1>2. [i \in DOMAIN s |-> IF s[i] = LineBreak THEN <<>> ELSE <<s[i]>>] = [i \in DOMAIN s |-> <<s[i]>>]
    BY <1>1
  <1> QED BY <1>2, NothingCutOut, Zenon DEF Unbroken

(* So is one on two lines. *)
LEMMA BrokenText ==
    ASSUME NEW s \in Seq(Char), \A i \in 1 .. Len(s) : s[i] # LineBreak, NEW j \in 1 .. Len(s)
    PROVE  Unbroken(Broken(s, j)) = s /\ Broken(s, j) # <<>>
  <1> DEFINE t == Cat(Cat(SubSeq(s, 1, j - 1), <<LineBreak>>), SubSeq(s, j, Len(s)))
  <1>1. t = Broken(s, j)
    BY DEF Broken, Before, From, Cat
  <1>2. LineBreak \in Char
    BY CharRange DEF LineBreak
  <1>3. FlattenSeq([i \in DOMAIN t |-> IF t[i] = LineBreak THEN <<>> ELSE <<t[i]>>]) = s /\ t # <<>>
    BY <1>2, PutInAndCutOut
  <1> HIDE DEF t
  <1> QED BY <1>1, <1>3, Zenon DEF Unbroken

(* A text over the URL alphabet is parsed as the bytes that it stands for,  *)
(* or refused.                                                              *)
LEMMA TextImported ==
    ASSUME NEW text \in Seq(0 .. 63)
    PROVE  IF text = <<>> \/ Len(text) % 4 = 1 THEN Imported(text).err # "nil"
           ELSE Imported(text) = ParsePayload(Bytes(text))
  <1> DEFINE d == DecodeData(text)
             f == Failed("ErrInvalidMigration")
  <1>1. ToSet(text) \subseteq 0 .. 63
    <2>1. DOMAIN text = 1 .. Len(text) /\ \A i \in 1 .. Len(text) : text[i] \in 0 .. 63
      BY ElementOfSeq, LenProperties
    <2> QED BY <2>1 DEF ToSet
  <1>2. Imported(text) = IF text = <<>> THEN f ELSE IF d.err # "nil" THEN d ELSE ParsePayload(d.value)
    <2>1. Imported(text) = IF [scheme |-> "otpauth-migration", data |-> text].scheme # "otpauth-migration"
                           THEN Failed("ErrInvalidURI")
                           ELSE IF [scheme |-> "otpauth-migration", data |-> text].data = <<>> THEN f
                           ELSE IF d.err # "nil" THEN d ELSE ParsePayload(d.value)
      BY DEF Imported, ParseOtpAuthMigrationURI, Then, ParsePayload
    <2> QED BY <2>1
  <1>3. f.err # "nil"
    BY DEF Failed
  <1>7. d = DecodeDigits(text)
    <2>1. text \in Seq(Char)
      <3>1. 0 .. 63 \subseteq Char
        BY CharRange
      <3> QED BY <3>1, SeqMonotone
    <2>2. \A i \in 1 .. Len(text) : text[i] # LineBreak
      <3>1. \A x \in 0 .. 63 : x # LineBreak
        BY DEF LineBreak
      <3> QED BY <3>1, ElementOfSeq
    <2> QED BY <2>1, <2>2, UnbrokenText DEF DecodeData
  <1>4. CASE text = <<>>
    BY <1>2, <1>3, <1>4
  <1>5. CASE text # <<>> /\ Len(text) % 4 = 1
    <2>1. d = f
      BY <1>5, <1>7 DEF DecodeDigits, IsRawURL, IsStd
    <2> QED BY <1>2, <1>3, <1>5, <2>1
  <1>6. CASE text # <<>> /\ Len(text) % 4 # 1
    <2>1. d = Ok(Bytes(text))
      BY <1>1, <1>6, <1>7 DEF DecodeDigits, IsRawURL
    <2>2. d.err = "nil" /\ d.value = Bytes(text)
      BY <2>1 DEF Ok
    <2> HIDE DEF d
    <2> QED BY <1>2, <1>6, <2>2
  <1> QED BY <1>4, <1>5, <1>6

(* A migration URI that was cut short yields an error or some of the first  *)
(* accounts, wherever it was cut and whatever accounts it carries.          *)
THEOREM CutPayloadsYieldPrefixes == Spec => []CutPayloadYieldsPrefix
  <1>1. JobInv => CutPayloadYieldsPrefix
    <2> SUFFICES ASSUME JobInv, Doing("export"), Exported.err = "nil",
                        Imported(Exported.value.data).err = "nil",
                        NEW n \in 1 .. Len(Exported.value.data) - 1,
                        Imported(SubSeq(Exported.value.data, 1, n)).err = "nil"
                 PROVE  IsPrefix(Imported(SubSeq(Exported.value.data, 1, n)).value.accounts,
                                 Imported(Exported.value.data).value.accounts)
      BY Zenon DEF CutPayloadYieldsPrefix
    <2>1. PICK e \in Exports : job = [kind |-> "export", in |-> e]
      BY DEF JobInv, Doing
    <2>2. job.in = e
      BY <2>1
    <2>3. Exported = BuildOtpAuthMigrationURI(e.accounts, e.opts)
      BY <2>2, Zenon DEF Exported
    <2>4. /\ \A i \in 1 .. Len(e.accounts) : EncodeMigrationAccount(e.accounts[i]).err = "nil"
          /\ Exported.value.data = RawURLEncoding(PayloadWritten(e))
      BY <2>3, ExportIs, ExportTyped
    <2> DEFINE t == RawURLEncoding(PayloadWritten(e))
               c == SubSeq(t, 1, n)
               b == Bytes(t)
               k == (6 * n) \div 8
    <2>5. t \in Seq(0 .. 63)
      BY <2>4, PayloadTyped, TextWritten
    <2> HIDE DEF t
    <2>6. n \in 0 .. Len(t) /\ n \in 1 .. Len(t)
      BY <2>4, <2>5 DEF t
    <2>7. c \in Seq(0 .. 63) /\ Len(c) = n /\ k \in 0 .. Len(b) /\ Bytes(c) = SubSeq(b, 1, k)
      BY <2>5, <2>6, BytesOfCut
    <2>8. b \in Seq(Byte)
      BY <2>5, BytesTyped
    <2>9. Imported(t).err = "nil" /\ Imported(c).err = "nil"
      BY <2>4 DEF t
    <2>10. Imported(t) = ParsePayload(b)
      BY <2>5, <2>9, TextImported
    <2>11. Imported(c) = ParsePayload(SubSeq(b, 1, k))
      <3> HIDE DEF c, b, k
      <3> QED BY <2>7, <2>9, TextImported
    <2> HIDE DEF c, b, k
    <2>12. IsPrefix(ParsePayload(SubSeq(b, 1, k)).value.accounts, ParsePayload(b).value.accounts)
      BY <2>7, <2>8, <2>9, <2>10, <2>11, CutIsParsed
    <2> QED BY <2>4, <2>10, <2>11, <2>12, Zenon DEF c, t
  <1> QED BY <1>1, JobInvariant, PTL

(* The groups of a varint make up the number again. *)
LEMMA GroupsRead ==
    ASSUME NEW v \in 0 .. MaxUint64
    PROVE  Ungrouped(AppendProtoVarint(v)) = v
  <1> DEFINE g == AppendProtoVarint(v)
             N == VarintSize(v)
             S(n) == Shifted(v)[n]
  <1>0. MaxVarintBytes \in Nat /\ v \in Nat
    BY WidthsAssumption
  <1>1. N \in 1 .. MaxVarintBytes /\ N \in Nat /\ S(N) = 0
    BY <1>0, VarintSizeIs
  <1>2. /\ g \in Seq(Byte) /\ Len(g) = N
        /\ \A n \in 1 .. N : g[n] = (S(n - 1) % 128) + (IF n < N THEN 128 ELSE 0)
    BY VarintWritten
  <1>3. /\ S(0) = v /\ \A n \in 0 .. MaxVarintBytes : S(n) \in Nat
        /\ \A n \in 1 .. MaxVarintBytes : S(n) = S(n - 1) \div 128
    BY <1>0, ShiftedTyped
  <1> HIDE DEF g, N, S
  <1>4. PICK f \in [0 .. N -> Nat] :
               /\ f[0] = 0 /\ Ungrouped(g) = f[N]
               /\ \A n \in 1 .. N : f[n] = (g[N - (n - 1)] % 128) + 128 * f[n - 1]
    <2>1. \E f \in [0 .. Len(g) -> Nat] :
             /\ f[0] = 0 /\ Ungrouped(g) = f[Len(g)]
             /\ \A n \in 1 .. Len(g) : f[n] = (g[Len(g) - (n - 1)] % 128) + 128 * f[n - 1]
      BY <1>2, UngroupedTyped, ZenonT(40)
    <2>2. Len(g) = N
      BY <1>2, Zenon
    <2> QED BY <2>1, <2>2, ZenonT(40)
  <1> DEFINE At == {n \in Nat : n <= N => f[n] = S(N - n)}
  <1>5. 0 \in At
    BY <1>1, <1>4
  <1>6. ASSUME NEW n \in Nat, n \in At PROVE n + 1 \in At
    <2>1. SUFFICES ASSUME n + 1 <= N PROVE f[n + 1] = S(N - (n + 1))
      OBVIOUS
    <2> DEFINE m == N - n
    <2>2. n + 1 \in 1 .. N /\ (n + 1) - 1 = n /\ m \in 1 .. N /\ N - ((n + 1) - 1) = m /\ N - (n + 1) = m - 1
      BY <1>1, <2>1
    <2>3. f[n] = S(m)
      <3>1. n <= N
        BY <1>1, <2>1
      <3> QED BY <1>6, <3>1
    <2> HIDE DEF m
    <2>4. f[n + 1] = (g[m] % 128) + 128 * S(m)
      BY <1>4, <2>2, <2>3
    <2>5. m \in 1 .. MaxVarintBytes /\ m - 1 \in 0 .. MaxVarintBytes
      BY <1>0, <1>1, <2>2
    <2>6. S(m) = S(m - 1) \div 128 /\ S(m - 1) \in Nat
      BY <1>3, <2>5
    <2>7. g[m] % 128 = S(m - 1) % 128
      <3>1. g[m] = (S(m - 1) % 128) + 128 \/ g[m] = (S(m - 1) % 128) + 0
        BY <1>2, <2>2
      <3>2. \A x \in Nat : ((x % 128) + 128) % 128 = x % 128 /\ ((x % 128) + 0) % 128 = x % 128
        OBVIOUS
      <3>3. S(m - 1) \in Nat
        BY <2>6, Zenon
      <3>4. CASE g[m] = (S(m - 1) % 128) + 128
        <4>1. ((S(m - 1) % 128) + 128) % 128 = S(m - 1) % 128
          BY <3>2, <3>3, Zenon
        <4> QED BY <3>4, <4>1, Zenon
      <3>5. CASE g[m] = (S(m - 1) % 128) + 0
        <4>1. ((S(m - 1) % 128) + 0) % 128 = S(m - 1) % 128
          BY <3>2, <3>3, Zenon
        <4> QED BY <3>5, <4>1, Zenon
      <3> QED BY <3>1, <3>4, <3>5, Zenon
    <2>8. \A x \in Nat : (x % 128) + 128 * (x \div 128) = x
      OBVIOUS
    <2>9. f[n + 1] = S(m - 1)
      BY <2>4, <2>6, <2>7, <2>8, Zenon
    <2> QED BY <2>2, <2>9
  <1>7. N \in At
    <2> HIDE DEF At
    <2> QED BY <1>1, <1>5, <1>6, InductionOnSet
  <1>8. f[N] = S(0)
    BY <1>1, <1>7
  <1> QED BY <1>3, <1>4, <1>8 DEF g

(* The reader of a varint reads what was written. *)
LEMMA VarintReadsBack ==
    ASSUME NEW data \in Seq(Byte), NEW i \in Nat \ {0}, NEW v \in 0 .. MaxUint64,
           Holds(data, i, AppendProtoVarint(v))
    PROVE  /\ ReadProtoVarint(data, i) = Read(v, i + Len(AppendProtoVarint(v)))
           /\ Len(AppendProtoVarint(v)) \in Nat \ {0}
  <1> DEFINE g == AppendProtoVarint(v)
             N == VarintSize(v)
             last == i + Len(g) - 1
  <1>0. MaxVarintBytes \in Nat /\ v \in Nat /\ MaxUint64 \in Nat
    BY WidthsAssumption
  <1>1. N \in 1 .. MaxVarintBytes /\ N \in Nat
    BY <1>0, VarintSizeIs
  <1>2. /\ g \in Seq(Byte) /\ Len(g) = N
        /\ \A n \in 1 .. N : g[n] = (Shifted(v)[n - 1] % 128) + (IF n < N THEN 128 ELSE 0)
    BY VarintWritten
  <1>3. ASSUME NEW n \in 1 .. N PROVE IF n < N THEN g[n] >= 128 ELSE g[n] < 128
    <2>1. n - 1 \in 0 .. MaxVarintBytes
      BY <1>0, <1>1
    <2>2. Shifted(v)[n - 1] \in Nat
      BY <1>0, <2>1, ShiftedTyped
    <2>3. \A x \in Nat : (x % 128) + 128 >= 128 /\ (x % 128) + 0 < 128
      OBVIOUS
    <2>4. CASE n < N
      BY <1>2, <2>2, <2>3, <2>4, Zenon
    <2>5. CASE ~ (n < N)
      BY <1>2, <2>2, <2>3, <2>5, Zenon
    <2> QED BY <2>4, <2>5
  <1>4. Len(g) <= Len(data) - i + 1 /\ \A k \in 1 .. N : data[i + (k - 1)] = g[k]
    BY <1>1, <1>2 DEF Holds
  <1>5. SubSeq(data, i, last) = g
    BY <1>2, HeldIsPart
  <1>6. Ungrouped(g) = v
    BY GroupsRead
  <1> HIDE DEF g, N
  <1>7. last \in i .. Len(data) /\ (last - i) + 1 = N /\ last + 1 = i + Len(g)
    BY <1>1, <1>2, <1>4
  <1>8. data[last] < 128
    <2>1. N \in 1 .. N /\ i + (N - 1) = last
      BY <1>1, <1>2
    <2>2. ~ (N < N)
      BY <1>1
    <2>3. g[N] < 128 /\ data[i + (N - 1)] = g[N]
      BY <1>3, <1>4, <2>1, <2>2
    <2> QED BY <2>1, <2>3, Zenon
  <1>9. ASSUME NEW k \in i .. last - 1 PROVE data[k] >= 128
    <2> DEFINE n == k - i + 1
    <2>1. n \in 1 .. N /\ n < N /\ i + (n - 1) = k
      BY <1>1, <1>7
    <2> HIDE DEF n
    <2> QED BY <1>3, <1>4, <2>1
  <1>10. ReadProtoVarint(data, i) = Read(Ungrouped(SubSeq(data, i, last)) % (MaxUint64 + 1), last + 1)
    <2>1. (last - i) + 1 <= MaxVarintBytes
      BY <1>0, <1>1, <1>7
    <2> HIDE DEF last
    <2> QED BY <1>7, <1>8, <1>9, <2>1, VarintIs
  <1>11. v % (MaxUint64 + 1) = v
    BY <1>0
  <1>12. Len(g) \in Nat \ {0}
    BY <1>1, <1>2
  <1>13. ReadProtoVarint(data, i) = Read(v, i + Len(g))
    BY <1>5, <1>6, <1>7, <1>10, <1>11, Zenon
  <1> QED BY <1>12, <1>13 DEF g

(* The reader of bytes reads what was written. *)
LEMMA BytesReadBack ==
    ASSUME NEW data \in Seq(Byte), NEW i \in Nat \ {0}, NEW s \in Str,
           Holds(data, i, AppendProtoVarint(Len(s))),
           Holds(data, i + Len(AppendProtoVarint(Len(s))), s)
    PROVE  ReadProtoBytes(data, i) = Read(s, i + Len(AppendProtoVarint(Len(s))) + Len(s))
  <1> DEFINE n == Len(s)
             j == i + Len(AppendProtoVarint(n))
             r == ReadProtoVarint(data, i)
  <1>1. s \in Seq(Byte) /\ n \in Nat /\ n <= MaxInt
    BY DEF Str
  <1>2. n \in 0 .. MaxUint64 /\ MaxInt \in Nat
    BY <1>1, WidthsAssumption
  <1>3. r = Read(n, j) /\ Len(AppendProtoVarint(n)) \in Nat \ {0}
    BY <1>2, VarintReadsBack
  <1>4. j \in Nat \ {0}
    BY <1>3
  <1>5. SubSeq(data, j, j + n - 1) = s /\ j + n - 1 <= Len(data)
    BY <1>1, <1>4, HeldIsPart DEF Holds
  <1>6. r.err = "nil" /\ r.value = n /\ r.next = j
    BY <1>3 DEF Read
  <1>7. ReadProtoBytes(data, i) =
          IF r.err # "nil" THEN r
          ELSE IF r.value > MaxInt \/ (r.next + r.value) - 1 > Len(data) THEN Failed("ErrInvalidMigration")
          ELSE Read(SubSeq(data, r.next, (r.next + r.value) - 1), r.next + r.value)
    BY DEF ReadProtoBytes, ThenRead
  <1> HIDE DEF n, j, r
  <1>8. ~ (n > MaxInt) /\ ~ ((j + n) - 1 > Len(data))
    BY <1>1, <1>2, <1>4, <1>5
  <1>9. ReadProtoBytes(data, i) = Read(s, j + n)
    <2>1. (j + n) - 1 = j + n - 1
      BY <1>1, <1>4
    <2>2. ReadProtoBytes(data, i) = Read(SubSeq(data, j, (j + n) - 1), j + n)
      BY <1>6, <1>7, <1>8, Zenon
    <2> QED BY <1>5, <2>1, <2>2, Zenon
  <1> QED BY <1>9 DEF n, j

(* Fields of a message: their number, their wire type and their value. *)
Numbers == {num \in Nat : num > 0 /\ 8 * num + 2 <= MaxUint64}

WireFields == [num : Numbers, wire : {0}, value : 0 .. MaxUint64] \cup [num : Numbers, wire : {2}, value : Str]

(* What is written for one. *)
Written(f) ==
    IF f.wire = 2 THEN AppendProtoBytesField(f.num, f.value) ELSE AppendProtoVarintField(f.num, f.value)

(* The tag and the value are read as they were written. *)
LEMMA FieldReadBack ==
    ASSUME NEW f \in WireFields
    PROVE  /\ Written(f) \in Seq(Byte) /\ Len(Written(f)) \in Nat \ {0}
           /\ \A data \in Seq(Byte), i \in Nat \ {0} :
                 Holds(data, i, Written(f)) =>
                    \E j \in Nat \ {0} :
                       /\ ReadProtoVarint(data, i) = Read(8 * f.num + f.wire, j)
                       /\ f.wire = 0 => ReadProtoVarint(data, j) = Read(f.value, i + Len(Written(f)))
                       /\ f.wire = 2 => ReadProtoBytes(data, j) = Read(f.value, i + Len(Written(f)))
  <1> DEFINE t == 8 * f.num + f.wire
             g == AppendProtoVarint(t)
  <1>0. f.num \in Nat /\ f.num > 0 /\ 8 * f.num + 2 <= MaxUint64 /\ MaxUint64 \in Nat /\ (f.wire = 0 \/ f.wire = 2)
    BY WidthsAssumption DEF WireFields, Numbers
  <1>1. t \in 0 .. MaxUint64
    BY <1>0
  <1>2. g \in Seq(Byte) /\ Len(g) \in Nat \ {0}
    <2>1. Len(g) = VarintSize(t) /\ g \in Seq(Byte) /\ VarintSize(t) \in 1 .. MaxVarintBytes
      BY <1>1, VarintWritten, VarintSizeIs
    <2> QED BY <2>1, WidthsAssumption
  <1>3. CASE f.wire = 0
    <2> DEFINE h == AppendProtoVarint(f.value)
               w == Written(f)
    <2>1. f.value \in 0 .. MaxUint64
      BY <1>3 DEF WireFields
    <2>2. h \in Seq(Byte) /\ Len(h) \in Nat
      BY <2>1, VarintWritten
    <2>3. w = g \o h
      <3>1. 8 * f.num = t
        BY <1>0, <1>3
      <3> QED BY <1>3, <3>1 DEF Written, AppendProtoVarintField
    <2> HIDE DEF w
    <2>4. w \in Seq(Byte) /\ Len(w) = Len(g) + Len(h)
      <3> HIDE DEF g, h
      <3> QED BY <1>2, <2>2, <2>3, ConcatProperties
    <2>5. ASSUME NEW data \in Seq(Byte), NEW i \in Nat \ {0}, Holds(data, i, w)
          PROVE  \E j \in Nat \ {0} : /\ ReadProtoVarint(data, i) = Read(t, j)
                                      /\ ReadProtoVarint(data, j) = Read(f.value, i + Len(w))
      <3> DEFINE j == i + Len(g)
      <3>1. Holds(data, i, g) /\ Holds(data, j, h)
        <4> HIDE DEF g, h
        <4> QED BY <1>2, <2>2, <2>3, <2>5, HoldsBoth
      <3>2. j \in Nat \ {0} /\ j + Len(h) = i + Len(w)
        <4> HIDE DEF g, h
        <4> QED BY <1>2, <2>2, <2>4
      <3>3. ReadProtoVarint(data, i) = Read(t, j)
        BY <1>1, <3>1, VarintReadsBack
      <3> HIDE DEF j
      <3>4. ReadProtoVarint(data, j) = Read(f.value, j + Len(h))
        BY <2>1, <3>1, <3>2, VarintReadsBack
      <3> QED BY <3>2, <3>3, <3>4
    <2>6. Len(w) \in Nat \ {0}
      <3> HIDE DEF g, h
      <3> QED BY <1>2, <2>2, <2>4
    <2> QED BY <1>3, <2>4, <2>5, <2>6 DEF w
  <1>4. CASE f.wire = 2
    <2> DEFINE s == f.value
               h == AppendProtoVarint(Len(s))
               w == Written(f)
    <2>1. s \in Str /\ s \in Seq(Byte) /\ Len(s) \in Nat
      BY <1>4 DEF WireFields, Str
    <2>2. Len(s) \in 0 .. MaxUint64
      <3>1. Len(s) <= MaxInt
        BY <2>1 DEF Str
      <3> QED BY <2>1, <3>1, WidthsAssumption
    <2>3. h \in Seq(Byte) /\ Len(h) \in Nat
      BY <2>2, VarintWritten
    <2>4. w = (g \o h) \o s
      BY <1>4 DEF Written, AppendProtoBytesField
    <2> HIDE DEF w
    <2>5. (g \o h) \in Seq(Byte) /\ Len(g \o h) = Len(g) + Len(h)
      <3> HIDE DEF g, h
      <3> QED BY <1>2, <2>3, ConcatProperties
    <2>6. w \in Seq(Byte) /\ Len(w) = Len(g \o h) + Len(s)
      <3> HIDE DEF g, h, s
      <3> QED BY <2>1, <2>4, <2>5, ConcatProperties
    <2>7. ASSUME NEW data \in Seq(Byte), NEW i \in Nat \ {0}, Holds(data, i, w)
          PROVE  \E j \in Nat \ {0} : /\ ReadProtoVarint(data, i) = Read(t, j)
                                      /\ ReadProtoBytes(data, j) = Read(s, i + Len(w))
      <3> DEFINE j == i + Len(g)
      <3>1. Holds(data, i, g \o h) /\ Holds(data, i + Len(g \o h), s)
        <4> HIDE DEF g, h, s
        <4> QED BY <2>1, <2>4, <2>5, <2>7, HoldsBoth
      <3>2. Holds(data, i, g) /\ Holds(data, j, h)
        <4> HIDE DEF g, h
        <4> QED BY <1>2, <2>3, <3>1, HoldsBoth
      <3>3. j \in Nat \ {0} /\ j + Len(h) = i + Len(g \o h) /\ j + Len(h) + Len(s) = i + Len(w)
        <4> HIDE DEF g, h, s
        <4> QED BY <1>2, <2>1, <2>3, <2>5, <2>6
      <3>4. ReadProtoVarint(data, i) = Read(t, j)
        BY <1>1, <3>2, VarintReadsBack
      <3>5. Holds(data, j + Len(h), s)
        <4> HIDE DEF g, h, s, j
        <4> QED BY <3>1, <3>3
      <3> HIDE DEF j
      <3>6. ReadProtoBytes(data, j) = Read(s, j + Len(h) + Len(s))
        BY <2>1, <3>2, <3>3, <3>5, BytesReadBack
      <3> QED BY <3>3, <3>4, <3>6
    <2>8. Len(w) \in Nat \ {0}
      <3> HIDE DEF g, h, s
      <3> QED BY <1>2, <2>1, <2>3, <2>5, <2>6
    <2>9. f.wire # 0
      BY <1>4
    <2> QED BY <1>4, <2>6, <2>7, <2>8, <2>9, Zenon DEF w
  <1> QED BY <1>0, <1>3, <1>4

(* The parts of a message lie in it where the ones before them end. *)
LEMMA PartsHeld ==
    ASSUME NEW r \in Seq(Seq(Byte)), NEW d \in [0 .. Len(r) -> Seq(Byte)],
           \A i \in 1 .. Len(r) : d[i] = Cat(d[i - 1], r[i])
    PROVE  /\ \A i \in 0 .. Len(r) : Len(d[i]) \in 0 .. Len(d[Len(r)])
           /\ \A i \in 1 .. Len(r) : /\ Holds(d[Len(r)], Len(d[i - 1]) + 1, r[i])
                                     /\ Len(d[i]) = Len(d[i - 1]) + Len(r[i])
  <1> DEFINE K == Len(r)
  <1>0. K \in Nat /\ \A i \in 1 .. K : r[i] \in Seq(Byte)
    BY ElementOfSeq
  <1>1. Seq(Byte) \subseteq Seq(Char)
    BY EncodedTyped, SeqMonotone
  <1>2. r \in Seq(Seq(Char)) /\ d \in [0 .. K -> Seq(Char)]
    <2>1. r \in Seq(Seq(Char))
      <3> DEFINE S == Seq(Byte)
                 T == Seq(Char)
      <3>1. S \subseteq T /\ r \in Seq(S)
        BY <1>1
      <3> HIDE DEF S, T
      <3>2. r \in Seq(T)
        BY <3>1, SeqMonotone
      <3> QED BY <3>2 DEF T
    <2> QED BY <1>1, <2>1
  <1>3. ASSUME NEW i \in 0 .. K PROVE Len(d[i]) \in 0 .. Len(d[K])
    <2>1. PICK x \in Seq(Char) : d[K] = Cat(d[i], x)
      BY <1>2, TurnsAreBeginnings
    <2>2. d[i] \in Seq(Char) /\ Len(d[i]) \in Nat /\ Len(x) \in Nat
      BY <1>2
    <2>3. Len(d[K]) = Len(d[i]) + Len(x)
      BY <2>1, <2>2, CatProperties
    <2> QED BY <2>2, <2>3
  <1>4. ASSUME NEW i \in 1 .. K
        PROVE  Holds(d[K], Len(d[i - 1]) + 1, r[i]) /\ Len(d[i]) = Len(d[i - 1]) + Len(r[i])
    <2> DEFINE j == i - 1
               a == d[j]
               b == r[i]
    <2>1. j \in 0 .. K /\ j < K /\ j + 1 = i
      BY <1>0
    <2>2. a \in Seq(Char) /\ b \in Seq(Char) /\ Len(a) \in Nat /\ Len(b) \in Nat
      <3>1. b \in Seq(Byte) /\ a \in Seq(Byte)
        BY <1>0, <2>1
      <3> HIDE DEF a, b
      <3>2. a \in Seq(Char) /\ b \in Seq(Char)
        BY <1>1, <3>1
      <3> QED BY <3>2, LenProperties
    <2>3. d[i] = Cat(a, b)
      OBVIOUS
    <2>4. PICK x \in Seq(Char) : d[K] = Cat(d[j], Cat(r[j + 1], x))
      BY <1>2, <2>1, TurnsContinue
    <2>5. d[K] = Cat(a, Cat(b, x))
      BY <2>1, <2>4
    <2> HIDE DEF a, b, j
    <2>6. /\ Len(Cat(a, b)) = Len(a) + Len(b)
          /\ Len(d[K]) = Len(a) + Len(b) + Len(x)
          /\ \A k \in 1 .. Len(b) : d[K][Len(a) + k] = b[k]
      BY <2>2, <2>5, PartInside
    <2>7. Holds(d[K], Len(a) + 1, b)
      <3>1. (Len(a) + 1) + Len(b) - 1 <= Len(d[K])
        <4>1. Len(x) \in Nat
          OBVIOUS
        <4> QED BY <2>2, <2>6, <4>1
      <3>2. ASSUME NEW k \in 1 .. Len(b) PROVE d[K][(Len(a) + 1) + (k - 1)] = b[k]
        <4>1. (Len(a) + 1) + (k - 1) = Len(a) + k
          BY <2>2
        <4> QED BY <2>6, <4>1
      <3> QED BY <3>1, <3>2 DEF Holds
    <2> QED BY <2>3, <2>6, <2>7 DEF a, b, j
  <1> QED BY <1>3, <1>4

(* Fields that the parser of a payload reads. *)
PayloadFields == {f \in WireFields : (f.num = 1 => f.wire = 2) /\ (f.num \in 2 .. 5 => f.wire = 0)}

(* A turn reads the field that is next. *)
LEMMA PayloadTurnWritten ==
    ASSUME NEW f \in PayloadFields, NEW data \in Seq(Byte), NEW i \in Nat \ {0},
           Holds(data, i, Written(f)), NEW p
    PROVE  LET set == SetPayloadField(p, f.num, f.value)
           IN  PayloadTurn(data, Read(p, i)) =
                   IF set.err # "nil" THEN set ELSE Read(set.value, i + Len(Written(f)))
  <1> DEFINE r == Read(p, i)
             n == i + Len(Written(f))
             tag == ReadProtoVarint(data, i)
  <1>1. f \in WireFields /\ f.num \in Nat /\ f.wire \in {0, 2}
    BY DEF PayloadFields, WireFields, Numbers
  <1>2. PICK j \in Nat \ {0} :
               /\ tag = Read(8 * f.num + f.wire, j)
               /\ f.wire = 0 => ReadProtoVarint(data, j) = Read(f.value, n)
               /\ f.wire = 2 => ReadProtoBytes(data, j) = Read(f.value, n)
    BY <1>1, FieldReadBack
  <1>3. tag.err = "nil" /\ tag.value = 8 * f.num + f.wire /\ tag.next = j
    BY <1>2 DEF Read
  <1>4. (8 * f.num + f.wire) \div 8 = f.num /\ (8 * f.num + f.wire) % 8 = f.wire
    BY <1>1
  <1> DEFINE field == ReadPayloadField(data, j, f.num, f.wire)
             set == SetPayloadField(p, f.num, f.value)
  <1>5. field = Read(f.value, n)
    <2>1. f.num = 1 => f.wire = 2
      BY DEF PayloadFields
    <2>2. f.num \in 2 .. 5 => f.wire = 0
      BY DEF PayloadFields
    <2>3. CASE f.wire = 0
      <3>1. f.num # 1 /\ f.wire # 2
        BY <2>1, <2>3
      <3>2. field = ReadProtoVarint(data, j)
        BY <2>3, <3>1 DEF ReadPayloadField, ReadScalar, SkipProtoField
      <3> QED BY <1>2, <2>3, <3>2
    <2>4. CASE f.wire = 2
      <3>1. f.num \notin 2 .. 5 /\ f.wire # 0
        BY <2>2, <2>4
      <3>2. field = ReadProtoBytes(data, j)
        BY <2>4, <3>1 DEF ReadPayloadField, ReadScalar, SkipProtoField
      <3> QED BY <1>2, <2>4, <3>2
    <2> QED BY <1>1, <2>3, <2>4
  <1>6. field.err = "nil" /\ field.value = f.value /\ field.next = n
    BY <1>5 DEF Read
  <1>7. r.err = "nil" /\ r.value = p /\ r.next = i
    BY DEF Read
  <1>8. ~ (i > Len(data))
    <2>1. Len(Written(f)) \in Nat \ {0}
      BY <1>1, FieldReadBack
    <2>2. i + Len(Written(f)) - 1 <= Len(data) /\ Len(data) \in Nat
      BY DEF Holds
    <2> QED BY <2>1, <2>2
  <1> HIDE DEF r, n, tag, field, set
  <1>9. PayloadTurn(data, r) =
             LET t    == ReadProtoVarint(data, r.next)
                 num  == t.value \div 8
                 fld  == ReadPayloadField(data, t.next, num, t.value % 8)
                 st   == SetPayloadField(r.value, num, fld.value)
             IN  IF r.err # "nil" \/ r.next > Len(data) THEN r
                 ELSE IF t.err # "nil" THEN t
                 ELSE IF fld.err # "nil" THEN fld
                 ELSE IF st.err # "nil" THEN st
                 ELSE Read(st.value, fld.next)
    BY PayloadTurnIs
  <1>10. ReadProtoVarint(data, r.next) = tag
    BY <1>7, Zenon DEF tag
  <1>11. ReadPayloadField(data, tag.next, tag.value \div 8, tag.value % 8) = field
    BY <1>3, <1>4, Zenon DEF field
  <1>12. SetPayloadField(r.value, tag.value \div 8, field.value) = set
    BY <1>3, <1>4, <1>6, <1>7, Zenon DEF set
  <1>13. PayloadTurn(data, r) = IF r.err # "nil" \/ r.next > Len(data) THEN r
                               ELSE IF tag.err # "nil" THEN tag
                               ELSE IF field.err # "nil" THEN field
                               ELSE IF set.err # "nil" THEN set
                               ELSE Read(set.value, field.next)
    BY <1>9, <1>10, <1>11, <1>12, Zenon
  <1>14. PayloadTurn(data, r) = IF set.err # "nil" THEN set ELSE Read(set.value, n)
    BY <1>3, <1>6, <1>7, <1>8, <1>13, Zenon
  <1> QED BY <1>14 DEF r, n, set

(* The results P of setting the fields of a message d[Len(r)] one behind   *)
(* the other; a part that is empty holds none.                              *)
PayloadResults(r, d, fs, P) ==
    /\ r \in Seq(Seq(Byte)) /\ d \in [0 .. Len(r) -> Seq(Byte)]
    /\ d[0] = <<>> /\ P[0] = Ok(NewPayload)
    /\ \A i \in 1 .. Len(r) :
          /\ d[i] = Cat(d[i - 1], r[i])
          /\ \/ r[i] = <<>> /\ P[i] = P[i - 1]
             \/ /\ fs[i] \in PayloadFields /\ r[i] = Written(fs[i])
                /\ P[i] = IF P[i - 1].err # "nil" THEN P[i - 1]
                          ELSE SetPayloadField(P[i - 1].value, fs[i].num, fs[i].value)

(* The parser returns the last of them. *)
LEMMA PayloadParsed ==
    ASSUME NEW r, NEW d, NEW fs, NEW P, PayloadResults(r, d, fs, P)
    PROVE  ParsePayload(d[Len(r)]) =
               IF P[Len(r)].err # "nil" THEN P[Len(r)] ELSE Ok(P[Len(r)].value)
  <1> DEFINE K == Len(r)
             data == d[K]
             N == Len(data)
             L(i) == Len(d[i])
             R(i) == Len(r[i])
             st(i) == IF P[i].err # "nil" THEN P[i] ELSE Read(P[i].value, L(i) + 1)
             s == [i \in 0 .. K |-> st(i)]
             q == [i \in 0 .. K |-> L(i)]
  <1>0. K \in Nat /\ \A i \in 1 .. K : r[i] \in Seq(Byte)
    BY ElementOfSeq DEF PayloadResults
  <1>1. K \in 0 .. K /\ 0 \in 0 .. K
    BY <1>0
  <1>2. data \in Seq(Byte) /\ N \in Nat
    BY <1>1 DEF PayloadResults
  <1>3. PICK A \in [0 .. N -> LoopStates(N)] :
               /\ A[0] = Read(NewPayload, 1)
               /\ \A n \in 1 .. N : A[n] = PayloadTurn(data, A[n - 1])
               /\ ParsePayload(data) = IF A[N].err # "nil" THEN A[N] ELSE Ok(A[N].value)
    BY <1>2, PayloadLoop
  <1>4. /\ \A i \in 0 .. K : L(i) \in 0 .. N
        /\ \A i \in 1 .. K : Holds(data, L(i - 1) + 1, r[i]) /\ L(i) = L(i - 1) + R(i)
    BY PartsHeld DEF PayloadResults
  <1>5. \A i \in 1 .. K : R(i) \in Nat /\ (r[i] = <<>> => R(i) = 0)
    BY <1>0
  <1>6. A[0] = s[0]
    <2>1. P[0].err = "nil" /\ P[0].value = NewPayload /\ Len(d[0]) + 1 = 1
      BY DEF PayloadResults, Ok
    <2> QED BY <1>1, <1>3, <2>1
  <1>13. L(K) = N
    OBVIOUS
  <1> HIDE DEF K, data, N, L, R
  <1>7. ASSUME NEW i \in 1 .. K
        PROVE  \/ s[i] = s[i - 1] /\ q[i] >= q[i - 1]
               \/ /\ q[i] > q[i - 1]
                  /\ \A n \in 1 .. N : A[n - 1] = s[i - 1] => A[n] = s[i]
    <2>1. i \in 0 .. K /\ i - 1 \in 0 .. K
      BY <1>0
    <2>2. s[i] = st(i) /\ s[i - 1] = st(i - 1) /\ q[i] = L(i) /\ q[i - 1] = L(i - 1)
      BY <2>1
    <2>3. L(i - 1) \in Nat /\ R(i) \in Nat /\ L(i) = L(i - 1) + R(i)
      BY <1>0, <1>2, <1>4, <1>5, <2>1
    <2> HIDE DEF s, q
    <2>4. \/ r[i] = <<>> /\ P[i] = P[i - 1]
          \/ /\ fs[i] \in PayloadFields /\ r[i] = Written(fs[i])
             /\ P[i] = IF P[i - 1].err # "nil" THEN P[i - 1]
                       ELSE SetPayloadField(P[i - 1].value, fs[i].num, fs[i].value)
      BY DEF PayloadResults, K
    <2>5. q[i] >= q[i - 1]
      BY <2>2, <2>3
    <2>6. CASE r[i] = <<>> /\ P[i] = P[i - 1]
      <3>1. L(i) = L(i - 1)
        BY <1>5, <2>3, <2>6
      <3>2. st(i) = st(i - 1)
        BY <2>6, <3>1
      <3> QED BY <2>2, <2>5, <3>2
    <2>7. CASE P[i - 1].err # "nil" /\ P[i] = P[i - 1]
      <3>1. st(i) = st(i - 1)
        BY <2>7
      <3> QED BY <2>2, <2>5, <3>1
    <2>8. CASE /\ P[i - 1].err = "nil" /\ fs[i] \in PayloadFields /\ r[i] = Written(fs[i])
               /\ P[i] = SetPayloadField(P[i - 1].value, fs[i].num, fs[i].value)
      <3> DEFINE j == L(i - 1) + 1
                 p == P[i - 1].value
      <3>1. j \in Nat \ {0}
        BY <2>3
      <3>2. Holds(data, j, Written(fs[i])) /\ fs[i] \in WireFields
        BY <1>4, <2>8 DEF PayloadFields
      <3>3. st(i - 1) = Read(p, j)
        BY <2>8
      <3>4. R(i) \in Nat \ {0}
        BY <2>8, <3>2, FieldReadBack DEF R
      <3>5. j + R(i) = L(i) + 1
        BY <2>3, <3>4
      <3>6. PayloadTurn(data, Read(p, j)) = IF P[i].err # "nil" THEN P[i] ELSE Read(P[i].value, j + R(i))
        <4> HIDE DEF j, p
        <4> DEFINE f == fs[i]
        <4>1. PayloadTurn(data, Read(p, j)) =
                LET set == SetPayloadField(p, f.num, f.value)
                IN  IF set.err # "nil" THEN set ELSE Read(set.value, j + Len(Written(f)))
          <5>1. f \in PayloadFields /\ Holds(data, j, Written(f))
            BY <2>8, <3>2
          <5> HIDE DEF f
          <5> QED BY <1>2, <3>1, <5>1, PayloadTurnWritten
        <4>2. P[i] = SetPayloadField(p, fs[i].num, fs[i].value)
          BY <2>8 DEF p
        <4> QED BY <2>8, <4>1, <4>2, Zenon DEF R
      <3>7. PayloadTurn(data, st(i - 1)) = st(i)
        BY <3>3, <3>5, <3>6, Zenon
      <3>8. q[i] > q[i - 1]
        BY <2>2, <2>3, <3>4
      <3>9. \A n \in 1 .. N : A[n - 1] = s[i - 1] => A[n] = s[i]
        BY <1>3, <2>2, <3>7, Zenon
      <3> QED BY <3>8, <3>9
    <2> QED BY <2>4, <2>6, <2>7, <2>8
  <1>8. \A n \in 1 .. N : A[n - 1] = s[K] => A[n] = s[K]
    <2>1. s[K] = st(K)
      BY <1>1
    <2>2. CASE P[K].err # "nil"
      <3>1. st(K) = P[K]
        BY <2>2
      <3>2. PayloadTurn(data, P[K]) = P[K]
        BY <2>2, PayloadTurnIs
      <3> HIDE DEF st, s
      <3> QED BY <1>3, <2>1, <3>1, <3>2, Zenon
    <2>3. CASE P[K].err = "nil"
      <3> DEFINE e == Read(P[K].value, L(K) + 1)
      <3>1. st(K) = e
        BY <2>3
      <3>2. e.next > Len(data)
        BY <1>2, <1>13 DEF Read, N
      <3> HIDE DEF e, st, s
      <3>3. PayloadTurn(data, e) = e
        BY <3>2, PayloadTurnIs
      <3> QED BY <1>3, <2>1, <3>1, <3>3, Zenon
    <2> QED BY <2>2, <2>3
  <1>14. q \in [0 .. K -> 0 .. N]
    BY <1>4
  <1>9. A[N] = s[K]
    <2> HIDE DEF s, q, st
    <2>1. GoesThrough(A, N, s, K, q)
      BY <1>6, <1>7, <1>8, Zenon DEF GoesThrough
    <2>2. K \in Nat /\ N \in Nat
      BY <1>0, <1>2
    <2> QED BY <1>14, <2>1, <2>2, LoopFollows
  <1>10. A[N] = st(K)
    BY <1>1, <1>9
  <1>11. CASE P[K].err # "nil"
    BY <1>3, <1>10, <1>11 DEF data, K
  <1>12. CASE P[K].err = "nil"
    <2>1. A[N].err = "nil" /\ A[N].value = P[K].value
      BY <1>10, <1>12 DEF Read
    <2> QED BY <1>3, <1>12, <2>1 DEF data, K
  <1> QED BY <1>11, <1>12 DEF K

(* What the loop over the fields of an account carries. *)
PartAccounts ==
    [type : {"totp", "hotp"}, label : Values, issuer : Values,
     secretB32 : {<<>>} \cup {EncodeBase32(v) : v \in Values}, algorithm : DOMAIN AlgorithmEnum,
     digits : {6, 8}, period : Nat, counter : Values]

AccountErrors == {Failed(e) : e \in {"ErrInvalidMigration", "ErrInvalidAlgorithm", "ErrInvalidDigits"}}

AccountStates(n) == {Read(a, next) : a \in PartAccounts, next \in 1 .. n + 1} \cup AccountErrors

AccountTurn(data, r) == NextField(data, r, ReadAccountField, SetAccountField)

(* A turn, with the readers' results by name. *)
LEMMA AccountTurnIs ==
    ASSUME NEW data, NEW r
    PROVE  AccountTurn(data, r) =
             LET tag   == ReadProtoVarint(data, r.next)
                 num   == tag.value \div 8
                 field == ReadAccountField(data, tag.next, num, tag.value % 8)
                 set   == SetAccountField(r.value, num, field.value)
             IN  IF r.err # "nil" \/ r.next > Len(data) THEN r
                 ELSE IF tag.err # "nil" THEN tag
                 ELSE IF field.err # "nil" THEN field
                 ELSE IF set.err # "nil" THEN set
                 ELSE Read(set.value, field.next)
  BY Zenon DEF AccountTurn, NextField, ThenRead, Then

(* The value of a field of an account. *)
LEMMA AccountFieldReads ==
    ASSUME NEW data \in Seq(Byte), NEW i \in Nat \ {0}, NEW num, NEW wire
    PROVE  Reads(ReadAccountField(data, i, num, wire), Values, i, Len(data))
  <1> DEFINE r == ReadAccountField(data, i, num, wire)
             f == Failed("ErrInvalidMigration")
  <1>1. Reads(ReadProtoVarint(data, i), Values, i, Len(data))
    BY VarintReads, Zenon DEF Reads, Values
  <1>2. Reads(ReadProtoBytes(data, i), Values, i, Len(data))
    BY BytesRead, Zenon DEF Reads, Values
  <1>3. Reads(f, Values, i, Len(data))
    BY Zenon DEF Reads
  <1>4. r \in {f, ReadProtoVarint(data, i), ReadProtoBytes(data, i)}
    BY DEF ReadAccountField, ReadScalar, SkipProtoField
  <1> HIDE DEF f, r
  <1> QED BY <1>1, <1>2, <1>3, <1>4 DEF r

(* What a table of the code makes of a number. *)
LEMMA EnumValueIs ==
    ASSUME NEW table, NEW v, NEW e
    PROVE  \/ EnumValue(table, v, e) = Failed(e)
           \/ \E x \in DOMAIN table : table[x] = v /\ EnumValue(table, v, e) = Ok(x)
  BY DEF EnumValue

(* A field is an error, or yields an account. *)
LEMMA AccountFieldSet ==
    ASSUME NEW a \in PartAccounts, NEW v \in Values, NEW num
    PROVE  LET s == SetAccountField(a, num, v)
           IN  (s \in AccountErrors /\ s.err # "nil") \/ (s.err = "nil" /\ s.value \in PartAccounts)
  <1> DEFINE s == SetAccountField(a, num, v)
             alg == IF v = 0 THEN Ok("SHA1") ELSE EnumValue(AlgorithmEnum, v, "ErrInvalidAlgorithm")
             dig == IF v = 0 THEN Ok(6) ELSE EnumValue(DigitEnum, v, "ErrInvalidDigits")
             Good == s.err = "nil" /\ s.value \in PartAccounts
  <1>0. \A x : Ok(x).err = "nil" /\ Ok(x).value = x
    BY DEF Ok
  <1>1. ASSUME NEW b \in PartAccounts, s = Ok(b) PROVE Good
    BY <1>0, <1>1
  <1>2. \A e : Failed(e).err = e
    BY DEF Failed
  <1>3. CASE num = 4
    <2>1. s = IF alg.err # "nil" THEN alg ELSE Ok([a EXCEPT !.algorithm = alg.value])
      BY <1>3 DEF SetAccountField, Then
    <2>2. \/ alg = Failed("ErrInvalidAlgorithm")
          \/ \E x \in DOMAIN AlgorithmEnum : alg = Ok(x)
      <3>1. "SHA1" \in DOMAIN AlgorithmEnum
        BY DEF AlgorithmEnum
      <3> QED BY <3>1, EnumValueIs
    <2> HIDE DEF alg, s
    <2>3. CASE alg = Failed("ErrInvalidAlgorithm")
      <3>1. s = alg
        BY <1>2, <2>1, <2>3
      <3> QED BY <1>2, <2>3, <3>1 DEF AccountErrors, s
    <2>4. ASSUME NEW x \in DOMAIN AlgorithmEnum, alg = Ok(x) PROVE Good
      <3>1. s = Ok([a EXCEPT !.algorithm = x])
        BY <1>0, <2>1, <2>4
      <3>2. [a EXCEPT !.algorithm = x] \in PartAccounts
        BY DEF PartAccounts
      <3> QED BY <1>1, <3>1, <3>2
    <2> QED BY <2>2, <2>3, <2>4 DEF s
  <1>4. CASE num = 5
    <2>1. s = IF dig.err # "nil" THEN dig ELSE Ok([a EXCEPT !.digits = dig.value])
      BY <1>4 DEF SetAccountField, Then
    <2>2. \/ dig = Failed("ErrInvalidDigits")
          \/ \E x \in {6, 8} : dig = Ok(x)
      <3>1. DOMAIN DigitEnum = {6, 8}
        BY DEF DigitEnum
      <3> QED BY <3>1, EnumValueIs
    <2> HIDE DEF dig, s
    <2>3. CASE dig = Failed("ErrInvalidDigits")
      <3>1. s = dig
        BY <1>2, <2>1, <2>3
      <3> QED BY <1>2, <2>3, <3>1 DEF AccountErrors, s
    <2>4. ASSUME NEW x \in {6, 8}, dig = Ok(x) PROVE Good
      <3>1. s = Ok([a EXCEPT !.digits = x])
        BY <1>0, <2>1, <2>4
      <3>2. [a EXCEPT !.digits = x] \in PartAccounts
        BY DEF PartAccounts
      <3> QED BY <1>1, <3>1, <3>2
    <2> QED BY <2>2, <2>3, <2>4 DEF s
  <1>5. CASE num # 4 /\ num # 5
    <2>1. s \in {Ok([a EXCEPT !.secretB32 = EncodeBase32(v)]), Ok([a EXCEPT !.label = v]),
                 Ok([a EXCEPT !.issuer = v]), Ok([a EXCEPT !.type = IF v = 1 THEN "hotp" ELSE "totp"]),
                 Ok([a EXCEPT !.counter = v]), Ok(a)}
      BY <1>5 DEF SetAccountField
    <2>2. /\ [a EXCEPT !.secretB32 = EncodeBase32(v)] \in PartAccounts
          /\ [a EXCEPT !.label = v] \in PartAccounts
          /\ [a EXCEPT !.issuer = v] \in PartAccounts
          /\ [a EXCEPT !.counter = v] \in PartAccounts
      BY DEF PartAccounts
    <2>3. [a EXCEPT !.type = IF v = 1 THEN "hotp" ELSE "totp"] \in PartAccounts
      BY DEF PartAccounts
    <2> HIDE DEF s
    <2> QED BY <1>1, <2>1, <2>2, <2>3 DEF s
  <1> QED BY <1>3, <1>4, <1>5

(* A turn reads a field, or ends in an error. *)
LEMMA AccountTurnTyped ==
    ASSUME NEW data \in Seq(Byte), NEW r \in AccountStates(Len(data))
    PROVE  AccountTurn(data, r) \in AccountStates(Len(data))
  <1> DEFINE n == Len(data)
             s == AccountTurn(data, r)
             tag == ReadProtoVarint(data, r.next)
             num == tag.value \div 8
             field == ReadAccountField(data, tag.next, num, tag.value % 8)
             set == SetAccountField(r.value, num, field.value)
             f == Failed("ErrInvalidMigration")
  <1>0. n \in Nat /\ f \in AccountErrors /\ f.err # "nil"
    BY DEF AccountErrors, Failed
  <1>1. s = IF r.err # "nil" \/ r.next > n THEN r
            ELSE IF tag.err # "nil" THEN tag
            ELSE IF field.err # "nil" THEN field
            ELSE IF set.err # "nil" THEN set
            ELSE Read(set.value, field.next)
    BY AccountTurnIs
  <1>2. CASE r.err # "nil" \/ r.next > n
    <2>1. s = r
      BY <1>1, <1>2
    <2> QED BY <2>1
  <1>3. CASE ~ (r.err # "nil" \/ r.next > n)
    <2>1. r \notin AccountErrors
      BY <1>3 DEF AccountErrors, Failed
    <2>2. PICK a \in PartAccounts, i \in 1 .. n + 1 : r = Read(a, i)
      BY <2>1 DEF AccountStates
    <2>3. r.err = "nil" /\ r.value = a /\ r.next = i
      BY <2>2 DEF Read
    <2>4. i \in Nat \ {0}
      BY <1>0
    <2>5. Reads(tag, 0 .. MaxUint64, i, n)
      BY <2>3, <2>4, VarintReads
    <2>6. CASE tag = f
      <3>1. s = f
        BY <1>0, <1>1, <1>3, <2>6
      <3> HIDE DEF s, f
      <3> QED BY <1>0, <3>1 DEF s, AccountStates
    <2>7. ASSUME NEW t \in 0 .. MaxUint64, NEW next \in i + 1 .. n + 1, tag = Read(t, next)
          PROVE  s \in AccountStates(n)
      <3>1. tag.err = "nil" /\ tag.next = next
        BY <2>7 DEF Read
      <3>2. next \in Nat \ {0}
        BY <1>0, <2>4
      <3>3. Reads(field, Values, next, n)
        BY <3>1, <3>2, AccountFieldReads
      <3> HIDE DEF tag, num, s
      <3>4. CASE field = f
        <4>1. s = f
          BY <1>0, <1>1, <1>3, <3>1, <3>4
        <4> QED BY <1>0, <4>1 DEF AccountStates
      <3>5. ASSUME NEW v \in Values, NEW after \in next + 1 .. n + 1, field = Read(v, after)
            PROVE  s \in AccountStates(n)
        <4>1. field.err = "nil" /\ field.value = v /\ field.next = after
          BY <3>5 DEF Read
        <4>2. (set \in AccountErrors /\ set.err # "nil") \/ (set.err = "nil" /\ set.value \in PartAccounts)
          BY <2>3, <4>1, AccountFieldSet
        <4> HIDE DEF field, set
        <4>3. CASE set.err # "nil"
          <5>1. s = set
            BY <1>1, <1>3, <3>1, <4>1, <4>3
          <5> QED BY <4>2, <4>3, <5>1 DEF AccountStates
        <4>4. CASE set.err = "nil"
          <5>1. s = Read(set.value, after)
            BY <1>1, <1>3, <3>1, <4>1, <4>4
          <5>2. after \in 1 .. n + 1
            BY <1>0, <3>2
          <5> QED BY <4>2, <4>4, <5>1, <5>2 DEF AccountStates
        <4> QED BY <4>3, <4>4
      <3> HIDE DEF field, f
      <3> QED BY <3>3, <3>4, <3>5, Zenon DEF Reads, f
    <2> HIDE DEF tag, f
    <2> QED BY <2>5, <2>6, <2>7, Zenon DEF Reads, f
  <1> QED BY <1>2, <1>3

(* The loop over the fields of an account, and its end. *)
ReadFields(data) == ReadMessage(data, NewAccount, ReadAccountField, SetAccountField)

(* What the loop has read after each turn. *)
LEMMA AccountLoop ==
    ASSUME NEW data \in Seq(Byte)
    PROVE  \E A \in [0 .. Len(data) -> AccountStates(Len(data))] :
              /\ A[0] = Read(NewAccount, 1)
              /\ \A n \in 1 .. Len(data) : A[n] = AccountTurn(data, A[n - 1])
              /\ ReadFields(data) =
                    IF A[Len(data)].err # "nil" THEN A[Len(data)] ELSE Ok(A[Len(data)].value)
  <1> DEFINE N == Len(data)
             T == AccountStates(N)
             b == Read(NewAccount, 1)
             turn(x) == AccountTurn(data, x)
             F == CHOOSE after : after = [n \in 0 .. N |-> IF n = 0 THEN b ELSE turn(after[n - 1])]
             Eq(h) == h = [n \in 0 .. N |-> IF n = 0 THEN b ELSE turn(h[n - 1])]
             g == [n \in 1 .. N |-> [x \in T |-> turn(x)]]
  <1>0. N \in Nat
    OBVIOUS
  <1>1. ReadFields(data) = IF F[N].err # "nil" THEN F[N] ELSE Ok(F[N].value)
    BY DEF ReadFields, ReadMessage, AccountTurn, Then
  <1>2. b \in T
    <2>1. 1 \in 1 .. N + 1
      BY <1>0
    <2>2. 0 \in Values /\ <<>> \in Values
      BY WidthsAssumption DEF Values
    <2>3. "SHA1" \in DOMAIN AlgorithmEnum
      BY DEF AlgorithmEnum
    <2>4. NewAccount \in PartAccounts
      <3> HIDE DEF Values, AlgorithmEnum
      <3> QED BY <2>2, <2>3 DEF NewAccount, PartAccounts
    <2> QED BY <2>1, <2>4 DEF AccountStates
  <1>3. ASSUME NEW x \in T PROVE turn(x) \in T
    BY AccountTurnTyped
  <1> HIDE DEF N, T, b, turn
  <1>4. g \in [1 .. N -> [T -> T]]
    BY <1>3
  <1>5. PICK f \in [0 .. N -> T] : f[0] = b /\ \A n \in 1 .. N : f[n] = g[n][f[n - 1]]
    <2> HIDE DEF g
    <2>1. \E f : Turns(f, T, b, N, g)
      BY <1>0, <1>2, <1>4, LoopExists
    <2> QED BY <2>1 DEF Turns
  <1>6. ASSUME NEW n \in 1 .. N PROVE f[n] = turn(f[n - 1])
    <2>1. n - 1 \in 0 .. N /\ f[n - 1] \in T
      BY <1>0
    <2> QED BY <1>5, <2>1
  <1>7. Eq(f)
    BY <1>0, <1>5, <1>6
  <1>8. Eq(F)
    BY <1>7
  <1> HIDE DEF F
  <1>9. F[0] = b /\ \A n \in 1 .. N : F[n] = turn(F[n - 1])
    <2>1. F = [n \in 0 .. N |-> IF n = 0 THEN b ELSE turn(F[n - 1])]
      BY <1>8
    <2> QED BY <1>0, <2>1
  <1> DEFINE At == {n \in Nat : n <= N => F[n] = f[n]}
  <1>10. 0 \in At
    BY <1>5, <1>9
  <1>11. ASSUME NEW n \in Nat, n \in At PROVE n + 1 \in At
    <2> SUFFICES ASSUME n + 1 <= N PROVE F[n + 1] = f[n + 1]
      OBVIOUS
    <2>1. n + 1 \in 1 .. N /\ (n + 1) - 1 = n /\ F[n] = f[n]
      BY <1>0, <1>11
    <2> QED BY <1>6, <1>9, <2>1
  <1>12. N \in At
    <2> HIDE DEF At
    <2> QED BY <1>0, <1>10, <1>11, InductionOnSet
  <1>13. F[N] = f[N]
    BY <1>0, <1>12
  <1> QED BY <1>1, <1>5, <1>6, <1>13 DEF N, T, b, turn

(* Fields that the reader of an account reads. *)
AccountFields == {f \in WireFields : (f.num \in 1 .. 3 => f.wire = 2) /\ (f.num \in 4 .. 7 => f.wire = 0)}

(* A turn reads the field that is next. *)
LEMMA AccountTurnWritten ==
    ASSUME NEW f \in AccountFields, NEW data \in Seq(Byte), NEW i \in Nat \ {0},
           Holds(data, i, Written(f)), NEW p
    PROVE  LET set == SetAccountField(p, f.num, f.value)
           IN  AccountTurn(data, Read(p, i)) =
                   IF set.err # "nil" THEN set ELSE Read(set.value, i + Len(Written(f)))
  <1> DEFINE r == Read(p, i)
             n == i + Len(Written(f))
             tag == ReadProtoVarint(data, i)
  <1>1. f \in WireFields /\ f.num \in Nat /\ f.wire \in {0, 2}
    BY DEF AccountFields, WireFields, Numbers
  <1>2. PICK j \in Nat \ {0} :
               /\ tag = Read(8 * f.num + f.wire, j)
               /\ f.wire = 0 => ReadProtoVarint(data, j) = Read(f.value, n)
               /\ f.wire = 2 => ReadProtoBytes(data, j) = Read(f.value, n)
    BY <1>1, FieldReadBack
  <1>3. tag.err = "nil" /\ tag.value = 8 * f.num + f.wire /\ tag.next = j
    BY <1>2 DEF Read
  <1>4. (8 * f.num + f.wire) \div 8 = f.num /\ (8 * f.num + f.wire) % 8 = f.wire
    BY <1>1
  <1> DEFINE field == ReadAccountField(data, j, f.num, f.wire)
             set == SetAccountField(p, f.num, f.value)
  <1>5. field = Read(f.value, n)
    <2>1. f.num \in 1 .. 3 => f.wire = 2
      BY DEF AccountFields
    <2>2. f.num \in 4 .. 7 => f.wire = 0
      BY DEF AccountFields
    <2>3. CASE f.wire = 0
      <3>1. f.num \notin 1 .. 3 /\ f.wire # 2
        BY <2>1, <2>3
      <3>2. field = ReadProtoVarint(data, j)
        BY <2>3, <3>1 DEF ReadAccountField, ReadScalar, SkipProtoField
      <3> QED BY <1>2, <2>3, <3>2
    <2>4. CASE f.wire = 2
      <3>1. f.num \notin 4 .. 7 /\ f.wire # 0
        BY <2>2, <2>4
      <3>2. field = ReadProtoBytes(data, j)
        BY <2>4, <3>1 DEF ReadAccountField, ReadScalar, SkipProtoField
      <3> QED BY <1>2, <2>4, <3>2
    <2> QED BY <1>1, <2>3, <2>4
  <1>6. field.err = "nil" /\ field.value = f.value /\ field.next = n
    BY <1>5 DEF Read
  <1>7. r.err = "nil" /\ r.value = p /\ r.next = i
    BY DEF Read
  <1>8. ~ (i > Len(data))
    <2>1. Len(Written(f)) \in Nat \ {0}
      BY <1>1, FieldReadBack
    <2>2. i + Len(Written(f)) - 1 <= Len(data) /\ Len(data) \in Nat
      BY DEF Holds
    <2> QED BY <2>1, <2>2
  <1> HIDE DEF r, n, tag, field, set
  <1>9. AccountTurn(data, r) =
             LET t    == ReadProtoVarint(data, r.next)
                 num  == t.value \div 8
                 fld  == ReadAccountField(data, t.next, num, t.value % 8)
                 st   == SetAccountField(r.value, num, fld.value)
             IN  IF r.err # "nil" \/ r.next > Len(data) THEN r
                 ELSE IF t.err # "nil" THEN t
                 ELSE IF fld.err # "nil" THEN fld
                 ELSE IF st.err # "nil" THEN st
                 ELSE Read(st.value, fld.next)
    BY AccountTurnIs
  <1>10. ReadProtoVarint(data, r.next) = tag
    BY <1>7, Zenon DEF tag
  <1>11. ReadAccountField(data, tag.next, tag.value \div 8, tag.value % 8) = field
    BY <1>3, <1>4, Zenon DEF field
  <1>12. SetAccountField(r.value, tag.value \div 8, field.value) = set
    BY <1>3, <1>4, <1>6, <1>7, Zenon DEF set
  <1>13. AccountTurn(data, r) = IF r.err # "nil" \/ r.next > Len(data) THEN r
                               ELSE IF tag.err # "nil" THEN tag
                               ELSE IF field.err # "nil" THEN field
                               ELSE IF set.err # "nil" THEN set
                               ELSE Read(set.value, field.next)
    BY <1>9, <1>10, <1>11, <1>12, Zenon
  <1>14. AccountTurn(data, r) = IF set.err # "nil" THEN set ELSE Read(set.value, n)
    BY <1>3, <1>6, <1>7, <1>8, <1>13, Zenon
  <1> QED BY <1>14 DEF r, n, set

(* The results P of setting the fields of a message d[Len(r)] one behind   *)
(* the other; a part that is empty holds none.                              *)
AccountResults(r, d, fs, P) ==
    /\ r \in Seq(Seq(Byte)) /\ d \in [0 .. Len(r) -> Seq(Byte)]
    /\ d[0] = <<>> /\ P[0] = Ok(NewAccount)
    /\ \A i \in 1 .. Len(r) :
          /\ d[i] = Cat(d[i - 1], r[i])
          /\ \/ r[i] = <<>> /\ P[i] = P[i - 1]
             \/ /\ fs[i] \in AccountFields /\ r[i] = Written(fs[i])
                /\ P[i] = IF P[i - 1].err # "nil" THEN P[i - 1]
                          ELSE SetAccountField(P[i - 1].value, fs[i].num, fs[i].value)

(* The reader returns the last of them. *)
LEMMA AccountParsed ==
    ASSUME NEW r, NEW d, NEW fs, NEW P, AccountResults(r, d, fs, P)
    PROVE  ReadFields(d[Len(r)]) =
               IF P[Len(r)].err # "nil" THEN P[Len(r)] ELSE Ok(P[Len(r)].value)
  <1> DEFINE K == Len(r)
             data == d[K]
             N == Len(data)
             L(i) == Len(d[i])
             R(i) == Len(r[i])
             st(i) == IF P[i].err # "nil" THEN P[i] ELSE Read(P[i].value, L(i) + 1)
             s == [i \in 0 .. K |-> st(i)]
             q == [i \in 0 .. K |-> L(i)]
  <1>0. K \in Nat /\ \A i \in 1 .. K : r[i] \in Seq(Byte)
    BY ElementOfSeq DEF AccountResults
  <1>1. K \in 0 .. K /\ 0 \in 0 .. K
    BY <1>0
  <1>2. data \in Seq(Byte) /\ N \in Nat
    BY <1>1 DEF AccountResults
  <1>3. PICK A \in [0 .. N -> AccountStates(N)] :
               /\ A[0] = Read(NewAccount, 1)
               /\ \A n \in 1 .. N : A[n] = AccountTurn(data, A[n - 1])
               /\ ReadFields(data) = IF A[N].err # "nil" THEN A[N] ELSE Ok(A[N].value)
    BY <1>2, AccountLoop
  <1>4. /\ \A i \in 0 .. K : L(i) \in 0 .. N
        /\ \A i \in 1 .. K : Holds(data, L(i - 1) + 1, r[i]) /\ L(i) = L(i - 1) + R(i)
    BY PartsHeld DEF AccountResults
  <1>5. \A i \in 1 .. K : R(i) \in Nat /\ (r[i] = <<>> => R(i) = 0)
    BY <1>0
  <1>6. A[0] = s[0]
    <2>1. P[0].err = "nil" /\ P[0].value = NewAccount /\ Len(d[0]) + 1 = 1
      BY DEF AccountResults, Ok
    <2> QED BY <1>1, <1>3, <2>1
  <1>13. L(K) = N
    OBVIOUS
  <1> HIDE DEF K, data, N, L, R
  <1>7. ASSUME NEW i \in 1 .. K
        PROVE  \/ s[i] = s[i - 1] /\ q[i] >= q[i - 1]
               \/ /\ q[i] > q[i - 1]
                  /\ \A n \in 1 .. N : A[n - 1] = s[i - 1] => A[n] = s[i]
    <2>1. i \in 0 .. K /\ i - 1 \in 0 .. K
      BY <1>0
    <2>2. s[i] = st(i) /\ s[i - 1] = st(i - 1) /\ q[i] = L(i) /\ q[i - 1] = L(i - 1)
      BY <2>1
    <2>3. L(i - 1) \in Nat /\ R(i) \in Nat /\ L(i) = L(i - 1) + R(i)
      BY <1>0, <1>2, <1>4, <1>5, <2>1
    <2> HIDE DEF s, q
    <2>4. \/ r[i] = <<>> /\ P[i] = P[i - 1]
          \/ /\ fs[i] \in AccountFields /\ r[i] = Written(fs[i])
             /\ P[i] = IF P[i - 1].err # "nil" THEN P[i - 1]
                       ELSE SetAccountField(P[i - 1].value, fs[i].num, fs[i].value)
      BY DEF AccountResults, K
    <2>5. q[i] >= q[i - 1]
      BY <2>2, <2>3
    <2>6. CASE r[i] = <<>> /\ P[i] = P[i - 1]
      <3>1. L(i) = L(i - 1)
        BY <1>5, <2>3, <2>6
      <3>2. st(i) = st(i - 1)
        BY <2>6, <3>1
      <3> QED BY <2>2, <2>5, <3>2
    <2>7. CASE P[i - 1].err # "nil" /\ P[i] = P[i - 1]
      <3>1. st(i) = st(i - 1)
        BY <2>7
      <3> QED BY <2>2, <2>5, <3>1
    <2>8. CASE /\ P[i - 1].err = "nil" /\ fs[i] \in AccountFields /\ r[i] = Written(fs[i])
               /\ P[i] = SetAccountField(P[i - 1].value, fs[i].num, fs[i].value)
      <3> DEFINE j == L(i - 1) + 1
                 p == P[i - 1].value
      <3>1. j \in Nat \ {0}
        BY <2>3
      <3>2. Holds(data, j, Written(fs[i])) /\ fs[i] \in WireFields
        BY <1>4, <2>8 DEF AccountFields
      <3>3. st(i - 1) = Read(p, j)
        BY <2>8
      <3>4. R(i) \in Nat \ {0}
        BY <2>8, <3>2, FieldReadBack DEF R
      <3>5. j + R(i) = L(i) + 1
        BY <2>3, <3>4
      <3>6. AccountTurn(data, Read(p, j)) = IF P[i].err # "nil" THEN P[i] ELSE Read(P[i].value, j + R(i))
        <4> HIDE DEF j, p
        <4> DEFINE f == fs[i]
        <4>1. AccountTurn(data, Read(p, j)) =
                LET set == SetAccountField(p, f.num, f.value)
                IN  IF set.err # "nil" THEN set ELSE Read(set.value, j + Len(Written(f)))
          <5>1. f \in AccountFields /\ Holds(data, j, Written(f))
            BY <2>8, <3>2
          <5> HIDE DEF f
          <5> QED BY <1>2, <3>1, <5>1, AccountTurnWritten
        <4>2. P[i] = SetAccountField(p, fs[i].num, fs[i].value)
          BY <2>8 DEF p
        <4> QED BY <2>8, <4>1, <4>2, Zenon DEF R
      <3>7. AccountTurn(data, st(i - 1)) = st(i)
        BY <3>3, <3>5, <3>6, Zenon
      <3>8. q[i] > q[i - 1]
        BY <2>2, <2>3, <3>4
      <3>9. \A n \in 1 .. N : A[n - 1] = s[i - 1] => A[n] = s[i]
        BY <1>3, <2>2, <3>7, Zenon
      <3> QED BY <3>8, <3>9
    <2> QED BY <2>4, <2>6, <2>7, <2>8
  <1>8. \A n \in 1 .. N : A[n - 1] = s[K] => A[n] = s[K]
    <2>1. s[K] = st(K)
      BY <1>1
    <2>2. CASE P[K].err # "nil"
      <3>1. st(K) = P[K]
        BY <2>2
      <3>2. AccountTurn(data, P[K]) = P[K]
        BY <2>2, AccountTurnIs
      <3> HIDE DEF st, s
      <3> QED BY <1>3, <2>1, <3>1, <3>2, Zenon
    <2>3. CASE P[K].err = "nil"
      <3> DEFINE e == Read(P[K].value, L(K) + 1)
      <3>1. st(K) = e
        BY <2>3
      <3>2. e.next > Len(data)
        BY <1>2, <1>13 DEF Read, N
      <3> HIDE DEF e, st, s
      <3>3. AccountTurn(data, e) = e
        BY <3>2, AccountTurnIs
      <3> QED BY <1>3, <2>1, <3>1, <3>3, Zenon
    <2> QED BY <2>2, <2>3
  <1>14. q \in [0 .. K -> 0 .. N]
    BY <1>4
  <1>9. A[N] = s[K]
    <2> HIDE DEF s, q, st
    <2>1. GoesThrough(A, N, s, K, q)
      BY <1>6, <1>7, <1>8, Zenon DEF GoesThrough
    <2>2. K \in Nat /\ N \in Nat
      BY <1>0, <1>2
    <2> QED BY <1>14, <2>1, <2>2, LoopFollows
  <1>10. A[N] = st(K)
    BY <1>1, <1>9
  <1>11. CASE P[K].err # "nil"
    BY <1>3, <1>10, <1>11 DEF data, K
  <1>12. CASE P[K].err = "nil"
    <2>1. A[N].err = "nil" /\ A[N].value = P[K].value
      BY <1>10, <1>12 DEF Read
    <2> QED BY <1>3, <1>12, <2>1 DEF data, K
  <1> QED BY <1>11, <1>12 DEF K

(* The four digits of a group of three bytes. *)
LEMMA SextetsOfGroup ==
    ASSUME NEW bytes \in Seq(Byte), NEW q \in Nat
    PROVE  LET a == ByteAt(bytes, 3 * q + 1)
               b == ByteAt(bytes, 3 * q + 2)
               c == ByteAt(bytes, 3 * q + 3)
           IN  /\ a \in 0 .. 255 /\ b \in 0 .. 255 /\ c \in 0 .. 255
               /\ SextetAt(bytes, 4 * q) = a \div 4
               /\ SextetAt(bytes, 4 * q + 1) = (a % 4) * 16 + b \div 16
               /\ SextetAt(bytes, 4 * q + 2) = (b % 16) * 4 + c \div 64
               /\ SextetAt(bytes, 4 * q + 3) = c % 64
  <1> DEFINE a == ByteAt(bytes, 3 * q + 1)
             b == ByteAt(bytes, 3 * q + 2)
             c == ByteAt(bytes, 3 * q + 3)
             e == ByteAt(bytes, 3 * q + 4)
  <1>1. a \in 0 .. 255 /\ b \in 0 .. 255 /\ c \in 0 .. 255 /\ e \in 0 .. 255
    <2>1. 3 * q + 1 \in Nat \ {0} /\ 3 * q + 2 \in Nat \ {0} /\ 3 * q + 3 \in Nat \ {0} /\ 3 * q + 4 \in Nat \ {0}
      OBVIOUS
    <2> QED BY <2>1, ByteAtTyped
  <1>2. SextetAt(bytes, 4 * q) = a \div 4
    <2> DEFINE d == 4 * q
    <2>1. 1 + (6 * d) \div 8 = 3 * q + 1 /\ 2 + (6 * d) \div 8 = 3 * q + 2 /\ 10 - ((6 * d) % 8) = 10
      OBVIOUS
    <2> HIDE DEF d
    <2> DEFINE p == 2 ^ 10
    <2>2. SextetAt(bytes, d) = ((256 * a + b) \div p) % 64
      BY <2>1, Zenon DEF SextetAt
    <2>3. p = 1024
      BY Powers
    <2> HIDE DEF a, b, p
    <2>4. ((256 * a + b) \div p) % 64 = a \div 4
      BY <1>1, <2>3
    <2> QED BY <2>2, <2>3, <2>4, ZenonT(60) DEF d
  <1>3. SextetAt(bytes, 4 * q + 1) = (a % 4) * 16 + b \div 16
    <2> DEFINE d == 4 * q + 1
    <2>1. 1 + (6 * d) \div 8 = 3 * q + 1 /\ 2 + (6 * d) \div 8 = 3 * q + 2 /\ 10 - ((6 * d) % 8) = 4
      OBVIOUS
    <2> HIDE DEF d
    <2>2. SextetAt(bytes, d) = ((256 * a + b) \div 2 ^ 4) % 64
      BY <2>1, Zenon DEF SextetAt
    <2> HIDE DEF a, b
    <2>3. 2 ^ 4 = 16
      BY Powers
    <2>4. ((256 * a + b) \div 16) % 64 = (a % 4) * 16 + b \div 16
      BY <1>1
    <2> QED BY <2>2, <2>3, <2>4, Zenon DEF d
  <1>4. SextetAt(bytes, 4 * q + 2) = (b % 16) * 4 + c \div 64
    <2> DEFINE d == 4 * q + 2
    <2>1. 1 + (6 * d) \div 8 = 3 * q + 2 /\ 2 + (6 * d) \div 8 = 3 * q + 3 /\ 10 - ((6 * d) % 8) = 6
      OBVIOUS
    <2> HIDE DEF d
    <2>2. SextetAt(bytes, d) = ((256 * b + c) \div 2 ^ 6) % 64
      BY <2>1, Zenon DEF SextetAt
    <2> HIDE DEF b, c
    <2>3. 2 ^ 6 = 64
      BY Powers
    <2>4. ((256 * b + c) \div 64) % 64 = (b % 16) * 4 + c \div 64
      BY <1>1
    <2> QED BY <2>2, <2>3, <2>4, Zenon DEF d
  <1>5. SextetAt(bytes, 4 * q + 3) = c % 64
    <2> DEFINE d == 4 * q + 3
    <2>1. 1 + (6 * d) \div 8 = 3 * q + 3 /\ 2 + (6 * d) \div 8 = 3 * q + 4 /\ 10 - ((6 * d) % 8) = 8
      OBVIOUS
    <2> HIDE DEF d
    <2>2. SextetAt(bytes, d) = ((256 * c + e) \div 2 ^ 8) % 64
      BY <2>1, Zenon DEF SextetAt
    <2> HIDE DEF c, e
    <2>3. 2 ^ 8 = 256
      BY Powers
    <2>4. ((256 * c + e) \div 256) % 64 = c % 64
      BY <1>1, SMTT(30)
    <2> QED BY <2>2, <2>3, <2>4, Zenon DEF d
  <1> QED BY <1>1, <1>2, <1>3, <1>4, <1>5, Zenon

(* Text in base64 reads back as the bytes it was made of. *)
LEMMA TextReadsBack ==
    ASSUME NEW bytes \in Seq(Byte)
    PROVE  Bytes(RawURLEncoding(bytes)) = bytes /\ Len(RawURLEncoding(bytes)) % 4 # 1
  <1> DEFINE n == Len(bytes)
             D == (8 * Len(bytes) + 5) \div 6
             g == RawURLEncoding(bytes)
             x == Bytes(g)
  <1>0. n \in Nat /\ \A i \in 1 .. n : bytes[i] \in Byte
    BY ElementOfSeq
  <1>1. /\ g \in Seq(0 .. 63) /\ Len(g) = D
        /\ \A d \in Nat : d < D => g[d + 1] = SextetAt(bytes, d)
    BY TextWritten
  <1>2. (6 * D) \div 8 = n /\ D \in Nat /\ D % 4 # 1
    <2>1. PICK q \in Nat, r \in 0 .. 2 : n = 3 * q + r
      <3>1. n = 3 * (n \div 3) + (n % 3) /\ n \div 3 \in Nat /\ n % 3 \in 0 .. 2
        BY <1>0
      <3> QED BY <3>1
    <2>2. CASE r = 0
      <3>1. D = 4 * q
        BY <2>1, <2>2
      <3> QED BY <2>1, <2>2, <3>1
    <2>3. CASE r = 1
      <3>1. D = 4 * q + 2
        BY <2>1, <2>3
      <3> QED BY <2>1, <2>3, <3>1
    <2>4. CASE r = 2
      <3>1. D = 4 * q + 3
        BY <2>1, <2>4
      <3> QED BY <2>1, <2>4, <3>1
    <2> QED BY <2>2, <2>3, <2>4
  <1> HIDE DEF g, D
  <1>3. /\ x \in Seq(Byte) /\ Len(x) = n
        /\ \A i \in 1 .. n : x[i] = ByteOfText(g, i)
    BY <1>1, <1>2, BytesTyped
  <1> HIDE DEF x
  <1>4. ASSUME NEW i \in 1 .. n PROVE x[i] = bytes[i]
    <2> DEFINE d == (4 * (i - 1)) \div 3
               u == g[d + 1]
               v == g[d + 2]
    <2>1. d + 1 \in 1 .. D /\ d + 2 \in 1 .. D
      BY <1>1, <1>2, ByteOfTextTyped
    <2>2. d \in Nat /\ d < D /\ d + 1 < D /\ (d + 1) + 1 = d + 2
      BY <1>2, <2>1
    <2>3. u = SextetAt(bytes, d) /\ v = SextetAt(bytes, d + 1)
      BY <1>1, <2>2
    <2>4. ByteOfText(g, i) = CASE i % 3 = 1 -> u * 4 + v \div 16
                               [] i % 3 = 2 -> (u % 16) * 16 + v \div 4
                               [] i % 3 = 0 -> (u % 4) * 64 + v
      BY DEF ByteOfText
    <2>5. ByteAt(bytes, i) = bytes[i]
      BY <1>0 DEF ByteAt
    <2>6. PICK q \in Nat, r \in 0 .. 2 : i = 3 * q + r + 1
      <3>1. i = 3 * ((i - 1) \div 3) + ((i - 1) % 3) + 1 /\ (i - 1) \div 3 \in Nat /\ (i - 1) % 3 \in 0 .. 2
        BY <1>0
      <3> QED BY <3>1
    <2> DEFINE a == ByteAt(bytes, 3 * q + 1)
               b == ByteAt(bytes, 3 * q + 2)
               c == ByteAt(bytes, 3 * q + 3)
    <2>7. /\ a \in 0 .. 255 /\ b \in 0 .. 255 /\ c \in 0 .. 255
          /\ SextetAt(bytes, 4 * q) = a \div 4
          /\ SextetAt(bytes, 4 * q + 1) = (a % 4) * 16 + b \div 16
          /\ SextetAt(bytes, 4 * q + 2) = (b % 16) * 4 + c \div 64
          /\ SextetAt(bytes, 4 * q + 3) = c % 64
      BY SextetsOfGroup
    <2>8. CASE r = 0
      <3>1. i = 3 * q + 1 /\ i % 3 = 1 /\ d = 4 * q
        BY <2>6, <2>8
      <3> HIDE DEF u, v, a, b, c, d
      <3>2. u = a \div 4 /\ v = (a % 4) * 16 + b \div 16
        BY <2>3, <2>7, <3>1, Zenon
      <3>3. u * 4 + v \div 16 = a
        BY <2>7, <3>2
      <3>4. ByteOfText(g, i) = u * 4 + v \div 16
        BY <2>4, <3>1
      <3> QED BY <1>3, <2>5, <3>1, <3>3, <3>4, Zenon DEF a
    <2>9. CASE r = 1
      <3>1. i = 3 * q + 2 /\ i % 3 = 2 /\ i % 3 # 1 /\ d = 4 * q + 1 /\ d + 1 = 4 * q + 2
        BY <2>6, <2>9
      <3> HIDE DEF u, v, a, b, c, d
      <3>2. u = (a % 4) * 16 + b \div 16 /\ v = (b % 16) * 4 + c \div 64
        BY <2>3, <2>7, <3>1, Zenon
      <3>3. (u % 16) * 16 + v \div 4 = b
        <4>1. \A m \in 0 .. 255, k \in 0 .. 15 : ((m % 4) * 16 + k) % 16 = k
          OBVIOUS
        <4>2. \A k \in 0 .. 15, m \in 0 .. 3 : (k * 4 + m) \div 4 = k
          OBVIOUS
        <4>3. b \div 16 \in 0 .. 15 /\ b % 16 \in 0 .. 15 /\ c \div 64 \in 0 .. 3 /\ (b \div 16) * 16 + (b % 16) = b
          BY <2>7
        <4>4. u % 16 = b \div 16 /\ v \div 4 = b % 16
          BY <2>7, <3>2, <4>1, <4>2, <4>3, ZenonT(60)
        <4> QED BY <4>3, <4>4, Zenon
      <3>4. ByteOfText(g, i) = (u % 16) * 16 + v \div 4
        BY <2>4, <3>1
      <3> QED BY <1>3, <2>5, <3>1, <3>3, <3>4, Zenon DEF b
    <2>10. CASE r = 2
      <3>1. i = 3 * q + 3 /\ i % 3 = 0 /\ i % 3 # 1 /\ i % 3 # 2 /\ d = 4 * q + 2 /\ d + 1 = 4 * q + 3
        BY <2>6, <2>10
      <3> HIDE DEF u, v, a, b, c, d
      <3>2. u = (b % 16) * 4 + c \div 64 /\ v = c % 64
        BY <2>3, <2>7, <3>1, Zenon
      <3>3. (u % 4) * 64 + v = c
        <4>1. \A k \in 0 .. 15, m \in 0 .. 3 : (k * 4 + m) % 4 = m
          OBVIOUS
        <4>2. b % 16 \in 0 .. 15 /\ c \div 64 \in 0 .. 3 /\ (c \div 64) * 64 + (c % 64) = c
          BY <2>7
        <4>3. u % 4 = c \div 64
          BY <3>2, <4>1, <4>2, Zenon
        <4> QED BY <3>2, <4>2, <4>3, Zenon
      <3>4. ByteOfText(g, i) = (u % 4) * 64 + v
        BY <2>4, <3>1
      <3> QED BY <1>3, <2>5, <3>1, <3>3, <3>4, Zenon DEF c
    <2> QED BY <2>8, <2>9, <2>10
  <1>5. x = bytes
    <2> HIDE DEF Byte
    <2> QED BY <1>3, <1>4, SeqEqual
  <1> QED BY <1>1, <1>2, <1>5 DEF x, g, D

(* Bytes have a text. *)
LEMMA TextNotEmpty ==
    ASSUME NEW data \in Seq(Byte), data # <<>>
    PROVE  RawURLEncoding(data) # <<>>
  <1>1. Bytes(RawURLEncoding(data)) = data
    BY TextReadsBack
  <1>2. Bytes(<<>>) = <<>>
    <2>1. Len(<<>>) = 0 /\ (6 * 0) \div 8 = 0 /\ 1 .. 0 = {}
      OBVIOUS
    <2> QED BY <2>1 DEF Bytes
  <1> QED BY <1>1, <1>2

(* A decoder with more room decodes the same. *)
LEMMA RoomIsEnough ==
    ASSUME NEW text \in Seq(Byte), NEW room \in Nat, NEW more \in Nat,
           DecodeBase32(room, text).err = "nil", Len(DecodeBase32(room, text).dst) <= more
    PROVE  DecodeBase32(more, text) = DecodeBase32(room, text)
  <1> DEFINE n == Len(text)
             Same(s, t) == s.err # "nil" \/ Len(s.dst) > more \/ t = s
  <1>0. n \in Nat /\ \A i \in 1 .. n : text[i] \in Byte
    BY ElementOfSeq
  <1>1. PICK A : /\ A[0] = DecoderStart /\ A[n] = DecodeBase32(room, text)
                 /\ \A i \in 1 .. n : A[i] = Turn(room, A[i - 1], text[i])
    BY DecoderTurns
  <1>2. PICK B : /\ B[0] = DecoderStart /\ B[n] = DecodeBase32(more, text)
                 /\ \A i \in 1 .. n : B[i] = Turn(more, B[i - 1], text[i])
    BY DecoderTurns
  <1>3. ASSUME NEW s \in DecoderStates, NEW t, NEW c \in Byte, Same(s, t)
        PROVE  Turn(room, s, c) \in DecoderStates /\ Same(Turn(room, s, c), Turn(more, t, c))
    <2> DEFINE v == b32Inverse(c)
               buffer == (s.buffer * 32 + v) % 2 ^ 15
               bits == s.bitsLeft + 5
               byte == (buffer \div 2 ^ (bits - 8)) % 256
               next == [s EXCEPT !.buffer = buffer, !.bitsLeft = bits - 8, !.dst = Append(@, byte)]
               D(r) == DecodeDigit(r, s, c)
    <2>1. CASE c \in Skipped
      BY <1>3, <2>1 DEF Turn
    <2>2. CASE c \notin Skipped
      <3>1. Turn(room, s, c) = D(room) /\ Turn(more, t, c) = DecodeDigit(more, t, c)
        BY <2>2 DEF Turn
      <3>2. D(room) \in DecoderStates
        BY TurnTyped
      <3>3. s.dst \in Seq(Byte) /\ Len(s.dst) \in Nat
        BY DEF DecoderStates
      <3>4. \A r : D(r) = IF s.err # "nil" THEN s
                          ELSE IF v < 0 THEN [s EXCEPT !.err = "ErrInvalidSecret"]
                          ELSE IF bits < 8 THEN [s EXCEPT !.buffer = buffer, !.bitsLeft = bits]
                          ELSE IF Len(s.dst) = r THEN NoRoom(s)
                          ELSE next
        BY DEF DecodeDigit
      <3>5. next.dst = Append(s.dst, byte) /\ NoRoom(s).err # "nil"
        BY DEF DecoderStates, NoRoom
      <3> HIDE DEF v, bits, buffer, next
      <3>6. [s EXCEPT !.err = "ErrInvalidSecret"].err # "nil"
        BY DEF DecoderStates
      <3>7. [s EXCEPT !.buffer = buffer, !.bitsLeft = bits].dst = s.dst
        BY DEF DecoderStates
      <3>8. Len(next.dst) = Len(s.dst) + 1
        <4> HIDE DEF byte
        <4> QED BY <3>3, <3>5
      <3> HIDE DEF D
      <3>9. CASE s.err # "nil"
        <4>1. D(room) = s
          BY <3>4, <3>9
        <4> QED BY <3>1, <3>2, <3>9, <4>1
      <3>10. CASE s.err = "nil" /\ Len(s.dst) > more
        <4>1. D(room).err # "nil" \/ Len(D(room).dst) >= Len(s.dst)
          <5> DEFINE kept == [s EXCEPT !.buffer = buffer, !.bitsLeft = bits]
                     wrong == [s EXCEPT !.err = "ErrInvalidSecret"]
          <5>1. D(room) \in {wrong, kept, NoRoom(s), next}
            BY <3>4, <3>10
          <5>2. wrong.err # "nil" /\ NoRoom(s).err # "nil" /\ Len(kept.dst) >= Len(s.dst) /\ Len(next.dst) >= Len(s.dst)
            BY <3>3, <3>5, <3>6, <3>7, <3>8
          <5> HIDE DEF kept, wrong
          <5> QED BY <5>1, <5>2
        <4>2. Len(D(room).dst) \in Nat
          BY <3>2 DEF DecoderStates
        <4> QED BY <3>1, <3>2, <3>3, <3>10, <4>1, <4>2
      <3>11. CASE s.err = "nil" /\ t = s /\ ~ (Len(s.dst) > more)
        <4>1. Turn(more, t, c) = D(more)
          BY <3>1, <3>11 DEF D
        <4>2. CASE v < 0 \/ bits < 8 \/ (Len(s.dst) # room /\ Len(s.dst) # more)
          <5>1. D(room) = D(more)
            BY <3>4, <3>11, <4>2
          <5> QED BY <3>1, <3>2, <4>1, <5>1
        <4>3. CASE ~ (v < 0) /\ ~ (bits < 8) /\ Len(s.dst) = room
          <5>1. D(room).err # "nil"
            BY <3>4, <3>5, <3>11, <4>3
          <5> QED BY <3>1, <3>2, <5>1
        <4>4. CASE ~ (v < 0) /\ ~ (bits < 8) /\ Len(s.dst) # room /\ Len(s.dst) = more
          <5>1. D(room) = next
            BY <3>4, <3>11, <4>4
          <5>2. Len(next.dst) > more
            BY <3>3, <3>8, <4>4
          <5> QED BY <3>1, <3>2, <5>1, <5>2
        <4> QED BY <4>2, <4>3, <4>4
      <3> QED BY <1>3, <3>9, <3>10, <3>11
    <2> QED BY <2>1, <2>2
  <1> DEFINE At == {i \in Nat : i <= n => A[i] \in DecoderStates /\ Same(A[i], B[i])}
  <1> HIDE DEF n
  <1>4. 0 \in At
    <2>1. DecoderStart \in DecoderStates
      BY DEF DecoderStart, DecoderStates
    <2> QED BY <1>1, <1>2, <2>1
  <1> HIDE DEF Same
  <1>5. ASSUME NEW i \in Nat, i \in At PROVE i + 1 \in At
    <2>1. SUFFICES ASSUME i + 1 <= n PROVE A[i + 1] \in DecoderStates /\ Same(A[i + 1], B[i + 1])
      OBVIOUS
    <2>2. i + 1 \in 1 .. n /\ (i + 1) - 1 = i /\ A[i] \in DecoderStates /\ Same(A[i], B[i])
      BY <1>0, <1>5, <2>1
    <2>3. /\ A[i + 1] = Turn(room, A[i], text[i + 1]) /\ text[i + 1] \in Byte
          /\ B[i + 1] = Turn(more, B[i], text[i + 1])
      BY <1>0, <1>1, <1>2, <2>2
    <2> QED BY <1>3, <2>2, <2>3
  <1>6. n \in At
    <2> HIDE DEF At
    <2> QED BY <1>0, <1>4, <1>5, InductionOnSet
  <1>7. Same(A[n], B[n]) /\ A[n] \in DecoderStates
    BY <1>0, <1>6
  <1>8. Len(A[n].dst) \in Nat
    BY <1>7 DEF DecoderStates
  <1> QED BY <1>1, <1>2, <1>7, <1>8 DEF Same

(* The encoder writes letters and digits. *)
LEMMA DigitsAreText ==
    ASSUME NEW bytes \in Seq(Byte)
    PROVE  LET b32 == EncodeBase32(bytes)
           IN  /\ b32 \in Seq(Byte) /\ Len(b32) = (8 * Len(bytes) + 4) \div 5
               /\ \A i \in 1 .. Len(b32) : b32[i] \notin Skipped /\ b32[i] # Equals /\ ~ IsSpace(b32[i])
  <1> DEFINE D == (8 * Len(bytes) + 4) \div 5
             g == Digits(5, bytes)
             b32 == EncodeBase32(bytes)
  <1>1. D \in Nat /\ DOMAIN g = 1 .. D /\ Len(b32) = D
    BY DigitsWritten, EncodedLength
  <1>2. ASSUME NEW i \in 1 .. D PROVE g[i] \in 0 .. 31
    <2> DEFINE d == i - 1
    <2>1. d \in Nat /\ d < D /\ d + 1 = i
      BY <1>1
    <2> HIDE DEF d
    <2>2. g[d + 1] = DigitAt(bytes, d) /\ DigitAt(bytes, d) \in 0 .. 31
      BY <2>1, DigitsWritten
    <2> QED BY <2>1, <2>2, Zenon
  <1>3. b32 = [i \in 1 .. D |-> IF g[i] < 26 THEN 65 + g[i] ELSE 24 + g[i]]
    BY <1>1 DEF EncodeBase32
  <1> HIDE DEF D, g, b32
  <1>4. ASSUME NEW i \in 1 .. D PROVE b32[i] \in 50 .. 55 \cup 65 .. 90
    <2> DEFINE x == g[i]
    <2>1. b32[i] = IF x < 26 THEN 65 + x ELSE 24 + x
      BY <1>3
    <2>2. x \in 0 .. 31
      BY <1>2
    <2> HIDE DEF x
    <2> QED BY <2>1, <2>2
  <1>5. b32 \in [1 .. D -> Byte]
    <2>1. \A x \in 50 .. 55 \cup 65 .. 90 : x \in Byte
      BY DEF Byte
    <2>2. b32 = [i \in 1 .. D |-> b32[i]]
      BY <1>3
    <2> QED BY <1>4, <2>1, <2>2, Zenon
  <1>6. b32 \in Seq(Byte)
    BY <1>1, <1>5, SeqDef
  <1>7. \A x \in 50 .. 55 \cup 65 .. 90 : x \notin Skipped /\ x # Equals /\ ~ IsSpace(x)
    BY DEF Skipped, Equals, Space, IsSpace
  <1> QED BY <1>1, <1>4, <1>6, <1>7 DEF b32, D

(* A secret in Base32 is decoded as it was encoded. *)
LEMMA SecretDecodesBack ==
    ASSUME NEW bytes \in Seq(Byte)
    PROVE  LET b32 == EncodeBase32(bytes)
           IN  /\ DecodeBase32(Len(b32), NormalizeBase32Secret(b32)).dst = bytes
               /\ b32 = <<>> <=> bytes = <<>>
  <1> DEFINE b32 == EncodeBase32(bytes)
             n == Len(b32)
  <1>1. /\ b32 \in Seq(Byte) /\ n = (8 * Len(bytes) + 4) \div 5
        /\ \A i \in 1 .. n : b32[i] \notin Skipped /\ b32[i] # Equals /\ ~ IsSpace(b32[i])
    BY DigitsAreText
  <1>2. n \in Nat /\ Len(bytes) \in Nat /\ DOMAIN b32 = 1 .. n
    BY <1>1, LenProperties
  <1> HIDE DEF b32, n
  <1>3. NormalizeBase32Secret(b32) = b32
    <2>1. [i \in DOMAIN b32 |-> IF b32[i] = Equals \/ IsSpace(b32[i]) THEN <<>> ELSE <<b32[i]>>]
            = [i \in DOMAIN b32 |-> <<b32[i]>>]
      BY <1>1, <1>2
    <2> QED BY <1>1, <2>1, NothingCutOut, Zenon DEF NormalizeBase32Secret
  <1> DEFINE At == {i \in Nat : i <= n => Typed(b32, i) = i}
  <1>4. 0 \in At
    BY <1>1, OneMoreTyped
  <1>5. ASSUME NEW i \in Nat, i \in At PROVE i + 1 \in At
    <2>1. SUFFICES ASSUME i + 1 <= n PROVE Typed(b32, i + 1) = i + 1
      OBVIOUS
    <2>2. i + 1 \in 1 .. n /\ Typed(b32, i) = i
      BY <1>2, <1>5, <2>1
    <2>3. b32[i + 1] \notin Skipped
      BY <1>1, <2>2
    <2>4. Typed(b32, i + 1) = Typed(b32, i) + 1
      BY <1>1, <2>3, OneMoreTyped
    <2> QED BY <2>2, <2>4
  <1>6. \A i \in Nat : i \in At
    <2> HIDE DEF At
    <2> QED BY <1>4, <1>5, InductionOnSet
  <1>7. \A i \in 0 .. n : Typed(b32, i) = i
    BY <1>2, <1>6
  <1>8. Spells(b32, bytes)
    <2>1. Typed(b32, n) = n
      BY <1>2, <1>7
    <2>2. \A i \in 1 .. n : Typed(b32, i) = i
      BY <1>2, <1>7
    <2> QED BY <1>2, <2>1, <2>2 DEF Spells, Typed, b32, n
  <1>9. ~ (n < Len(bytes))
    BY <1>1, <1>2
  <1>10. DecodeBase32(n, b32).dst = bytes
    BY <1>1, <1>2, <1>8, <1>9, SpelledReadsBack
  <1>11. b32 = <<>> <=> bytes = <<>>
    <2>1. b32 = <<>> <=> n = 0
      BY <1>1, EmptySeq DEF n
    <2>2. bytes = <<>> <=> Len(bytes) = 0
      BY EmptySeq
    <2> QED BY <1>1, <1>2, <2>1, <2>2
  <1> QED BY <1>3, <1>10, <1>11, Zenon DEF b32, n

(* An account, field by field; the payload has no period. *)
Account(type, label, issuer, secret, algorithm, digits, counter) ==
    [type |-> type, label |-> label, issuer |-> issuer, secretB32 |-> secret,
     algorithm |-> algorithm, digits |-> digits, period |-> 30, counter |-> counter]

(* A table of the code is read backwards. *)
LEMMA EnumsReadBack ==
    /\ \A x \in DOMAIN AlgorithmEnum :
          AlgorithmEnum[x] # 0 /\ EnumValue(AlgorithmEnum, AlgorithmEnum[x], "ErrInvalidAlgorithm") = Ok(x)
    /\ \A x \in {6, 8} : DigitEnum[x] # 0 /\ EnumValue(DigitEnum, DigitEnum[x], "ErrInvalidDigits") = Ok(x)
  <1>1. ASSUME NEW x \in DOMAIN AlgorithmEnum
        PROVE  AlgorithmEnum[x] # 0 /\ EnumValue(AlgorithmEnum, AlgorithmEnum[x], "ErrInvalidAlgorithm") = Ok(x)
    <2> DEFINE v == AlgorithmEnum[x]
    <2>1. v # 0 /\ \A y \in DOMAIN AlgorithmEnum : AlgorithmEnum[y] = v => y = x
      BY DEF AlgorithmEnum
    <2> HIDE DEF v
    <2>2. (CHOOSE y \in DOMAIN AlgorithmEnum : AlgorithmEnum[y] = v) = x
      <3>1. AlgorithmEnum[x] = v
        BY DEF v
      <3> QED BY <2>1, <3>1
    <2>3. \E y \in DOMAIN AlgorithmEnum : AlgorithmEnum[y] = v
      BY DEF v
    <2>4. EnumValue(AlgorithmEnum, v, "ErrInvalidAlgorithm") = Ok(x)
      BY <2>2, <2>3, Zenon DEF EnumValue
    <2> QED BY <2>1, <2>4 DEF v
  <1>2. ASSUME NEW x \in {6, 8}
        PROVE  DigitEnum[x] # 0 /\ EnumValue(DigitEnum, DigitEnum[x], "ErrInvalidDigits") = Ok(x)
    <2> DEFINE v == DigitEnum[x]
    <2>1. v # 0 /\ x \in DOMAIN DigitEnum /\ \A y \in DOMAIN DigitEnum : DigitEnum[y] = v => y = x
      BY DEF DigitEnum
    <2> HIDE DEF v
    <2>2. (CHOOSE y \in DOMAIN DigitEnum : DigitEnum[y] = v) = x
      <3>1. DigitEnum[x] = v
        BY DEF v
      <3> QED BY <2>1, <3>1
    <2>3. \E y \in DOMAIN DigitEnum : DigitEnum[y] = v
      BY <2>1 DEF v
    <2>4. EnumValue(DigitEnum, v, "ErrInvalidDigits") = Ok(x)
      BY <2>2, <2>3, Zenon DEF EnumValue
    <2> QED BY <2>1, <2>4 DEF v
  <1> QED BY <1>1, <1>2

(* What each field of an account sets. *)
LEMMA AccountFieldsSet ==
    ASSUME NEW t, NEW l, NEW i, NEW s, NEW g, NEW d, NEW c, NEW v
    PROVE  LET a == Account(t, l, i, s, g, d, c)
           IN  /\ SetAccountField(a, 1, v) = Ok(Account(t, l, i, EncodeBase32(v), g, d, c))
               /\ SetAccountField(a, 2, v) = Ok(Account(t, v, i, s, g, d, c))
               /\ SetAccountField(a, 3, v) = Ok(Account(t, l, v, s, g, d, c))
               /\ SetAccountField(a, 6, v) =
                     Ok(Account(IF v = 1 THEN "hotp" ELSE "totp", l, i, s, g, d, c))
               /\ SetAccountField(a, 7, v) = Ok(Account(t, l, i, s, g, d, v))
  <1> DEFINE a == Account(t, l, i, s, g, d, c)
  <1>1. SetAccountField(a, 1, v) = Ok(Account(t, l, i, EncodeBase32(v), g, d, c))
    <2>1. [a EXCEPT !.secretB32 = EncodeBase32(v)] = Account(t, l, i, EncodeBase32(v), g, d, c)
      BY DEF Account
    <2> QED BY <2>1 DEF SetAccountField
  <1>2. SetAccountField(a, 2, v) = Ok(Account(t, v, i, s, g, d, c))
    <2>1. [a EXCEPT !.label = v] = Account(t, v, i, s, g, d, c)
      BY DEF Account
    <2> QED BY <2>1 DEF SetAccountField
  <1>3. SetAccountField(a, 3, v) = Ok(Account(t, l, v, s, g, d, c))
    <2>1. [a EXCEPT !.issuer = v] = Account(t, l, v, s, g, d, c)
      BY DEF Account
    <2> QED BY <2>1 DEF SetAccountField
  <1>4. SetAccountField(a, 6, v) = Ok(Account(IF v = 1 THEN "hotp" ELSE "totp", l, i, s, g, d, c))
    <2> DEFINE y == IF v = 1 THEN "hotp" ELSE "totp"
    <2>1. [a EXCEPT !.type = y] = Account(y, l, i, s, g, d, c)
      <3> HIDE DEF y
      <3> QED BY DEF Account
    <2>2. SetAccountField(a, 6, v) = Ok([a EXCEPT !.type = y])
      <3> HIDE DEF a
      <3> QED BY DEF SetAccountField
    <2> QED BY <2>1, <2>2, Zenon
  <1>5. SetAccountField(a, 7, v) = Ok(Account(t, l, i, s, g, d, v))
    <2>1. [a EXCEPT !.counter = v] = Account(t, l, i, s, g, d, v)
      BY DEF Account
    <2> QED BY <2>1 DEF SetAccountField
  <1> QED BY <1>1, <1>2, <1>3, <1>4, <1>5

(* The field of the algorithm. *)
LEMMA AlgorithmFieldSet ==
    ASSUME NEW t, NEW l, NEW i, NEW s, NEW g, NEW d, NEW c, NEW x \in DOMAIN AlgorithmEnum
    PROVE  SetAccountField(Account(t, l, i, s, g, d, c), 4, AlgorithmEnum[x]) = Ok(Account(t, l, i, s, x, d, c))
  <1> DEFINE a == Account(t, l, i, s, g, d, c)
             n == AlgorithmEnum[x]
             e == IF n = 0 THEN Ok("SHA1") ELSE EnumValue(AlgorithmEnum, n, "ErrInvalidAlgorithm")
  <1>1. e = Ok(x)
    BY EnumsReadBack
  <1>2. [a EXCEPT !.algorithm = x] = Account(t, l, i, s, x, d, c)
    BY DEF Account
  <1>3. SetAccountField(a, 4, n) = IF e.err # "nil" THEN e ELSE Ok([a EXCEPT !.algorithm = e.value])
    <2> HIDE DEF n, a
    <2> QED BY DEF SetAccountField, Then
  <1> HIDE DEF e
  <1>4. e.err = "nil" /\ e.value = x
    BY <1>1 DEF Ok
  <1> QED BY <1>2, <1>3, <1>4, Zenon

(* The field of the digits. *)
LEMMA DigitsFieldSet ==
    ASSUME NEW t, NEW l, NEW i, NEW s, NEW g, NEW d, NEW c, NEW x \in {6, 8}
    PROVE  SetAccountField(Account(t, l, i, s, g, d, c), 5, DigitEnum[x]) = Ok(Account(t, l, i, s, g, x, c))
  <1> DEFINE a == Account(t, l, i, s, g, d, c)
             n == DigitEnum[x]
             e == IF n = 0 THEN Ok(6) ELSE EnumValue(DigitEnum, n, "ErrInvalidDigits")
  <1>1. e = Ok(x)
    BY EnumsReadBack
  <1>2. [a EXCEPT !.digits = x] = Account(t, l, i, s, g, x, c)
    BY DEF Account
  <1>3. SetAccountField(a, 5, n) = IF e.err # "nil" THEN e ELSE Ok([a EXCEPT !.digits = e.value])
    <2> HIDE DEF n, a
    <2> QED BY DEF SetAccountField, Then
  <1> HIDE DEF e
  <1>4. e.err = "nil" /\ e.value = x
    BY <1>1 DEF Ok
  <1> QED BY <1>2, <1>3, <1>4, Zenon

(* A field that the reader does not know. *)
LEMMA UnknownFieldSet ==
    ASSUME NEW a, NEW num \in Nat, num > 7, NEW v
    PROVE  SetAccountField(a, num, v) = Ok(a)
  BY DEF SetAccountField

(* What is read of an account, before its name is split. *)
AccountRead(a) ==
    Account(a.type, MigrationName(a), a.issuer, EncodeBase32(SecretOf(a).dst), a.algorithm, DigitsOf(a),
            IF a.type = "hotp" THEN a.counter ELSE 0)

(* A field that a newer exporter adds, or none. *)
Extra(x, known) == x = <<>> \/ \E f \in WireFields : f.num > known /\ x = Written(f)

(* It is bytes. *)
LEMMA ExtraWritten ==
    ASSUME NEW x, Extra(x, 7) PROVE x \in Seq(Byte)
  <1>1. \A f \in WireFields : Written(f) \in Seq(Byte)
    BY FieldReadBack
  <1>2. <<>> \in Seq(Byte)
    OBVIOUS
  <1> QED BY <1>1, <1>2, Zenon DEF Extra

(* The fields of an account are wire fields. *)
LEMMA FieldTyped ==
    ASSUME NEW num \in 1 .. 7
    PROVE  /\ \A s \in Str : /\ [num |-> num, wire |-> 2, value |-> s] \in WireFields
                             /\ Written([num |-> num, wire |-> 2, value |-> s]) = AppendProtoBytesField(num, s)
           /\ \A v \in 0 .. MaxUint64 :
                 /\ [num |-> num, wire |-> 0, value |-> v] \in WireFields
                 /\ Written([num |-> num, wire |-> 0, value |-> v]) = AppendProtoVarintField(num, v)
  <1>1. num \in Numbers
    BY WidthsAssumption DEF Numbers
  <1> HIDE DEF Numbers
  <1>2. ASSUME NEW s \in Str
        PROVE  /\ [num |-> num, wire |-> 2, value |-> s] \in WireFields
               /\ Written([num |-> num, wire |-> 2, value |-> s]) = AppendProtoBytesField(num, s)
    BY <1>1 DEF WireFields, Written
  <1>3. ASSUME NEW v \in 0 .. MaxUint64
        PROVE  /\ [num |-> num, wire |-> 0, value |-> v] \in WireFields
               /\ Written([num |-> num, wire |-> 0, value |-> v]) = AppendProtoVarintField(num, v)
    BY <1>1 DEF WireFields, Written
  <1> QED BY <1>2, <1>3

(* Every field is read as it was written, whatever a newer exporter adds. *)
LEMMA AccountReadBack ==
    ASSUME NEW a \in Accounts, MigrationName(a) \in Str, EncodeMigrationAccount(a).err = "nil",
           NEW w, Extra(w, 7), NEW x, Extra(x, 7)
    PROVE  ReadFields(w \o (AccountMessage(a) \o x)) = Ok(AccountRead(a))
  <1> DEFINE S == SecretOf(a).dst
             N == MigrationName(a)
             G == AlgorithmEnum[a.algorithm]
             D == DigitEnum[DigitsOf(a)]
             T == IF a.type = "hotp" THEN 1 ELSE 2
             x1 == AppendProtoBytesField(1, S)
             x2 == AppendProtoBytesField(2, N)
             x3 == IF a.issuer = <<>> THEN <<>> ELSE AppendProtoBytesField(3, a.issuer)
             x4 == AppendProtoVarintField(4, G)
             x5 == AppendProtoVarintField(5, D)
             x6 == AppendProtoVarintField(6, T)
             x7 == IF a.type = "hotp" THEN AppendProtoVarintField(7, a.counter) ELSE <<>>
             E == EncodeBase32(S)
             C == IF a.type = "hotp" THEN a.counter ELSE 0
             a0 == Account("totp", <<>>, <<>>, <<>>, "SHA1", 6, 0)
             a1 == Account("totp", <<>>, <<>>, E, "SHA1", 6, 0)
             a2 == Account("totp", N, <<>>, E, "SHA1", 6, 0)
             a3 == Account("totp", N, a.issuer, E, "SHA1", 6, 0)
             a4 == Account("totp", N, a.issuer, E, a.algorithm, 6, 0)
             a5 == Account("totp", N, a.issuer, E, a.algorithm, DigitsOf(a), 0)
             a6 == Account(a.type, N, a.issuer, E, a.algorithm, DigitsOf(a), 0)
             a7 == Account(a.type, N, a.issuer, E, a.algorithm, DigitsOf(a), C)
             (* A part, as a field that takes the account before it to the one behind. *)
             Part(p, q, y, f) ==
                 \/ y = <<>> /\ q = p
                 \/ f \in AccountFields /\ y = Written(f) /\ Ok(q) = SetAccountField(p, f.num, f.value)
             F(num, wire, value) == [num |-> num, wire |-> wire, value |-> value]
  <1>0. 1 \in 1 .. 7 /\ 2 \in 1 .. 7 /\ 3 \in 1 .. 7 /\ 4 \in 1 .. 7 /\ 5 \in 1 .. 7 /\ 6 \in 1 .. 7 /\ 7 \in 1 .. 7
    OBVIOUS
  <1>1. /\ a.algorithm \in DOMAIN AlgorithmEnum /\ DigitsOf(a) \in {6, 8} /\ a.type \in {"totp", "hotp"}
        /\ a.issuer \in Str /\ a.counter \in 0 .. MaxUint64 /\ S \in Str /\ N \in Str
    BY AccountEncoded, SecretTyped DEF Accounts
  <1>2. G \in 0 .. MaxUint64 /\ D \in 0 .. MaxUint64 /\ T \in 0 .. MaxUint64
    <2>1. G \in 0 .. 3 /\ D \in 0 .. 3 /\ T \in 0 .. 3
      BY <1>1, EnumsTyped
    <2> HIDE DEF G, D, T
    <2> QED BY <2>1, EnumsTyped
  <1>3. ASSUME NEW num \in 1 .. 3, NEW s \in Str
        PROVE  F(num, 2, s) \in AccountFields /\ Written(F(num, 2, s)) = AppendProtoBytesField(num, s)
    <2>1. num \in 1 .. 7
      OBVIOUS
    <2>2. F(num, 2, s) \in WireFields /\ Written(F(num, 2, s)) = AppendProtoBytesField(num, s)
      BY <2>1, FieldTyped
    <2> QED BY <2>2 DEF AccountFields
  <1>4. ASSUME NEW num \in 4 .. 7, NEW v \in 0 .. MaxUint64
        PROVE  F(num, 0, v) \in AccountFields /\ Written(F(num, 0, v)) = AppendProtoVarintField(num, v)
    <2>1. num \in 1 .. 7
      OBVIOUS
    <2>2. F(num, 0, v) \in WireFields /\ Written(F(num, 0, v)) = AppendProtoVarintField(num, v)
      BY <2>1, FieldTyped
    <2> QED BY <2>2 DEF AccountFields
  <1>5. \A num, wire, value : F(num, wire, value).num = num /\ F(num, wire, value).value = value
    OBVIOUS
  <1>6. \A f \in AccountFields : Written(f) \in Seq(Byte)
    BY FieldReadBack DEF AccountFields
  <1>7. 1 \in 1 .. 3 /\ 2 \in 1 .. 3 /\ 3 \in 1 .. 3 /\ 4 \in 4 .. 7 /\ 5 \in 4 .. 7 /\ 6 \in 4 .. 7 /\ 7 \in 4 .. 7
    OBVIOUS
  <1> HIDE DEF F
  <1>8. ASSUME NEW p, NEW q, NEW y, NEW f, f \in AccountFields, y = Written(f), SetAccountField(p, f.num, f.value) = Ok(q)
        PROVE  Part(p, q, y, f)
    BY <1>8
  <1>9. Part(a0, a1, x1, F(1, 2, S))
    <2>1. SetAccountField(a0, 1, S) = Ok(a1)
      <3> HIDE DEF S
      <3> QED BY AccountFieldsSet
    <2>2. F(1, 2, S) \in AccountFields /\ Written(F(1, 2, S)) = x1
      BY <1>1, <1>3, <1>7
    <2> HIDE DEF a0, a1, x1, S, Part
    <2> QED BY <1>5, <1>8, <2>1, <2>2
  <1>10. Part(a1, a2, x2, F(2, 2, N))
    <2>1. SetAccountField(a1, 2, N) = Ok(a2)
      <3> HIDE DEF N, E
      <3> QED BY AccountFieldsSet
    <2>2. F(2, 2, N) \in AccountFields /\ Written(F(2, 2, N)) = x2
      BY <1>1, <1>3, <1>7
    <2> HIDE DEF a1, a2, x2, N, Part
    <2> QED BY <1>5, <1>8, <2>1, <2>2
  <1>11. Part(a2, a3, x3, F(3, 2, a.issuer))
    <2>1. CASE a.issuer = <<>>
      BY <2>1, Zenon
    <2>2. CASE a.issuer # <<>>
      <3>1. SetAccountField(a2, 3, a.issuer) = Ok(a3)
        <4> HIDE DEF N, E
        <4> QED BY AccountFieldsSet
      <3>2. F(3, 2, a.issuer) \in AccountFields /\ Written(F(3, 2, a.issuer)) = x3
        BY <1>1, <1>3, <1>7, <2>2
      <3> HIDE DEF a2, a3, x3, Part
      <3> QED BY <1>5, <1>8, <3>1, <3>2
    <2> QED BY <2>1, <2>2
  <1>12. Part(a3, a4, x4, F(4, 0, G))
    <2>1. SetAccountField(a3, 4, G) = Ok(a4)
      <3> HIDE DEF N, E
      <3> QED BY <1>1, AlgorithmFieldSet
    <2>2. F(4, 0, G) \in AccountFields /\ Written(F(4, 0, G)) = x4
      BY <1>2, <1>4, <1>7
    <2> HIDE DEF a3, a4, x4, G, Part
    <2> QED BY <1>5, <1>8, <2>1, <2>2
  <1>13. Part(a4, a5, x5, F(5, 0, D))
    <2>1. SetAccountField(a4, 5, D) = Ok(a5)
      <3> HIDE DEF N, E
      <3> QED BY <1>1, DigitsFieldSet
    <2>2. F(5, 0, D) \in AccountFields /\ Written(F(5, 0, D)) = x5
      BY <1>2, <1>4, <1>7
    <2> HIDE DEF a4, a5, x5, D, Part
    <2> QED BY <1>5, <1>8, <2>1, <2>2
  <1>14. Part(a5, a6, x6, F(6, 0, T))
    <2>1. SetAccountField(a5, 6, T) = Ok(a6)
      <3> DEFINE y == IF T = 1 THEN "hotp" ELSE "totp"
      <3>1. y = a.type
        BY <1>1
      <3> HIDE DEF N, E, T
      <3>2. SetAccountField(a5, 6, T) = Ok(Account(y, N, a.issuer, E, a.algorithm, DigitsOf(a), 0))
        BY AccountFieldsSet
      <3> HIDE DEF y
      <3> QED BY <3>1, <3>2, Zenon
    <2>2. F(6, 0, T) \in AccountFields /\ Written(F(6, 0, T)) = x6
      BY <1>2, <1>4, <1>7
    <2> HIDE DEF a5, a6, x6, T, Part
    <2> QED BY <1>5, <1>8, <2>1, <2>2
  <1>15. Part(a6, a7, x7, F(7, 0, a.counter))
    <2>1. CASE a.type # "hotp"
      BY <2>1, Zenon
    <2>2. CASE a.type = "hotp"
      <3>1. SetAccountField(a6, 7, a.counter) = Ok(a7)
        <4>1. C = a.counter
          BY <2>2
        <4> HIDE DEF N, E, C
        <4> QED BY <4>1, AccountFieldsSet
      <3>2. F(7, 0, a.counter) \in AccountFields /\ Written(F(7, 0, a.counter)) = x7
        BY <1>1, <1>4, <1>7, <2>2
      <3> HIDE DEF a6, a7, x7, Part
      <3> QED BY <1>5, <1>8, <3>1, <3>2
    <2> QED BY <2>1, <2>2
  <1>16. ASSUME NEW q, NEW e, Extra(e, 7) PROVE \E h : Part(q, q, e, h)
    <2>1. CASE e = <<>>
      BY <2>1, Zenon
    <2>2. ASSUME NEW f \in WireFields, f.num > 7, e = Written(f) PROVE Part(q, q, e, f)
      <3>1. f.num \in Nat /\ f.num \notin 1 .. 3 /\ f.num \notin 4 .. 7
        BY <2>2 DEF WireFields, Numbers
      <3>2. f \in AccountFields
        BY <3>1 DEF AccountFields
      <3>3. SetAccountField(q, f.num, f.value) = Ok(q)
        BY <2>2, <3>1, UnknownFieldSet
      <3> QED BY <2>2, <3>2, <3>3, Zenon
    <2> QED BY <1>16, <2>1, <2>2 DEF Extra
  <1>17. /\ a0 = NewAccount /\ a7 = AccountRead(a)
         /\ AccountMessage(a) = x1 \o x2 \o x3 \o x4 \o x5 \o x6 \o x7
    BY DEF Account, NewAccount, AccountRead, AccountMessage
  <1>18. ASSUME NEW p, NEW q, NEW y, NEW f, Part(p, q, y, f) PROVE y \in Seq(Byte)
    <2>1. <<>> \in Seq(Byte)
      OBVIOUS
    <2> QED BY <1>6, <1>18, <2>1
  <1>19. /\ x1 \in Seq(Byte) /\ x2 \in Seq(Byte) /\ x3 \in Seq(Byte) /\ x4 \in Seq(Byte)
         /\ x5 \in Seq(Byte) /\ x6 \in Seq(Byte) /\ x7 \in Seq(Byte) /\ x \in Seq(Byte) /\ w \in Seq(Byte)
    <2> HIDE DEF Part, x1, x2, x3, x4, x5, x6, x7, a0, a1, a2, a3, a4, a5, a6, a7, S, N, G, D, T
    <2> QED BY <1>9, <1>10, <1>11, <1>12, <1>13, <1>14, <1>15, <1>16, <1>18
  <1> DEFINE f1 == F(1, 2, S)
             f2 == F(2, 2, N)
             f3 == F(3, 2, a.issuer)
             f4 == F(4, 0, G)
             f5 == F(5, 0, D)
             f6 == F(6, 0, T)
             f7 == F(7, 0, a.counter)
  <1> HIDE DEF Part, x1, x2, x3, x4, x5, x6, x7, a0, a1, a2, a3, a4, a5, a6, a7, S, N, G, D, T
  <1>20. PICK h : Part(a7, a7, x, h)
    BY <1>16
  <1>21. PICK h0 : Part(a0, a0, w, h0)
    BY <1>16
  <1>22. /\ Part(a0, a1, x1, f1) /\ Part(a1, a2, x2, f2) /\ Part(a2, a3, x3, f3) /\ Part(a3, a4, x4, f4)
         /\ Part(a4, a5, x5, f5) /\ Part(a5, a6, x6, f6) /\ Part(a6, a7, x7, f7) /\ Part(a7, a7, x, h)
         /\ Part(a0, a0, w, h0)
    BY <1>9, <1>10, <1>11, <1>12, <1>13, <1>14, <1>15, <1>20, <1>21
  <1> HIDE DEF f1, f2, f3, f4, f5, f6, f7
  <1> DEFINE y1 == x1
             y2 == y1 \o x2
             y3 == y2 \o x3
             y4 == y3 \o x4
             y5 == y4 \o x5
             y6 == y5 \o x6
             y7 == y6 \o x7
             y8 == y7 \o x
  <1>23. y1 \in Seq(Byte) /\ y1 = Cat(<<>>, x1)
    BY <1>19 DEF Cat
  <1>24. y2 \in Seq(Byte) /\ y2 = Cat(y1, x2)
    BY <1>19, <1>23, ConcatProperties DEF Cat
  <1>25. y3 \in Seq(Byte) /\ y3 = Cat(y2, x3)
    <2> HIDE DEF y2
    <2> QED BY <1>19, <1>24, ConcatProperties DEF Cat
  <1>26. y4 \in Seq(Byte) /\ y4 = Cat(y3, x4)
    <2> HIDE DEF y3
    <2> QED BY <1>19, <1>25, ConcatProperties DEF Cat
  <1>27. y5 \in Seq(Byte) /\ y5 = Cat(y4, x5)
    <2> HIDE DEF y4
    <2> QED BY <1>19, <1>26, ConcatProperties DEF Cat
  <1>28. y6 \in Seq(Byte) /\ y6 = Cat(y5, x6)
    <2> HIDE DEF y5
    <2> QED BY <1>19, <1>27, ConcatProperties DEF Cat
  <1>29. y7 \in Seq(Byte) /\ y7 = Cat(y6, x7)
    <2> HIDE DEF y6
    <2> QED BY <1>19, <1>28, ConcatProperties DEF Cat
  <1>30. y8 \in Seq(Byte) /\ y8 = Cat(y7, x)
    <2> HIDE DEF y7
    <2> QED BY <1>19, <1>29, ConcatProperties DEF Cat
  <1>31. y8 = AccountMessage(a) \o x
    BY <1>17
  <1> HIDE DEF y1, y2, y3, y4, y5, y6, y7, y8
  <1> DEFINE Led(y) == Cat(w, y)
  <1>32. ASSUME NEW y \in Seq(Byte), NEW z \in Seq(Byte)
         PROVE  Led(y) \in Seq(Byte) /\ Led(Cat(y, z)) = Cat(Led(y), z)
    BY <1>19, CatProperties, Reassociated
  <1>33. w = Cat(<<>>, w)
    BY <1>19 DEF Cat
  <1>34. Led(y1) = Cat(w, x1)
    BY <1>19, <1>23 DEF Cat
  <1>35. /\ Led(y2) = Cat(Led(y1), x2) /\ Led(y3) = Cat(Led(y2), x3) /\ Led(y4) = Cat(Led(y3), x4)
         /\ Led(y5) = Cat(Led(y4), x5) /\ Led(y6) = Cat(Led(y5), x6) /\ Led(y7) = Cat(Led(y6), x7)
         /\ Led(y8) = Cat(Led(y7), x)
    <2> HIDE DEF Led
    <2>2. Led(y2) = Cat(Led(y1), x2)
      BY <1>19, <1>23, <1>24, <1>32
    <2>3. Led(y3) = Cat(Led(y2), x3)
      BY <1>19, <1>24, <1>25, <1>32
    <2>4. Led(y4) = Cat(Led(y3), x4)
      BY <1>19, <1>25, <1>26, <1>32
    <2>5. Led(y5) = Cat(Led(y4), x5)
      BY <1>19, <1>26, <1>27, <1>32
    <2>6. Led(y6) = Cat(Led(y5), x6)
      BY <1>19, <1>27, <1>28, <1>32
    <2>7. Led(y7) = Cat(Led(y6), x7)
      BY <1>19, <1>28, <1>29, <1>32
    <2>8. Led(y8) = Cat(Led(y7), x)
      BY <1>19, <1>29, <1>30, <1>32
    <2> QED BY <2>2, <2>3, <2>4, <2>5, <2>6, <2>7, <2>8
  <1> DEFINE z1 == w
             z2 == Led(y1)
             z3 == Led(y2)
             z4 == Led(y3)
             z5 == Led(y4)
             z6 == Led(y5)
             z7 == Led(y6)
             z8 == Led(y7)
             z9 == Led(y8)
  <1>36. /\ w \in Seq(Byte) /\ z2 \in Seq(Byte) /\ z3 \in Seq(Byte) /\ z4 \in Seq(Byte) /\ z5 \in Seq(Byte)
         /\ z6 \in Seq(Byte) /\ z7 \in Seq(Byte) /\ z8 \in Seq(Byte) /\ z9 \in Seq(Byte)
    <2> HIDE DEF Led
    <2> QED BY <1>19, <1>23, <1>24, <1>25, <1>26, <1>27, <1>28, <1>29, <1>30, <1>32
  <1>37. /\ z1 = Cat(<<>>, w) /\ z2 = Cat(z1, x1) /\ z3 = Cat(z2, x2) /\ z4 = Cat(z3, x3) /\ z5 = Cat(z4, x4)
         /\ z6 = Cat(z5, x5) /\ z7 = Cat(z6, x6) /\ z8 = Cat(z7, x7) /\ z9 = Cat(z8, x)
    <2> HIDE DEF Led
    <2> QED BY <1>33, <1>34, <1>35
  <1>38. z9 = w \o (AccountMessage(a) \o x)
    BY <1>31 DEF Cat
  <1> HIDE DEF z1, z2, z3, z4, z5, z6, z7, z8, z9
  <1> DEFINE r == <<w, x1, x2, x3, x4, x5, x6, x7, x>>
             fs == <<h0, f1, f2, f3, f4, f5, f6, f7, h>>
             d == [i \in 0 .. 9 |-> CASE i = 0 -> <<>> [] i = 1 -> z1
                   [] i = 2 -> z2   [] i = 3 -> z3   [] i = 4 -> z4   [] i = 5 -> z5
                   [] i = 6 -> z6   [] i = 7 -> z7   [] i = 8 -> z8   [] i = 9 -> z9]
             P == [i \in 0 .. 9 |-> CASE i = 0 -> Ok(a0) [] i = 1 -> Ok(a0)
                   [] i = 2 -> Ok(a1)   [] i = 3 -> Ok(a2)   [] i = 4 -> Ok(a3)   [] i = 5 -> Ok(a4)
                   [] i = 6 -> Ok(a5)   [] i = 7 -> Ok(a6)   [] i = 8 -> Ok(a7)   [] i = 9 -> Ok(a7)]
  <1>39. r \in Seq(Seq(Byte)) /\ Len(r) = 9
    <2> DEFINE B == Seq(Byte)
    <2>1. /\ x1 \in B /\ x2 \in B /\ x3 \in B /\ x4 \in B
          /\ x5 \in B /\ x6 \in B /\ x7 \in B /\ x \in B /\ w \in B
      BY <1>19
    <2> HIDE DEF B
    <2>2. r \in Seq(B) /\ Len(r) = 9
      BY <2>1
    <2> QED BY <2>2 DEF B
  <1>40. d \in [0 .. 9 -> Seq(Byte)]
    <2> DEFINE B == Seq(Byte)
    <2>1. /\ <<>> \in B /\ z1 \in B /\ z2 \in B /\ z3 \in B /\ z4 \in B
          /\ z5 \in B /\ z6 \in B /\ z7 \in B /\ z8 \in B /\ z9 \in B
      BY <1>36 DEF z1
    <2> HIDE DEF B
    <2>2. d \in [0 .. 9 -> B]
      BY <2>1
    <2> QED BY <2>2 DEF B
  <1>41. /\ d[0] = <<>> /\ P[0] = Ok(a0)
         /\ r[1] = w /\ fs[1] = h0 /\ d[1] = z1 /\ P[1] = Ok(a0)
         /\ r[2] = x1 /\ fs[2] = f1 /\ d[2] = z2 /\ P[2] = Ok(a1)
         /\ r[3] = x2 /\ fs[3] = f2 /\ d[3] = z3 /\ P[3] = Ok(a2)
         /\ r[4] = x3 /\ fs[4] = f3 /\ d[4] = z4 /\ P[4] = Ok(a3)
         /\ r[5] = x4 /\ fs[5] = f4 /\ d[5] = z5 /\ P[5] = Ok(a4)
         /\ r[6] = x5 /\ fs[6] = f5 /\ d[6] = z6 /\ P[6] = Ok(a5)
         /\ r[7] = x6 /\ fs[7] = f6 /\ d[7] = z7 /\ P[7] = Ok(a6)
         /\ r[8] = x7 /\ fs[8] = f7 /\ d[8] = z8 /\ P[8] = Ok(a7)
         /\ r[9] = x /\ fs[9] = h /\ d[9] = z9 /\ P[9] = Ok(a7)
    OBVIOUS
  <1> HIDE DEF r, fs, d, P
  <1> DEFINE Step(i) ==
          /\ d[i] = Cat(d[i - 1], r[i])
          /\ \/ r[i] = <<>> /\ P[i] = P[i - 1]
             \/ /\ fs[i] \in AccountFields /\ r[i] = Written(fs[i])
                /\ P[i] = IF P[i - 1].err # "nil" THEN P[i - 1]
                          ELSE SetAccountField(P[i - 1].value, fs[i].num, fs[i].value)
  <1>42. ASSUME NEW i \in 1 .. 9, NEW p, NEW q, Part(p, q, r[i], fs[i]), P[i - 1] = Ok(p), P[i] = Ok(q),
                d[i] = Cat(d[i - 1], r[i])
         PROVE  Step(i)
    <2>1. Ok(p).err = "nil" /\ Ok(p).value = p
      BY DEF Ok
    <2> QED BY <1>42, <2>1, Zenon DEF Part
  <1>43. ASSUME NEW i \in 1 .. 9, NEW p, NEW q, Part(p, q, r[i], fs[i]), NEW j, j = i - 1, P[j] = Ok(p),
                P[i] = Ok(q), d[i] = Cat(d[j], r[i])
         PROVE  Step(i)
    <2> HIDE DEF Step
    <2> QED BY <1>42, <1>43
  <1>44. Step(1)
    <2>1. 1 \in 1 .. 9 /\ 0 = 1 - 1
      OBVIOUS
    <2>2. Part(a0, a0, r[1], fs[1]) /\ P[0] = Ok(a0) /\ P[1] = Ok(a0) /\ d[1] = Cat(d[0], r[1])
      BY <1>22, <1>41, <1>37
    <2> HIDE DEF Step
    <2> QED BY <1>43, <2>1, <2>2
  <1>45. Step(2)
    <2>1. 2 \in 1 .. 9 /\ 1 = 2 - 1
      OBVIOUS
    <2>2. Part(a0, a1, r[2], fs[2]) /\ P[1] = Ok(a0) /\ P[2] = Ok(a1) /\ d[2] = Cat(d[1], r[2])
      BY <1>22, <1>41, <1>37
    <2> HIDE DEF Step
    <2> QED BY <1>43, <2>1, <2>2
  <1>46. Step(3)
    <2>1. 3 \in 1 .. 9 /\ 2 = 3 - 1
      OBVIOUS
    <2>2. Part(a1, a2, r[3], fs[3]) /\ P[2] = Ok(a1) /\ P[3] = Ok(a2) /\ d[3] = Cat(d[2], r[3])
      BY <1>22, <1>41, <1>37
    <2> HIDE DEF Step
    <2> QED BY <1>43, <2>1, <2>2
  <1>47. Step(4)
    <2>1. 4 \in 1 .. 9 /\ 3 = 4 - 1
      OBVIOUS
    <2>2. Part(a2, a3, r[4], fs[4]) /\ P[3] = Ok(a2) /\ P[4] = Ok(a3) /\ d[4] = Cat(d[3], r[4])
      BY <1>22, <1>41, <1>37
    <2> HIDE DEF Step
    <2> QED BY <1>43, <2>1, <2>2
  <1>48. Step(5)
    <2>1. 5 \in 1 .. 9 /\ 4 = 5 - 1
      OBVIOUS
    <2>2. Part(a3, a4, r[5], fs[5]) /\ P[4] = Ok(a3) /\ P[5] = Ok(a4) /\ d[5] = Cat(d[4], r[5])
      BY <1>22, <1>41, <1>37
    <2> HIDE DEF Step
    <2> QED BY <1>43, <2>1, <2>2
  <1>49. Step(6)
    <2>1. 6 \in 1 .. 9 /\ 5 = 6 - 1
      OBVIOUS
    <2>2. Part(a4, a5, r[6], fs[6]) /\ P[5] = Ok(a4) /\ P[6] = Ok(a5) /\ d[6] = Cat(d[5], r[6])
      BY <1>22, <1>41, <1>37
    <2> HIDE DEF Step
    <2> QED BY <1>43, <2>1, <2>2
  <1>50. Step(7)
    <2>1. 7 \in 1 .. 9 /\ 6 = 7 - 1
      OBVIOUS
    <2>2. Part(a5, a6, r[7], fs[7]) /\ P[6] = Ok(a5) /\ P[7] = Ok(a6) /\ d[7] = Cat(d[6], r[7])
      BY <1>22, <1>41, <1>37
    <2> HIDE DEF Step
    <2> QED BY <1>43, <2>1, <2>2
  <1>51. Step(8)
    <2>1. 8 \in 1 .. 9 /\ 7 = 8 - 1
      OBVIOUS
    <2>2. Part(a6, a7, r[8], fs[8]) /\ P[7] = Ok(a6) /\ P[8] = Ok(a7) /\ d[8] = Cat(d[7], r[8])
      BY <1>22, <1>41, <1>37
    <2> HIDE DEF Step
    <2> QED BY <1>43, <2>1, <2>2
  <1>52. Step(9)
    <2>1. 9 \in 1 .. 9 /\ 8 = 9 - 1
      OBVIOUS
    <2>2. Part(a7, a7, r[9], fs[9]) /\ P[8] = Ok(a7) /\ P[9] = Ok(a7) /\ d[9] = Cat(d[8], r[9])
      BY <1>22, <1>41, <1>37
    <2> HIDE DEF Step
    <2> QED BY <1>43, <2>1, <2>2
  <1>53. \A i \in 1 .. 9 : Step(i)
    <2>1. \A i \in 1 .. 9 : i = 1 \/ i = 2 \/ i = 3 \/ i = 4 \/ i = 5 \/ i = 6 \/ i = 7 \/ i = 8 \/ i = 9
      OBVIOUS
    <2> HIDE DEF Step
    <2> QED BY <1>44, <1>45, <1>46, <1>47, <1>48, <1>49, <1>50, <1>51, <1>52, <2>1, Zenon
  <1>54. AccountResults(r, d, fs, P)
    <2>1. P[0] = Ok(NewAccount)
      BY <1>17, <1>41
    <2>2. d \in [0 .. Len(r) -> Seq(Byte)] /\ d[0] = <<>> /\ \A i \in 1 .. Len(r) : Step(i)
      BY <1>39, <1>40, <1>41, <1>53, Zenon
    <2> QED BY <1>39, <2>1, <2>2, Zenon DEF AccountResults
  <1>55. ReadFields(d[Len(r)]) = IF P[Len(r)].err # "nil" THEN P[Len(r)] ELSE Ok(P[Len(r)].value)
    BY <1>54, AccountParsed
  <1>56. P[9].err = "nil" /\ P[9].value = a7
    BY <1>41 DEF Ok
  <1>57. ReadFields(d[9]) = Ok(a7)
    BY <1>39, <1>55, <1>56, Zenon
  <1> QED BY <1>17, <1>41, <1>57, <1>38, Zenon

(* The data is made of fields that a payload may have, and R is what it     *)
(* has been read as after the last of them.                                 *)
Yields(data, R) ==
    \E r, d, fs, P : PayloadResults(r, d, fs, P) /\ d[Len(r)] = data /\ P[Len(r)] = R

(* No data is an empty payload. *)
LEMMA NothingYields == Yields(<<>>, Ok(NewPayload))
  <1> DEFINE B == Seq(Byte)
             r == <<>>
             d == [i \in {0} |-> <<>>]
             P == [i \in {0} |-> Ok(NewPayload)]
  <1>1. r \in Seq(B) /\ Len(r) = 0 /\ 0 .. 0 = {0} /\ 1 .. 0 = {}
    OBVIOUS
  <1>2. <<>> \in B
    OBVIOUS
  <1> HIDE DEF B
  <1>3. d \in [0 .. Len(r) -> B] /\ d[0] = <<>> /\ P[0] = Ok(NewPayload)
    BY <1>1, <1>2
  <1> HIDE DEF d, P
  <1>4. \A i \in 1 .. Len(r) : FALSE
    BY <1>1
  <1> HIDE DEF r
  <1>5. PayloadResults(r, d, r, P)
    BY <1>1, <1>3, <1>4, Zenon DEF PayloadResults, B
  <1>6. d[Len(r)] = <<>> /\ P[Len(r)] = Ok(NewPayload)
    BY <1>1, <1>3
  <1> QED BY <1>5, <1>6, Zenon DEF Yields

(* One field more is set in what was read before it, unless that failed. *)
LEMMA FieldYields ==
    ASSUME NEW data, NEW R, Yields(data, R), NEW f \in PayloadFields
    PROVE  /\ data \in Seq(Byte)
           /\ Yields(Cat(data, Written(f)),
                     IF R.err # "nil" THEN R ELSE SetPayloadField(R.value, f.num, f.value))
  <1> DEFINE B == Seq(Byte)
             S == IF R.err # "nil" THEN R ELSE SetPayloadField(R.value, f.num, f.value)
             x == Written(f)
  <1>1. PICK r, d, fs, P : PayloadResults(r, d, fs, P) /\ d[Len(r)] = data /\ P[Len(r)] = R
    BY Zenon DEF Yields
  <1> DEFINE n == Len(r)
             Step(i, t, e, g, Q) ==
                 /\ e[i] = Cat(e[i - 1], t[i])
                 /\ \/ t[i] = <<>> /\ Q[i] = Q[i - 1]
                    \/ /\ g[i] \in PayloadFields /\ t[i] = Written(g[i])
                       /\ Q[i] = IF Q[i - 1].err # "nil" THEN Q[i - 1]
                                 ELSE SetPayloadField(Q[i - 1].value, g[i].num, g[i].value)
             r1 == Append(r, x)
             d1 == [i \in 0 .. n + 1 |-> IF i = n + 1 THEN Cat(data, x) ELSE d[i]]
             f1 == [i \in 1 .. n + 1 |-> IF i = n + 1 THEN f ELSE fs[i]]
             P1 == [i \in 0 .. n + 1 |-> IF i = n + 1 THEN S ELSE P[i]]
  <1>2. /\ r \in Seq(B) /\ d \in [0 .. n -> B] /\ d[0] = <<>> /\ P[0] = Ok(NewPayload)
        /\ \A i \in 1 .. n : Step(i, r, d, fs, P)
    BY <1>1, Zenon DEF PayloadResults
  <1>3. x \in B
    <2>1. f \in WireFields
      BY DEF PayloadFields
    <2> QED BY <2>1, FieldReadBack
  <1>4. n \in Nat
    BY <1>2
  <1>5. data \in B
    <2> HIDE DEF B, n
    <2>1. n \in 0 .. n
      BY <1>4
    <2> QED BY <1>1, <1>2, <2>1 DEF n
  <1>6. Cat(data, x) \in B
    BY <1>3, <1>5, ConcatProperties DEF Cat
  <1> HIDE DEF B, x, S
  <1>7. /\ r1 \in Seq(B) /\ Len(r1) = n + 1 /\ r1[n + 1] = x
        /\ \A i \in 1 .. n : r1[i] = r[i]
    BY <1>2, <1>3, AppendProperties
  <1> HIDE DEF r1, n
  <1>8. d1 \in [0 .. n + 1 -> B] /\ d1[0] = <<>> /\ P1[0] = Ok(NewPayload)
    BY <1>2, <1>4, <1>6
  <1>9. ASSUME NEW i \in 1 .. n + 1 PROVE Step(i, r1, d1, f1, P1)
    <2>0. i \in 0 .. n + 1 /\ i - 1 \in 0 .. n + 1 /\ i - 1 # n + 1
      BY <1>4
    <2>1. CASE i = n + 1
      <3>0. i - 1 = n
        BY <1>4, <2>1
      <3>1. d1[i] = Cat(data, x) /\ P1[i] = S /\ f1[i] = f /\ r1[i] = x
        BY <1>7, <2>0, <2>1
      <3>2. d1[i - 1] = data /\ P1[i - 1] = R
        <4>1. d1[i - 1] = d[i - 1] /\ P1[i - 1] = P[i - 1]
          BY <2>0
        <4> QED BY <1>1, <3>0, <4>1, Zenon DEF n
      <3> HIDE DEF d1, f1, P1
      <3> QED BY <3>1, <3>2, Zenon DEF S, x
    <2>2. CASE i # n + 1
      <3>0. i \in 1 .. n
        BY <1>4, <2>2
      <3>1. d1[i] = d[i] /\ P1[i] = P[i] /\ f1[i] = fs[i] /\ r1[i] = r[i]
        BY <1>7, <2>0, <2>2, <3>0
      <3>2. d1[i - 1] = d[i - 1] /\ P1[i - 1] = P[i - 1]
        BY <2>0
      <3>3. Step(i, r, d, fs, P)
        BY <1>2, <3>0
      <3> HIDE DEF d1, f1, P1
      <3> QED BY <3>1, <3>2, <3>3, Zenon
    <2> QED BY <2>1, <2>2
  <1>10. n + 1 \in 0 .. n + 1
    BY <1>4
  <1>11. d1[n + 1] = Cat(data, x) /\ P1[n + 1] = S
    BY <1>10
  <1> HIDE DEF d1, f1, P1
  <1>12. PayloadResults(r1, d1, f1, P1)
    BY <1>7, <1>8, <1>9, Zenon DEF PayloadResults, B
  <1>13. Yields(Cat(data, x), S)
    BY <1>7, <1>11, <1>12, Zenon DEF Yields
  <1> QED BY <1>5, <1>13 DEF S, x, B

(* What the data yields is what the parser makes of it. *)
LEMMA YieldIsParsed ==
    ASSUME NEW data, NEW R, Yields(data, R)
    PROVE  ParsePayload(data) = IF R.err # "nil" THEN R ELSE Ok(R.value)
  <1>1. PICK r, d, fs, P : PayloadResults(r, d, fs, P) /\ d[Len(r)] = data /\ P[Len(r)] = R
    BY Zenon DEF Yields
  <1> QED BY <1>1, PayloadParsed, Zenon

(* A result is an error or a value. *)
Result(R) == R.err # "nil" \/ R = Ok(R.value)

(* A field that the parser does not know changes nothing. *)
LEMMA ExtraYields ==
    ASSUME NEW data, NEW R, Yields(data, R), Result(R), NEW x, Extra(x, 7), data \in Seq(Byte)
    PROVE  Yields(Cat(data, x), R) /\ x \in Seq(Byte)
  <1>1. CASE x = <<>>
    <2>1. Cat(data, x) = data
      BY <1>1, ConcatEmptySeq DEF Cat
    <2>2. x \in Seq(Byte)
      BY <1>1
    <2> QED BY <2>1, <2>2
  <1>2. CASE \E f \in WireFields : f.num > 7 /\ x = Written(f)
    <2>1. PICK f \in WireFields : f.num > 7 /\ x = Written(f)
      BY <1>2
    <2>2. f.num \in Nat
      BY DEF WireFields, Numbers
    <2>3. f \in PayloadFields
      BY <2>1, <2>2 DEF PayloadFields
    <2>4. SetPayloadField(R.value, f.num, f.value) = Ok(R.value)
      BY <2>1, <2>2 DEF SetPayloadField
    <2>5. R = IF R.err # "nil" THEN R ELSE SetPayloadField(R.value, f.num, f.value)
      BY <2>4 DEF Result
    <2> QED BY <2>1, <2>3, <2>5, FieldYields, FieldReadBack
  <1> QED BY <1>1, <1>2 DEF Extra

(* The parser's setters return results. *)
LEMMA SetIsResult ==
    ASSUME NEW p, NEW num, NEW v PROVE Result(SetPayloadField(p, num, v))
  <1> DEFINE s == SetPayloadField(p, num, v)
  <1>0. \A q : Result(Ok(q))
    BY DEF Result, Ok
  <1> DEFINE a == DecodeMigrationAccount(v)
             k == CheckedUint64ToInt32(v)
             f1(x) == Ok([p EXCEPT !.accounts = Append(p.accounts, x)])
             f2(x) == Ok([p EXCEPT !.version = x])
             f3(x) == Ok([p EXCEPT !.batchSize = x])
             f4(x) == Ok([p EXCEPT !.batchIndex = x])
             f5(x) == Ok([p EXCEPT !.batchID = x])
  <1>1. s = CASE num = 1 -> (IF a.err # "nil" THEN a ELSE f1(a.value))
              [] num = 2 -> (IF k.err # "nil" THEN k ELSE f2(k.value))
              [] num = 3 -> (IF k.err # "nil" THEN k ELSE f3(k.value))
              [] num = 4 -> (IF k.err # "nil" THEN k ELSE f4(k.value))
              [] num = 5 -> (IF k.err # "nil" THEN k ELSE f5(k.value))
              [] OTHER   -> Ok(p)
    BY DEF SetPayloadField, Then
  <1>2. /\ \A x : Result(f1(x)) /\ Result(f2(x)) /\ Result(f3(x)) /\ Result(f4(x)) /\ Result(f5(x))
        /\ Result(Ok(p))
    BY <1>0, Zenon
  <1> HIDE DEF s, a, k, f1, f2, f3, f4, f5
  <1>3. \/ s = a /\ a.err # "nil"
        \/ s = k /\ k.err # "nil"
        \/ s \in {f1(a.value), f2(k.value), f3(k.value), f4(k.value), f5(k.value), Ok(p)}
    BY <1>1
  <1>4. Result(s)
    BY <1>2, <1>3 DEF Result
  <1> QED BY <1>4 DEF s

(* The same is read with the field x in front. *)
Also(x, data, R) ==
    data \in Seq(Byte) /\ Result(R) /\ Yields(data, R) /\ Yields(Cat(x, data), R)

(* Before the first account. *)
LEMMA AlsoNothing ==
    ASSUME NEW x, Extra(x, 7) PROVE x \in Seq(Byte) /\ Also(x, <<>>, Ok(NewPayload))
  <1> DEFINE e == <<>>
             R == Ok(NewPayload)
  <1>1. Result(R)
    BY DEF Result, Ok
  <1>2. e \in Seq(Byte)
    OBVIOUS
  <1>3. Yields(e, R)
    BY NothingYields
  <1> HIDE DEF R
  <1>4. Yields(Cat(e, x), R) /\ x \in Seq(Byte)
    <2> HIDE DEF e
    <2> QED BY <1>1, <1>2, <1>3, ExtraYields
  <1>5. Cat(e, x) = Cat(x, e)
    BY <1>4, ConcatEmptySeq DEF Cat
  <1> HIDE DEF e
  <1>6. Yields(Cat(x, e), R)
    BY <1>4, <1>5
  <1> QED BY <1>1, <1>2, <1>3, <1>4, <1>6 DEF Also, e, R

(* One field more. *)
LEMMA AlsoField ==
    ASSUME NEW x \in Seq(Byte), NEW data, NEW R, Also(x, data, R), NEW f \in PayloadFields
    PROVE  Also(x, Cat(data, Written(f)),
                IF R.err # "nil" THEN R ELSE SetPayloadField(R.value, f.num, f.value))
  <1> DEFINE S == IF R.err # "nil" THEN R ELSE SetPayloadField(R.value, f.num, f.value)
             w == Written(f)
  <1>1. data \in Seq(Byte) /\ Result(R) /\ Yields(data, R) /\ Yields(Cat(x, data), R)
    BY DEF Also
  <1>2. Result(S)
    BY <1>1, SetIsResult, Zenon
  <1>3. Yields(Cat(data, w), S) /\ Yields(Cat(Cat(x, data), w), S)
    BY <1>1, FieldYields
  <1>4. w \in Seq(Byte)
    <2>1. f \in WireFields
      BY DEF PayloadFields
    <2> QED BY <2>1, FieldReadBack
  <1>5. Cat(Cat(x, data), w) = Cat(x, Cat(data, w))
    <2>1. Byte \subseteq Char
      BY EncodedTyped
    <2>2. x \in Seq(Char) /\ data \in Seq(Char) /\ w \in Seq(Char)
      BY <1>1, <1>4, <2>1, SeqMonotone
    <2> HIDE DEF w
    <2> QED BY <2>2, Reassociated
  <1>6. Cat(data, w) \in Seq(Byte)
    BY <1>1, <1>4, ConcatProperties DEF Cat
  <1> HIDE DEF S, w
  <1>7. Also(x, Cat(data, w), S)
    BY <1>2, <1>3, <1>5, <1>6, Zenon DEF Also
  <1> QED BY <1>7 DEF S, w

(* A payload, field by field. *)
Payload(accounts, version, size, index, id) ==
    [accounts |-> accounts, version |-> version, batchSize |-> size, batchIndex |-> index, batchID |-> id]

(* The fields of a payload. *)
LEMMA PayloadFieldTyped ==
    /\ \A s \in Str : [num |-> 1, wire |-> 2, value |-> s] \in PayloadFields
    /\ \A num \in 2 .. 5 : \A v \in 0 .. MaxUint64 : [num |-> num, wire |-> 0, value |-> v] \in PayloadFields
  <1>1. ASSUME NEW s \in Str PROVE [num |-> 1, wire |-> 2, value |-> s] \in PayloadFields
    <2>1. 1 \in 1 .. 7
      OBVIOUS
    <2>2. [num |-> 1, wire |-> 2, value |-> s] \in WireFields
      BY <2>1, FieldTyped
    <2> QED BY <2>2 DEF PayloadFields
  <1>2. ASSUME NEW num \in 2 .. 5, NEW v \in 0 .. MaxUint64
        PROVE  [num |-> num, wire |-> 0, value |-> v] \in PayloadFields
    <2>1. num \in 1 .. 7
      OBVIOUS
    <2>2. [num |-> num, wire |-> 0, value |-> v] \in WireFields
      BY <2>1, FieldTyped
    <2> QED BY <2>2 DEF PayloadFields
  <1> QED BY <1>1, <1>2

(* What each of the options sets. *)
LEMMA OptionsSet ==
    ASSUME NEW a, NEW v, NEW s, NEW i, NEW d, NEW n \in 0 .. MaxInt32
    PROVE  /\ SetPayloadField(Payload(a, v, s, i, d), 2, n) = Ok(Payload(a, n, s, i, d))
           /\ SetPayloadField(Payload(a, v, s, i, d), 3, n) = Ok(Payload(a, v, n, i, d))
           /\ SetPayloadField(Payload(a, v, s, i, d), 4, n) = Ok(Payload(a, v, s, n, d))
           /\ SetPayloadField(Payload(a, v, s, i, d), 5, n) = Ok(Payload(a, v, s, i, n))
  <1> DEFINE p == Payload(a, v, s, i, d)
             c == CheckedUint64ToInt32(n)
  <1>1. c = Ok(n)
    BY WidthsAssumption DEF CheckedUint64ToInt32
  <1>2. c.err = "nil" /\ c.value = n
    BY <1>1 DEF Ok
  <1>3. /\ SetPayloadField(p, 2, n) = (IF c.err # "nil" THEN c ELSE Ok([p EXCEPT !.version = c.value]))
        /\ SetPayloadField(p, 3, n) = (IF c.err # "nil" THEN c ELSE Ok([p EXCEPT !.batchSize = c.value]))
        /\ SetPayloadField(p, 4, n) = (IF c.err # "nil" THEN c ELSE Ok([p EXCEPT !.batchIndex = c.value]))
        /\ SetPayloadField(p, 5, n) = (IF c.err # "nil" THEN c ELSE Ok([p EXCEPT !.batchID = c.value]))
    <2> HIDE DEF p
    <2> QED BY DEF SetPayloadField, Then
  <1> HIDE DEF c
  <1>4. /\ [p EXCEPT !.version = n] = Payload(a, n, s, i, d)
        /\ [p EXCEPT !.batchSize = n] = Payload(a, v, n, i, d)
        /\ [p EXCEPT !.batchIndex = n] = Payload(a, v, s, n, d)
        /\ [p EXCEPT !.batchID = n] = Payload(a, v, s, i, n)
    BY DEF Payload
  <1> HIDE DEF p
  <1>5. SetPayloadField(p, 2, n) = Ok([p EXCEPT !.version = n])
    BY <1>2, <1>3, Zenon
  <1>6. SetPayloadField(p, 3, n) = Ok([p EXCEPT !.batchSize = n])
    BY <1>2, <1>3, Zenon
  <1>7. SetPayloadField(p, 4, n) = Ok([p EXCEPT !.batchIndex = n])
    BY <1>2, <1>3, Zenon
  <1>8. SetPayloadField(p, 5, n) = Ok([p EXCEPT !.batchID = n])
    BY <1>2, <1>3, Zenon
  <1> QED BY <1>4, <1>5, <1>6, <1>7, <1>8, Zenon DEF p

(* A number beyond an int32 is refused. *)
LEMMA OptionRefused ==
    ASSUME NEW p, NEW num \in 2 .. 5, NEW n \in 0 .. MaxUint64, n > MaxInt32
    PROVE  SetPayloadField(p, num, n).err # "nil"
  <1> DEFINE c == CheckedUint64ToInt32(n)
  <1>1. c = Failed("ErrInvalidMigration")
    BY DEF CheckedUint64ToInt32
  <1>2. c.err # "nil"
    BY <1>1 DEF Failed
  <1>3. ASSUME NEW F(_) PROVE Then(c, F) = c
    <2> HIDE DEF c
    <2> QED BY <1>2, Zenon DEF Then
  <1>4. SetPayloadField(p, num, n) = c
    <2>1. num = 2 \/ num = 3 \/ num = 4 \/ num = 5
      OBVIOUS
    <2>2. CASE num = 2
      <3>1. SetPayloadField(p, num, n) = (IF c.err # "nil" THEN c ELSE Ok([p EXCEPT !.version = c.value]))
        BY <2>2 DEF SetPayloadField, Then
      <3> HIDE DEF c
      <3> QED BY <1>2, <3>1, Zenon
    <2>3. CASE num = 3
      <3>1. SetPayloadField(p, num, n) = (IF c.err # "nil" THEN c ELSE Ok([p EXCEPT !.batchSize = c.value]))
        BY <2>3 DEF SetPayloadField, Then
      <3> HIDE DEF c
      <3> QED BY <1>2, <3>1, Zenon
    <2>4. CASE num = 4
      <3>1. SetPayloadField(p, num, n) = (IF c.err # "nil" THEN c ELSE Ok([p EXCEPT !.batchIndex = c.value]))
        BY <2>4 DEF SetPayloadField, Then
      <3> HIDE DEF c
      <3> QED BY <1>2, <3>1, Zenon
    <2>5. CASE num = 5
      <3>1. SetPayloadField(p, num, n) = (IF c.err # "nil" THEN c ELSE Ok([p EXCEPT !.batchID = c.value]))
        BY <2>5 DEF SetPayloadField, Then
      <3> HIDE DEF c
      <3> QED BY <1>2, <3>1, Zenon
    <2> QED BY <2>1, <2>2, <2>3, <2>4, <2>5
  <1> QED BY <1>2, <1>4

(* What is written for an option; a negative one is beyond an int32. *)
LEMMA OptionNumber ==
    ASSUME NEW n \in Int32
    PROVE  /\ n >= 0 => Uint64(n) = n /\ n \in 0 .. MaxInt32
           /\ n < 0 => Uint64(n) > MaxInt32
  <1> DEFINE M == MaxUint64
             m == MaxInt32
  <1>1. M \in Nat /\ m \in Nat /\ 2 * m < M /\ n \in Int /\ -m - 1 <= n /\ n <= m
    BY WidthsAssumption DEF Int32
  <1>2. Uint64(n) = n % (M + 1)
    BY DEF Uint64
  <1> HIDE DEF M, m
  <1>3. CASE n >= 0
    BY <1>1, <1>2, <1>3 DEF m
  <1>4. CASE n < 0
    <2>1. n + (M + 1) \in 0 .. M /\ n + (M + 1) > m
      BY <1>1, <1>4
    <2>2. n % (M + 1) = n + (M + 1)
      BY <1>1, <1>4, <2>1
    <2>3. ~ (n >= 0) /\ Uint64(n) > m
      BY <1>1, <1>2, <1>4, <2>1, <2>2
    <2> QED BY <2>3, Zenon DEF M, m
  <1> QED BY <1>1, <1>3, <1>4

(* An error if there is a reason for one, else the payload p. *)
After(R, bad, p) == IF bad THEN R.err # "nil" ELSE R = Ok(p)

(* A negative option is a reason. *)
OrNegative(bad, n) == bad \/ n < 0

(* The option n, where it is not negative, makes q of the payload p. *)
Sets(p, num, n, q) ==
    (n = 0 => q = p) /\ (n >= 0 => SetPayloadField(p, num, n) = Ok(q))

(* So it does with each of the options. *)
LEMMA OptionsAreSet ==
    ASSUME NEW a, NEW v, NEW s, NEW i, NEW n \in Int32
    PROVE  /\ Sets(Payload(a, v, 0, 0, 0), 3, n, Payload(a, v, n, 0, 0))
           /\ Sets(Payload(a, v, s, 0, 0), 4, n, Payload(a, v, s, n, 0))
           /\ Sets(Payload(a, v, s, i, 0), 5, n, Payload(a, v, s, i, n))
  <1>1. CASE ~ (n >= 0)
    <2>1. n # 0
      BY <1>1
    <2> QED BY <1>1, <2>1, Zenon DEF Sets
  <1>2. CASE n >= 0
    <2>1. n \in 0 .. MaxInt32
      BY <1>2, OptionNumber, Zenon
    <2>2. SetPayloadField(Payload(a, v, 0, 0, 0), 3, n) = Ok(Payload(a, v, n, 0, 0))
      BY <2>1, OptionsSet
    <2>3. SetPayloadField(Payload(a, v, s, 0, 0), 4, n) = Ok(Payload(a, v, s, n, 0))
      BY <2>1, OptionsSet
    <2>4. SetPayloadField(Payload(a, v, s, i, 0), 5, n) = Ok(Payload(a, v, s, i, n))
      BY <2>1, OptionsSet
    <2> QED BY <2>2, <2>3, <2>4, Zenon DEF Sets
  <1> QED BY <1>1, <1>2

(* An option is read back, or refused because it is negative. *)
LEMMA OptionAlso ==
    ASSUME NEW x \in Seq(Byte), NEW data, NEW R, Also(x, data, R), NEW num \in 3 .. 5, NEW n \in Int32,
           NEW bad \in BOOLEAN, NEW p, NEW q, After(R, bad, p),
           Sets(p, num, n, q)
    PROVE  \E S : Also(x, Cat(data, OptionWritten(num, n)), S) /\ After(S, OrNegative(bad, n), q)
  <1>0. n \in Int /\ MaxUint64 \in Nat /\ MaxInt32 \in Nat
    BY WidthsAssumption DEF Int32
  <1>1. CASE n = 0
    <2>1. OptionWritten(num, n) = <<>>
      BY <1>1, Zenon DEF OptionWritten
    <2>2. data \in Seq(Byte)
      BY DEF Also
    <2>3. Cat(data, <<>>) = data
      BY <2>2, ConcatEmptySeq DEF Cat
    <2>4. Also(x, Cat(data, OptionWritten(num, n)), R)
      BY <2>1, <2>3, Zenon
    <2>5. ~ (n < 0) /\ q = p
      <3>1. ~ (n < 0)
        BY <1>1
      <3> QED BY <1>1, <3>1, Zenon DEF Sets
    <2>6. After(R, OrNegative(bad, n), q)
      BY <2>5, Zenon DEF After, OrNegative
    <2> QED BY <2>4, <2>6
  <1>2. CASE n # 0
    <2> DEFINE u == Uint64(n)
               f == [num |-> num, wire |-> 0, value |-> u]
               w == OptionWritten(num, n)
               S == IF R.err # "nil" THEN R ELSE SetPayloadField(R.value, num, u)
    <2>1. u \in 0 .. MaxUint64
      <3>1. num \in 1 .. 7
        OBVIOUS
      <3> QED BY <3>1, OptionTyped
    <2>2. num \in 2 .. 5 /\ num \in 1 .. 7
      OBVIOUS
    <2>3. f \in PayloadFields /\ Written(f) = AppendProtoVarintField(num, u)
      BY <2>1, <2>2, FieldTyped, PayloadFieldTyped
    <2>4. w = AppendProtoVarintField(num, u)
      BY <1>2, Zenon DEF OptionWritten
    <2>5. f.num = num /\ f.value = u
      OBVIOUS
    <2> HIDE DEF f, w
    <2>6. Also(x, Cat(data, w), S)
      BY <2>3, <2>4, <2>5, AlsoField, Zenon
    <2>7. After(S, OrNegative(bad, n), q)
      <3>0. \A y : Ok(y).err = "nil" /\ Ok(y).value = y
        BY DEF Ok
      <3>1. CASE R.err # "nil"
        <4>1. bad
          BY <3>0, <3>1, Zenon DEF After
        <4>2. S.err # "nil"
          BY <3>1
        <4> QED BY <4>1, <4>2, Zenon DEF After, OrNegative
      <3>2. CASE R.err = "nil"
        <4>1. ~ bad /\ R = Ok(p)
          BY <3>2, Zenon DEF After
        <4>2. R.value = p
          BY <3>0, <4>1, Zenon
        <4>3. S = SetPayloadField(p, num, u)
          BY <3>2, <4>2, Zenon
        <4> HIDE DEF S
        <4>4. CASE n < 0
          <5>2. u > MaxInt32
            BY <4>4, OptionNumber, Zenon
          <5> HIDE DEF u
          <5>3. SetPayloadField(p, num, u).err # "nil"
            BY <2>1, <2>2, <5>2, OptionRefused
          <5> QED BY <4>3, <4>4, <5>3, Zenon DEF After, OrNegative
        <4>5. CASE ~ (n < 0)
          <5>1. n >= 0
            BY <1>0, <4>5
          <5>2. u = n
            BY <5>1, OptionNumber, Zenon
          <5>3. S = Ok(q)
            BY <4>3, <5>1, <5>2, Zenon DEF Sets
          <5> QED BY <4>1, <4>5, <5>3, Zenon DEF After, OrNegative
        <4> QED BY <4>4, <4>5
      <3> QED BY <3>1, <3>2
    <2> HIDE DEF S
    <2> QED BY <2>6, <2>7 DEF w
  <1> QED BY <1>1, <1>2

(* What the importer makes of an account that the exporter wrote. *)
Reread(a) == DecodeMigrationAccount(EncodeMigrationAccount(a).value)

SomeFails(s, n) == \E j \in 1 .. n : Reread(s[j]).err # "nil"

RereadAll(s, n) == [j \in 1 .. n |-> Reread(s[j]).value]

(* The accounts are read in their order. *)
LEMMA AccountsAlso ==
    ASSUME NEW e \in Exports, \A i \in 1 .. Len(e.accounts) : EncodeMigrationAccount(e.accounts[i]).err = "nil",
           NEW x, Extra(x, 7)
    PROVE  \E R : /\ Also(x, FlattenSeq(AccountsWritten(e.accounts)), R)
                  /\ After(R, SomeFails(e.accounts, Len(e.accounts)),
                           Payload(RereadAll(e.accounts, Len(e.accounts)), 0, 0, 0, 0))
  <1> DEFINE s == e.accounts
             n == Len(s)
             w == AccountsWritten(s)
             m(i) == EncodeMigrationAccount(s[i]).value
             p(i) == Payload(RereadAll(s, i), 0, 0, 0, 0)
             fld(i) == [num |-> 1, wire |-> 2, value |-> m(i)]
  <1>1. s \in Seq(Accounts) /\ \A i \in 1 .. n : m(i) \in Str
    BY ExportTyped
  <1>2. n \in Nat /\ DOMAIN s = 1 .. n
    BY <1>1, LenProperties
  <1>3. w \in Seq(Seq(Byte)) /\ w \in Seq(Seq(Char)) /\ Len(w) = n
    <2>1. w \in Seq(Seq(Byte))
      BY PayloadTyped
    <2>2. Seq(Byte) \subseteq Seq(Char)
      BY SeqMonotone, EncodedTyped
    <2>3. DOMAIN w = 1 .. n
      BY <1>2 DEF AccountsWritten
    <2> HIDE DEF w
    <2> QED BY <1>2, <2>1, <2>2, <2>3, SeqMonotone, LenProperties
  <1>4. \A i \in 1 .. n : /\ w[i] = Written(fld(i)) /\ fld(i) \in PayloadFields
                          /\ fld(i).num = 1 /\ fld(i).value = m(i)
    <2> SUFFICES ASSUME NEW i \in 1 .. n PROVE w[i] = Written(fld(i)) /\ fld(i) \in PayloadFields
                                               /\ fld(i).num = 1 /\ fld(i).value = m(i)
      OBVIOUS
    <2>1. w[i] = AppendProtoBytesField(1, m(i))
      BY <1>2 DEF AccountsWritten
    <2>2. m(i) \in Str /\ 1 \in 1 .. 7
      BY <1>1
    <2> HIDE DEF m, w
    <2>3. Written(fld(i)) = AppendProtoBytesField(1, m(i))
      BY <2>2, FieldTyped
    <2> QED BY <2>1, <2>2, <2>3, PayloadFieldTyped
  <1>5. PICK f \in [0 .. n -> Seq(Char)] :
              /\ f[0] = <<>> /\ FlattenSeq(w) = f[n]
              /\ \A i \in 1 .. n : f[i] = Cat(f[i - 1], w[i])
    <2> HIDE DEF w, n
    <2> QED BY <1>3, FlattenTurns
  <1>6. x \in Seq(Byte) /\ Also(x, <<>>, Ok(NewPayload))
    BY AlsoNothing
  <1>7. Ok(NewPayload) = Ok(p(0)) /\ ~ SomeFails(s, 0)
    <2>1. RereadAll(s, 0) = <<>>
      BY DEF RereadAll
    <2> HIDE DEF s
    <2> QED BY <2>1 DEF NewPayload, Payload, SomeFails
  <1>8. ASSUME NEW i \in Nat, i + 1 \in 1 .. n
        PROVE  LET a == Reread(s[i + 1])
               IN  /\ SetPayloadField(p(i), 1, m(i + 1)) = IF a.err # "nil" THEN a ELSE Ok(p(i + 1))
                   /\ SomeFails(s, i + 1) <=> (SomeFails(s, i) \/ a.err # "nil")
    <2> DEFINE a == Reread(s[i + 1])
    <2>1. a = DecodeMigrationAccount(m(i + 1))
      BY DEF Reread
    <2> HIDE DEF m, s
    <2>2. SetPayloadField(p(i), 1, m(i + 1)) =
             IF a.err # "nil" THEN a ELSE Ok([p(i) EXCEPT !.accounts = Append(p(i).accounts, a.value)])
      <3> HIDE DEF p, a
      <3> QED BY <2>1 DEF SetPayloadField, Then
    <2>3. p(i).accounts = RereadAll(s, i)
      BY DEF Payload
    <2>4. Append(RereadAll(s, i), a.value) = RereadAll(s, i + 1)
      <3> DEFINE l == RereadAll(s, i)
                 r == RereadAll(s, i + 1)
                 V == {Reread(s[j]).value : j \in 1 .. i + 1}
                 t == Append(l, a.value)
      <3>1. l \in [1 .. i -> V] /\ r \in [1 .. i + 1 -> V] /\ a.value \in V
        BY DEF RereadAll
      <3>2. /\ \A j \in 1 .. i : l[j] = r[j]
            /\ r[i + 1] = a.value
        BY DEF RereadAll
      <3> HIDE DEF l, r, V
      <3>3. l \in Seq(V) /\ r \in Seq(V) /\ Len(l) = i /\ Len(r) = i + 1
        <4>1. i + 1 \in Nat
          OBVIOUS
        <4>2. l \in Seq(V) /\ r \in Seq(V)
          BY <3>1, <4>1, SeqDef
        <4>3. DOMAIN l = 1 .. i /\ DOMAIN r = 1 .. i + 1
          BY <3>1
        <4> QED BY <4>1, <4>2, <4>3, LenProperties
      <3> HIDE DEF a
      <3>4. t \in Seq(V) /\ Len(t) = i + 1 /\ t[i + 1] = a.value /\ \A j \in 1 .. i : t[j] = l[j]
        BY <3>1, <3>3, AppendProperties
      <3> HIDE DEF t
      <3>5. \A j \in 1 .. i + 1 : t[j] = r[j]
        BY <3>2, <3>4
      <3>6. t = r
        BY <3>3, <3>4, <3>5, SeqEqual
      <3> QED BY <3>6 DEF t, l, r
    <2>5. [p(i) EXCEPT !.accounts = Append(p(i).accounts, a.value)] = p(i + 1)
      <3>1. ASSUME NEW l PROVE [p(i) EXCEPT !.accounts = l] = Payload(l, 0, 0, 0, 0)
        BY DEF Payload
      <3> HIDE DEF a
      <3> QED BY <2>3, <2>4, <3>1, Zenon
    <2>6. SomeFails(s, i + 1) <=> (SomeFails(s, i) \/ a.err # "nil")
      <3>1. \A j : j \in 1 .. i + 1 <=> (j \in 1 .. i \/ j = i + 1)
        OBVIOUS
      <3> QED BY <3>1, Zenon DEF SomeFails
    <2> HIDE DEF p, a
    <2> QED BY <2>2, <2>5, <2>6, Zenon DEF a
  <1> HIDE DEF w, n, m, p
  <1> DEFINE Got(i) == \E R : Also(x, f[i], R) /\ After(R, SomeFails(s, i), p(i))
             At == {i \in Nat : i <= n => Got(i)}
  <1>9. 0 \in At
    <2>1. After(Ok(NewPayload), SomeFails(s, 0), p(0))
      BY <1>7, Zenon DEF After
    <2>2. Got(0)
      BY <1>5, <1>6, <2>1, Zenon
    <2> HIDE DEF Got
    <2> QED BY <2>2
  <1>10. ASSUME NEW i \in Nat, i \in At PROVE i + 1 \in At
    <2>1. SUFFICES ASSUME i + 1 <= n PROVE Got(i + 1)
      <3> HIDE DEF Got
      <3> QED OBVIOUS
    <2>2. i <= n /\ i + 1 \in 1 .. n /\ (i + 1) - 1 = i
      BY <1>2, <2>1
    <2>3. Got(i)
      <3> HIDE DEF Got
      <3> QED BY <1>10, <2>2
    <2>4. PICK R : Also(x, f[i], R) /\ After(R, SomeFails(s, i), p(i))
      BY <2>3, Zenon
    <2> DEFINE a == Reread(s[i + 1])
               S == IF R.err # "nil" THEN R ELSE SetPayloadField(R.value, 1, m(i + 1))
    <2>5. f[i + 1] = Cat(f[i], w[i + 1])
      BY <1>5, <2>2
    <2>6. Also(x, f[i + 1], S)
      <3> DEFINE g == fld(i + 1)
      <3>1. w[i + 1] = Written(g) /\ g \in PayloadFields /\ g.num = 1 /\ g.value = m(i + 1)
        BY <1>4, <2>2
      <3> HIDE DEF g
      <3> QED BY <1>6, <2>4, <2>5, <3>1, AlsoField, Zenon
    <2>7. /\ SetPayloadField(p(i), 1, m(i + 1)) = IF a.err # "nil" THEN a ELSE Ok(p(i + 1))
          /\ SomeFails(s, i + 1) <=> (SomeFails(s, i) \/ a.err # "nil")
      BY <1>8, <2>2
    <2>8. \A y : Ok(y).err = "nil" /\ Ok(y).value = y
      BY DEF Ok
    <2>9. After(S, SomeFails(s, i + 1), p(i + 1))
      <3> HIDE DEF a
      <3>1. CASE SomeFails(s, i)
        BY <2>4, <2>7, <3>1, Zenon DEF After
      <3>2. CASE ~ SomeFails(s, i)
        <4>1. R = Ok(p(i))
          BY <2>4, <3>2, Zenon DEF After
        <4>2. R.err = "nil" /\ R.value = p(i)
          BY <2>8, <4>1, Zenon
        <4>3. S = IF a.err # "nil" THEN a ELSE Ok(p(i + 1))
          BY <2>7, <4>2, Zenon
        <4> QED BY <2>7, <3>2, <4>3, Zenon DEF After
      <3> QED BY <3>1, <3>2
    <2> HIDE DEF S
    <2> QED BY <2>6, <2>9, Zenon
  <1>11. n \in At
    <2> HIDE DEF At
    <2> QED BY <1>2, <1>9, <1>10, InductionOnSet
  <1>12. Got(n)
    <2> HIDE DEF Got
    <2> QED BY <1>2, <1>11
  <1> QED BY <1>5, <1>12, Zenon DEF w, n, p

(* Why an import may fail. *)
Refused(e) ==
    \/ SomeFails(e.accounts, Len(e.accounts))
    \/ e.opts.batchSize < 0 \/ e.opts.batchIndex < 0 \/ e.opts.batchID < 0

(* What it yields when nothing is refused. *)
PayloadRead(e) ==
    Payload(RereadAll(e.accounts, Len(e.accounts)), VersionOf(e.opts),
            e.opts.batchSize, e.opts.batchIndex, e.opts.batchID)

(* A payload is read as the accounts and the options that were written. *)
LEMMA ExportAlso ==
    ASSUME NEW e \in Exports, \A i \in 1 .. Len(e.accounts) : EncodeMigrationAccount(e.accounts[i]).err = "nil",
           NEW x, Extra(x, 7)
    PROVE  \E R : Also(x, PayloadWritten(e), R) /\ After(R, Refused(e), PayloadRead(e))
  <1> DEFINE A == RereadAll(e.accounts, Len(e.accounts))
             b0 == SomeFails(e.accounts, Len(e.accounts))
             v == VersionOf(e.opts)
             n3 == e.opts.batchSize
             n4 == e.opts.batchIndex
             n5 == e.opts.batchID
             x1 == FlattenSeq(AccountsWritten(e.accounts))
             x2 == Cat(x1, AppendProtoVarintField(2, v))
             x3 == Cat(x2, OptionWritten(3, n3))
             x4 == Cat(x3, OptionWritten(4, n4))
             x5 == Cat(x4, OptionWritten(5, n5))
             b3 == OrNegative(b0, n3)
             b4 == OrNegative(b3, n4)
             b5 == OrNegative(b4, n5)
  <1>0. x \in Seq(Byte)
    BY AlsoNothing
  <1>1. PICK R1 : Also(x, x1, R1) /\ After(R1, b0, Payload(A, 0, 0, 0, 0))
    BY AccountsAlso
  <1>2. n3 \in Int32 /\ n4 \in Int32 /\ n5 \in Int32 /\ v \in 0 .. MaxUint64 /\ v \in 0 .. MaxInt32
    BY ExportTyped, PayloadTyped
  <1>3. PayloadWritten(e) = x5
    BY Zenon DEF PayloadWritten, Cat
  <1>4. PayloadRead(e) = Payload(A, v, n3, n4, n5) /\ (Refused(e) <=> b5)
    BY Zenon DEF PayloadRead, Refused, OrNegative
  <1>5. b0 \in BOOLEAN /\ b3 \in BOOLEAN /\ b4 \in BOOLEAN
    BY Zenon DEF SomeFails, OrNegative
  <1> HIDE DEF A, b0, v, n3, n4, n5, x1
  <1>6. PICK R2 : Also(x, x2, R2) /\ After(R2, b0, Payload(A, v, 0, 0, 0))
    <2> DEFINE f == [num |-> 2, wire |-> 0, value |-> v]
               p == Payload(A, 0, 0, 0, 0)
               S == IF R1.err # "nil" THEN R1 ELSE SetPayloadField(R1.value, 2, v)
    <2>1. 2 \in 2 .. 5 /\ 2 \in 1 .. 7
      OBVIOUS
    <2>2. f \in PayloadFields /\ Written(f) = AppendProtoVarintField(2, v)
      BY <1>2, <2>1, FieldTyped, PayloadFieldTyped
    <2>3. f.num = 2 /\ f.value = v
      OBVIOUS
    <2> HIDE DEF f
    <2>4. Also(x, x2, S)
      BY <1>0, <1>1, <2>2, <2>3, AlsoField, Zenon
    <2>5. SetPayloadField(p, 2, v) = Ok(Payload(A, v, 0, 0, 0))
      BY <1>2, OptionsSet
    <2>6. Ok(p).err = "nil" /\ Ok(p).value = p
      BY DEF Ok
    <2> HIDE DEF p
    <2>7. After(R1, b0, p)
      BY <1>1 DEF p
    <2>8. After(S, b0, Payload(A, v, 0, 0, 0))
      <3>1. CASE b0
        BY <2>7, <3>1, Zenon DEF After
      <3>2. CASE ~ b0
        BY <2>5, <2>6, <2>7, <3>2, Zenon DEF After
      <3> QED BY <3>1, <3>2
    <2> HIDE DEF S, x2
    <2> QED BY <2>4, <2>8, Zenon
  <1> HIDE DEF x2
  <1>z. 3 \in 3 .. 5 /\ 4 \in 3 .. 5 /\ 5 \in 3 .. 5
    OBVIOUS
  <1>7. PICK R3 : Also(x, x3, R3) /\ After(R3, b3, Payload(A, v, n3, 0, 0))
    <2> DEFINE p == Payload(A, v, 0, 0, 0)
               q == Payload(A, v, n3, 0, 0)
    <2>1. Sets(p, 3, n3, q)
      BY <1>2, OptionsAreSet, Zenon
    <2> HIDE DEF p, q, b3
    <2>3. After(R2, b0, p)
      BY <1>6 DEF p
    <2>4. \E S : Also(x, Cat(x2, OptionWritten(3, n3)), S) /\ After(S, OrNegative(b0, n3), q)
      BY <1>0, <1>2, <1>5, <1>6, <1>z, <2>1, <2>3, OptionAlso
    <2> QED BY <2>4 DEF q, b3
  <1> HIDE DEF x3, b3
  <1>8. PICK R4 : Also(x, x4, R4) /\ After(R4, b4, Payload(A, v, n3, n4, 0))
    <2> DEFINE p == Payload(A, v, n3, 0, 0)
               q == Payload(A, v, n3, n4, 0)
    <2>1. Sets(p, 4, n4, q)
      BY <1>2, OptionsAreSet, Zenon
    <2> HIDE DEF p, q, b4
    <2>3. After(R3, b3, p)
      BY <1>7 DEF p
    <2>4. \E S : Also(x, Cat(x3, OptionWritten(4, n4)), S) /\ After(S, OrNegative(b3, n4), q)
      BY <1>0, <1>2, <1>5, <1>7, <1>z, <2>1, <2>3, OptionAlso
    <2> QED BY <2>4 DEF q, b4
  <1> HIDE DEF x4, b4
  <1>9. PICK R5 : Also(x, x5, R5) /\ After(R5, b5, Payload(A, v, n3, n4, n5))
    <2> DEFINE p == Payload(A, v, n3, n4, 0)
               q == Payload(A, v, n3, n4, n5)
    <2>1. Sets(p, 5, n5, q)
      BY <1>2, OptionsAreSet, Zenon
    <2> HIDE DEF p, q, b5
    <2>3. After(R4, b4, p)
      BY <1>8 DEF p
    <2>4. \E S : Also(x, Cat(x4, OptionWritten(5, n5)), S) /\ After(S, OrNegative(b4, n5), q)
      BY <1>0, <1>2, <1>5, <1>8, <1>z, <2>1, <2>3, OptionAlso
    <2> QED BY <2>4 DEF q, b5
  <1> HIDE DEF x5, b5
  <1>10. After(R5, Refused(e), PayloadRead(e))
    BY <1>4, <1>9, Zenon DEF After
  <1> QED BY <1>3, <1>9, <1>10, Zenon

(* The exporter writes no empty payload. *)
LEMMA PayloadNotEmpty ==
    ASSUME NEW e \in Exports, \A i \in 1 .. Len(e.accounts) : EncodeMigrationAccount(e.accounts[i]).err = "nil"
    PROVE  PayloadWritten(e) # <<>> /\ RawURLEncoding(PayloadWritten(e)) # <<>>
  <1> DEFINE v == VersionOf(e.opts)
             x1 == FlattenSeq(AccountsWritten(e.accounts))
             x2 == AppendProtoVarintField(2, v)
             x3 == OptionWritten(3, e.opts.batchSize)
             x4 == OptionWritten(4, e.opts.batchIndex)
             x5 == OptionWritten(5, e.opts.batchID)
             y == PayloadWritten(e)
  <1>0. 2 \in 1 .. 7 /\ 3 \in 1 .. 7 /\ 4 \in 1 .. 7 /\ 5 \in 1 .. 7
    OBVIOUS
  <1>1. x1 \in Seq(Byte) /\ v \in 0 .. MaxUint64 /\ y \in Seq(Byte)
    BY PayloadTyped
  <1>2. x2 \in Seq(Byte) /\ Len(x2) \in Nat \ {0}
    <2> DEFINE f == [num |-> 2, wire |-> 0, value |-> v]
    <2>1. f \in WireFields /\ Written(f) = x2
      BY <1>0, <1>1, FieldTyped
    <2> HIDE DEF f, x2
    <2> QED BY <2>1, FieldReadBack
  <1>3. e.opts.batchSize \in Int32 /\ e.opts.batchIndex \in Int32 /\ e.opts.batchID \in Int32
    BY ExportTyped
  <1>4. x3 \in Seq(Byte) /\ x4 \in Seq(Byte) /\ x5 \in Seq(Byte)
    BY <1>0, <1>3, OptionTyped
  <1>5. y = x1 \o x2 \o x3 \o x4 \o x5
    BY DEF PayloadWritten
  <1> HIDE DEF x1, x2, x3, x4, x5, y
  <1>6. (x1 \o x2) \in Seq(Byte) /\ Len(x1 \o x2) = Len(x1) + Len(x2)
    BY <1>1, <1>2, ConcatProperties
  <1>7. (x1 \o x2 \o x3) \in Seq(Byte) /\ Len(x1 \o x2 \o x3) = Len(x1 \o x2) + Len(x3)
    BY <1>4, <1>6, ConcatProperties
  <1>8. (x1 \o x2 \o x3 \o x4) \in Seq(Byte) /\ Len(x1 \o x2 \o x3 \o x4) = Len(x1 \o x2 \o x3) + Len(x4)
    BY <1>4, <1>7, ConcatProperties
  <1>9. Len(x1 \o x2 \o x3 \o x4 \o x5) = Len(x1 \o x2 \o x3 \o x4) + Len(x5)
    BY <1>4, <1>8, ConcatProperties
  <1>10. Len(x1) \in Nat /\ Len(x3) \in Nat /\ Len(x4) \in Nat /\ Len(x5) \in Nat
    BY <1>1, <1>4
  <1>11. Len(y) > 0
    BY <1>2, <1>5, <1>6, <1>7, <1>8, <1>9, <1>10
  <1>12. y # <<>>
    BY <1>11
  <1>13. RawURLEncoding(y) # <<>>
    BY <1>1, <1>12, TextNotEmpty
  <1> QED BY <1>12, <1>13 DEF y

(* Whatever unknown field precedes or follows it, an account is completed   *)
(* from what was written.                                                   *)
LEMMA AccountReread ==
    ASSUME NEW a \in Accounts, MigrationName(a) \in Str, EncodeMigrationAccount(a).err = "nil",
           NEW x, Extra(x, 7)
    PROVE  /\ DecodeMigrationAccount(EncodeMigrationAccount(a).value \o x) = Complete(AccountRead(a))
           /\ DecodeMigrationAccount(x \o EncodeMigrationAccount(a).value) = Complete(AccountRead(a))
           /\ Reread(a) = Complete(AccountRead(a))
  <1> DEFINE m == AccountMessage(a)
             r == AccountRead(a)
  <1>1. EncodeMigrationAccount(a).value = m
    <2>1. EncodeMigrationAccount(a) = Ok(m)
      BY AccountEncoded
    <2> HIDE DEF m
    <2> QED BY <2>1 DEF Ok
  <1>2. m \in Seq(Byte)
    BY AccountWritten
  <1>3. \A y \in {x, <<>>} : y \in Seq(Byte) /\ Extra(y, 7)
    BY ExtraWritten DEF Extra
  <1>4. ReadFields(m \o x) = Ok(r) /\ ReadFields(x \o m) = Ok(r) /\ ReadFields(m) = Ok(r)
    <2>1. ReadFields(<<>> \o (m \o x)) = Ok(r) /\ ReadFields(x \o (m \o <<>>)) = Ok(r)
          /\ ReadFields(<<>> \o (m \o <<>>)) = Ok(r)
      BY <1>3, AccountReadBack
    <2>2. m \o <<>> = m /\ <<>> \o m = m /\ <<>> \o (m \o x) = m \o x
      <3> HIDE DEF m
      <3> QED BY <1>2, <1>3, ConcatProperties, ConcatEmptySeq
    <2> HIDE DEF m, r
    <2> QED BY <2>1, <2>2
  <1> HIDE DEF m, r
  <1>5. ASSUME NEW data, ReadFields(data) = Ok(r) PROVE DecodeMigrationAccount(data) = Complete(r)
    <2>1. DecodeMigrationAccount(data) =
             IF ReadFields(data).err # "nil" THEN ReadFields(data) ELSE Complete(ReadFields(data).value)
      BY Zenon DEF DecodeMigrationAccount, ReadFields, Then
    <2>2. ReadFields(data).err = "nil" /\ ReadFields(data).value = r
      BY <1>5 DEF Ok
    <2> QED BY <2>1, <2>2, Zenon
  <1>6. /\ DecodeMigrationAccount(m \o x) = Complete(r) /\ DecodeMigrationAccount(x \o m) = Complete(r)
        /\ DecodeMigrationAccount(m) = Complete(r)
    BY <1>4, <1>5
  <1> QED BY <1>1, <1>6, Zenon DEF Reread, r

(* The credentials' secret is what the exporter decoded. *)
LEMMA SecretCredential ==
    ASSUME NEW a \in Accounts, EncodeMigrationAccount(a).err = "nil"
    PROVE  Credentials(a).secret = SecretOf(a).dst
  <1> DEFINE b == a.secretB32
             s == NormalizeBase32Secret(b)
             room == (Len(s) * 5) \div 8 + 1
  <1>1. b \in Seq(Byte) /\ Len(b) \in Nat
    BY DEF Accounts, Str
  <1>2. s \in Seq(Byte) /\ Len(s) <= Len(b) /\ Len(s) \in Nat
    BY <1>1, NormalizedNoLonger
  <1>3. SecretOf(a) = DecodeBase32(room, s)
    BY DEF SecretOf
  <1>4. Len(SecretOf(a).dst) <= Len(s) /\ SecretOf(a).err = "nil" /\ Len(SecretOf(a).dst) \in Nat
    <2>1. SecretOf(a).dst \in Seq(Byte)
      BY SecretTyped DEF Str
    <2> QED BY <2>1, SecretTyped, AccountEncoded
  <1>5. Credentials(a).secret = DecodeBase32(Len(b), s).dst
    BY DEF Credentials
  <1> HIDE DEF b, s
  <1>6. room \in Nat
    BY <1>2
  <1>7. DecodeBase32(room, s).err = "nil" /\ Len(DecodeBase32(room, s).dst) <= Len(b)
    <2>1. Len(SecretOf(a).dst) <= Len(b)
      BY <1>1, <1>2, <1>4
    <2> QED BY <1>3, <1>4, <2>1
  <1> HIDE DEF room
  <1>8. DecodeBase32(Len(b), s) = DecodeBase32(room, s)
    BY <1>1, <1>2, <1>6, <1>7, RoomIsEnough
  <1> QED BY <1>3, <1>5, <1>8

(* An account comes back with its credentials. *)
LEMMA CredentialsKept ==
    ASSUME NEW a \in Accounts, MigrationName(a) \in Str, EncodeMigrationAccount(a).err = "nil",
           Reread(a).err = "nil"
    PROVE  Credentials(Reread(a).value) = Credentials(a)
  <1> DEFINE r == AccountRead(a)
             d == SecretOf(a).dst
             b == EncodeBase32(d)
             n == SplitMigrationLabel(r.issuer, r.label)
             v == [r EXCEPT !.issuer = n.issuer, !.label = n.label]
             c == IF a.type = "hotp" THEN a.counter ELSE 0
  <1>1. Reread(a) = Complete(r)
    <2>1. Extra(<<>>, 7)
      BY DEF Extra
    <2> QED BY <2>1, AccountReread
  <1>2. Reread(a).value = v
    <2>1. Complete(r) = IF r.secretB32 = <<>> \/ r.label = <<>> THEN Failed("ErrInvalidMigration") ELSE Ok(v)
      BY Zenon DEF Complete
    <2>2. Failed("ErrInvalidMigration").err # "nil"
      BY DEF Failed
    <2> HIDE DEF v, r
    <2>3. Reread(a) = Ok(v)
      BY <1>1, <2>1, <2>2, Zenon
    <2> QED BY <2>3 DEF Ok
  <1>3. /\ v.secretB32 = b /\ v.type = a.type /\ v.algorithm = a.algorithm /\ v.digits = DigitsOf(a)
        /\ v.counter = c
    <2> HIDE DEF n, b, c
    <2> QED BY DEF AccountRead, Account, b, c, d
  <1>4. DecodeBase32(Len(b), NormalizeBase32Secret(b)).dst = d
    <2>1. d \in Seq(Byte)
      BY SecretTyped DEF Str
    <2> HIDE DEF d
    <2> QED BY <2>1, SecretDecodesBack
  <1>5. Credentials(a).secret = d
    BY SecretCredential
  <1>6. DigitsOf(a) # 0
    BY AccountEncoded
  <1> HIDE DEF v, b, d
  <1>7. Credentials(v) =
           [secret |-> DecodeBase32(Len(v.secretB32), NormalizeBase32Secret(v.secretB32)).dst,
            type |-> v.type, algorithm |-> v.algorithm, digits |-> IF v.digits = 0 THEN 6 ELSE v.digits,
            counter |-> IF v.type = "hotp" THEN v.counter ELSE 0]
    BY Zenon DEF Credentials
  <1>8. Credentials(v) = [secret |-> d, type |-> a.type, algorithm |-> a.algorithm, digits |-> DigitsOf(a),
                          counter |-> c]
    <2>1. (IF v.type = "hotp" THEN v.counter ELSE 0) = c
      BY <1>3
    <2>2. (IF v.digits = 0 THEN 6 ELSE v.digits) = DigitsOf(a)
      BY <1>3, <1>6, Zenon
    <2>3. DecodeBase32(Len(v.secretB32), NormalizeBase32Secret(v.secretB32)).dst = d
      BY <1>3, <1>4, Zenon
    <2> HIDE DEF c
    <2> QED BY <1>3, <1>7, <2>1, <2>2, <2>3, Zenon
  <1>9. Credentials(a) = [secret |-> d, type |-> a.type, algorithm |-> a.algorithm, digits |-> DigitsOf(a),
                          counter |-> c]
    <2> DEFINE q == DecodeBase32(Len(a.secretB32), NormalizeBase32Secret(a.secretB32)).dst
    <2>1. Credentials(a) = [secret |-> q, type |-> a.type, algorithm |-> a.algorithm, digits |-> DigitsOf(a),
                            counter |-> c]
      BY Zenon DEF Credentials, DigitsOf
    <2> HIDE DEF q, c
    <2>2. q = d
      BY <1>5, <2>1
    <2> QED BY <2>1, <2>2
  <1> QED BY <1>2, <1>8, <1>9

(* An account whose label can be told from the issuer is read back. *)
LEMMA SeparableKept ==
    ASSUME NEW a \in Accounts, MigrationName(a) \in Str, EncodeMigrationAccount(a).err = "nil", Separable(a)
    PROVE  Reread(a).err = "nil" /\ Reread(a).value.label = a.label /\ Reread(a).value.issuer = a.issuer
  <1> DEFINE r == AccountRead(a)
             name == MigrationName(a)
             d == SecretOf(a).dst
             b == EncodeBase32(d)
             n == SplitMigrationLabel(r.issuer, r.label)
             v == [r EXCEPT !.issuer = n.issuer, !.label = n.label]
             P == Prefix(a.issuer)
             l == a.label
  <1>0. /\ TrimSpace(l) = l
        /\ a.issuer = <<>> => l # <<>> /\ IndexByte(l, Colon) < 2
        /\ a.issuer # <<>> => ~ IsPrefix(P, l)
        /\ Credentials(a).secret # <<>>
    BY Zenon DEF Separable
  <1>1. Reread(a) = Complete(r)
    <2>1. Extra(<<>>, 7)
      BY DEF Extra
    <2> QED BY <2>1, AccountReread
  <1>2. r.secretB32 = b /\ r.issuer = a.issuer /\ r.label = name
    <2> HIDE DEF b, name
    <2> QED BY DEF AccountRead, Account, b, d, name
  <1>3. b # <<>>
    <2>1. d \in Seq(Byte)
      BY SecretTyped DEF Str
    <2>2. d # <<>>
      BY <1>0, SecretCredential
    <2> HIDE DEF d
    <2> QED BY <2>1, <2>2, SecretDecodesBack
  <1>4. l \in Seq(Char) /\ a.issuer \in Seq(Char)
    <2>1. Byte \subseteq Char
      BY EncodedTyped
    <2>2. l \in Seq(Byte) /\ a.issuer \in Seq(Byte)
      BY DEF Accounts, Str
    <2> QED BY <2>1, <2>2, SeqMonotone
  <1>5. name # <<>> /\ n = [issuer |-> a.issuer, label |-> l]
    <2> DEFINE s == SplitMigrationLabel(a.issuer, name)
               colon == IndexByte(name, Colon)
    <2>0. n = s
      BY <1>2, Zenon
    <2>1. s = IF a.issuer # <<>> /\ IsPrefix(P, name)
              THEN [issuer |-> a.issuer, label |-> TrimSpace(From(name, Len(a.issuer) + 2))]
              ELSE IF colon > 1
              THEN [issuer |-> TrimSpace(Before(name, colon)), label |-> TrimSpace(From(name, colon + 1))]
              ELSE [issuer |-> a.issuer, label |-> name]
      BY Zenon DEF SplitMigrationLabel
    <2>2. CASE a.issuer = <<>>
      <3>1. name = l
        BY <2>2, Zenon DEF MigrationName
      <3> DEFINE I == {i \in 1 .. Len(l) : l[i] = Colon}
      <3>2. IndexByte(l, Colon) = IF I # {} THEN Min(I) ELSE 0
        BY DEF IndexByte, SelectInSeq
      <3>3. IndexByte(l, Colon) \in Nat
        <4>1. I \in SUBSET Nat
          BY <1>4
        <4> HIDE DEF I
        <4>2. I # {} => Min(I) \in Nat
          BY <4>1, MinOfNaturals
        <4> QED BY <3>2, <4>2
      <3> HIDE DEF name
      <3>4. ~ (colon > 1)
        BY <1>0, <2>2, <3>1, <3>3
      <3> HIDE DEF colon, s
      <3> QED BY <1>0, <2>0, <2>1, <2>2, <3>1, <3>4, Zenon
    <2>3. CASE a.issuer # <<>>
      <3>1. name = Cat(P, l)
        BY <1>0, <2>3, Zenon DEF MigrationName, Cat
      <3>2. P \in Seq(Char) /\ Len(P) = Len(a.issuer) + 1 /\ Len(a.issuer) \in Nat
        <4>1. <<Colon>> \in Seq(Char) /\ Len(<<Colon>>) = 1
          BY CharRange DEF Colon
        <4>2. P = Cat(a.issuer, <<Colon>>)
          BY DEF Prefix, Cat
        <4> HIDE DEF P
        <4>3. Len(a.issuer) \in Nat
          BY <1>4
        <4> QED BY <1>4, <4>1, <4>2, <4>3, CatProperties
      <3> HIDE DEF P, name, l
      <3>3. /\ name \in Seq(Char) /\ Len(name) = Len(P) + Len(l) /\ Len(P) \in Nat /\ Len(l) \in Nat
            /\ \A k \in 0 .. Len(P) : SubSeq(name, 1, k) = SubSeq(P, 1, k)
            /\ From(name, Len(P) + 1) = l
        BY <1>4, <3>1, <3>2, TwoParts
      <3>4. IsPrefix(P, name)
        <4>1. Len(P) \in 0 .. Len(P) /\ Len(P) <= Len(name)
          BY <3>3
        <4> QED BY <3>3, <4>1 DEF IsPrefix
      <3>5. Len(a.issuer) + 2 = Len(P) + 1 /\ Len(name) > 0
        BY <3>2, <3>3
      <3>6. name # <<>>
        BY <3>5
      <3>7. TrimSpace(From(name, Len(a.issuer) + 2)) = l
        BY <1>0, <3>3, <3>5 DEF l
      <3>8. s = [issuer |-> a.issuer, label |-> TrimSpace(From(name, Len(a.issuer) + 2))]
        <4> HIDE DEF s, colon
        <4> QED BY <2>1, <2>3, <3>4, Zenon
      <3> HIDE DEF s
      <3> QED BY <2>0, <3>6, <3>7, <3>8, Zenon DEF l, name
    <2> QED BY <2>2, <2>3
  <1>6. Complete(r) = IF r.secretB32 = <<>> \/ r.label = <<>> THEN Failed("ErrInvalidMigration") ELSE Ok(v)
    BY Zenon DEF Complete
  <1>7. v.label = n.label /\ v.issuer = n.issuer
    <2> HIDE DEF n
    <2> QED BY DEF AccountRead, Account
  <1> HIDE DEF v, r, n, b, name, l
  <1>8. Reread(a) = Ok(v)
    BY <1>1, <1>2, <1>3, <1>5, <1>6, Zenon
  <1>9. Reread(a).err = "nil" /\ Reread(a).value = v
    BY <1>8 DEF Ok
  <1>10. n.label = l /\ n.issuer = a.issuer
    BY <1>5
  <1> QED BY <1>7, <1>9, <1>10 DEF l

(* What the importer makes of data that yields R. *)
LEMMA YieldOfAfter ==
    ASSUME NEW data, NEW R, Yields(data, R), Result(R)
    PROVE  ParsePayload(data) = R
  <1>1. ParsePayload(data) = IF R.err # "nil" THEN R ELSE Ok(R.value)
    BY YieldIsParsed, Zenon
  <1> QED BY <1>1, Zenon DEF Result

(* Data that was written as text is parsed. *)
LEMMA WrittenImported ==
    ASSUME NEW data \in Seq(Byte), RawURLEncoding(data) # <<>>
    PROVE  Imported(RawURLEncoding(data)) = ParsePayload(data)
  <1> DEFINE t == RawURLEncoding(data)
  <1>1. t \in Seq(0 .. 63)
    BY TextWritten
  <1>2. Bytes(t) = data /\ Len(t) % 4 # 1
    BY TextReadsBack
  <1> HIDE DEF t
  <1>3. Imported(t) = ParsePayload(Bytes(t))
    <2>1. t # <<>>
      BY DEF t
    <2> QED BY <1>1, <1>2, <2>1, TextImported
  <1> QED BY <1>2, <1>3 DEF t

(* What is imported of an export. *)
LEMMA ExportImported ==
    ASSUME NEW e \in Exports, \A i \in 1 .. Len(e.accounts) : EncodeMigrationAccount(e.accounts[i]).err = "nil"
    PROVE  After(Imported(RawURLEncoding(PayloadWritten(e))), Refused(e), PayloadRead(e))
  <1> DEFINE w == PayloadWritten(e)
  <1>1. Extra(<<>>, 7)
    BY DEF Extra
  <1>2. PICK R : Also(<<>>, w, R) /\ After(R, Refused(e), PayloadRead(e))
    BY <1>1, ExportAlso
  <1>3. w \in Seq(Byte) /\ RawURLEncoding(w) # <<>>
    BY PayloadTyped, PayloadNotEmpty
  <1> HIDE DEF w
  <1>4. Yields(w, R) /\ Result(R)
    BY <1>2, Zenon DEF Also
  <1>5. Imported(RawURLEncoding(w)) = R
    BY <1>3, <1>4, WrittenImported, YieldOfAfter
  <1> QED BY <1>2, <1>5 DEF w

(* Every import yields the accounts that were exported, in their order,     *)
(* with their credentials and the batch numbers, or an error; it yields     *)
(* them with label and issuer when those can be told apart and no batch     *)
(* number is negative.  For all accounts and options, of whatever lengths.  *)
THEOREM ImportsYieldExports == Spec => []ImportsWhatWasExported
  <1>1. JobInv => ImportsWhatWasExported
    <2>0. SUFFICES ASSUME JobInv, Doing("export"), Exported.err = "nil"
          PROVE  LET in  == job.in.accounts
                     out == Imported(Exported.value.data)
                     got == out.value.accounts
                 IN  /\ out.err = "nil" =>
                           /\ [i \in DOMAIN got |-> Credentials(got[i])]
                                 = [i \in DOMAIN in |-> Credentials(in[i])]
                           /\ Options(out.value) = Options(job.in.opts)
                     /\ (\A i \in DOMAIN in : Separable(in[i]))
                        /\ (\A i \in 1 .. 3 : Options(job.in.opts)[i] >= 0) =>
                           /\ out.err = "nil"
                           /\ \A i \in DOMAIN in :
                                 got[i].label = in[i].label /\ got[i].issuer = in[i].issuer
      BY Zenon DEF ImportsWhatWasExported
    <2>1. PICK e \in Exports : job = [kind |-> "export", in |-> e]
      BY <2>0 DEF JobInv, Doing
    <2>2. job.in = e
      BY <2>1
    <2>3. Exported = BuildOtpAuthMigrationURI(e.accounts, e.opts)
      BY <2>2, Zenon DEF Exported
    <2> DEFINE s == e.accounts
               n == Len(s)
               out == Imported(Exported.value.data)
               got == out.value.accounts
               p == PayloadRead(e)
    <2>4. /\ \A i \in 1 .. n : EncodeMigrationAccount(s[i]).err = "nil"
          /\ Exported.value.data = RawURLEncoding(PayloadWritten(e))
      BY <2>0, <2>3, ExportIs, ExportTyped
    <2>5. After(out, Refused(e), p)
      BY <2>4, ExportImported
    <2>6. /\ DOMAIN s = 1 .. n
          /\ \A i \in 1 .. n : s[i] \in Accounts /\ MigrationName(s[i]) \in Str
      <3>1. s \in Seq(Accounts)
        BY ExportTyped
      <3> QED BY <3>1, ExportTyped, LenProperties
    <2>7. /\ p.accounts = RereadAll(s, n) /\ Options(p) = Options(e.opts)
          /\ DOMAIN RereadAll(s, n) = 1 .. n
          /\ \A i \in 1 .. n : RereadAll(s, n)[i] = Reread(s[i]).value
      BY DEF PayloadRead, Payload, Options, RereadAll
    <2>8. Ok(p).err = "nil" /\ Ok(p).value = p
      BY DEF Ok
    <2> HIDE DEF out, p, n, s
    <2>9. out.err = "nil" => ~ Refused(e)
      BY <2>5, Zenon DEF After
    <2>10. ~ Refused(e) => out.err = "nil" /\ out.value = p
      BY <2>5, <2>8, Zenon DEF After
    <2>11. ASSUME ~ Refused(e)
           PROVE  /\ got = RereadAll(s, n)
                  /\ [i \in DOMAIN got |-> Credentials(got[i])] = [i \in DOMAIN s |-> Credentials(s[i])]
                  /\ Options(out.value) = Options(e.opts)
      <3>1. out.value = p /\ got = RereadAll(s, n)
        BY <2>7, <2>10, <2>11, Zenon
      <3>2. ASSUME NEW i \in 1 .. n PROVE Credentials(RereadAll(s, n)[i]) = Credentials(s[i])
        <4>1. Reread(s[i]).err = "nil"
          BY <2>11, Zenon DEF Refused, SomeFails, s, n
        <4>2. Credentials(Reread(s[i]).value) = Credentials(s[i])
          BY <2>4, <2>6, <4>1, CredentialsKept
        <4> QED BY <2>7, <4>2
      <3> HIDE DEF got
      <3>3. [i \in DOMAIN got |-> Credentials(got[i])] = [i \in DOMAIN s |-> Credentials(s[i])]
        <4>1. DOMAIN got = 1 .. n /\ DOMAIN s = 1 .. n
          BY <2>6, <2>7, <3>1, Zenon
        <4>2. \A i \in 1 .. n : Credentials(got[i]) = Credentials(s[i])
          BY <3>1, <3>2, Zenon
        <4> QED BY <4>1, <4>2
      <3> QED BY <2>7, <3>1, <3>3, Zenon
    <2>12. ASSUME \A i \in DOMAIN s : Separable(s[i]), \A i \in 1 .. 3 : Options(e.opts)[i] >= 0
           PROVE  /\ out.err = "nil"
                  /\ \A i \in DOMAIN s : got[i].label = s[i].label /\ got[i].issuer = s[i].issuer
      <3>1. ASSUME NEW i \in 1 .. n
            PROVE  /\ Reread(s[i]).err = "nil"
                   /\ Reread(s[i]).value.label = s[i].label /\ Reread(s[i]).value.issuer = s[i].issuer
        <4>1. Separable(s[i])
          BY <2>6, <2>12
        <4> QED BY <2>4, <2>6, <4>1, SeparableKept
      <3>2. ~ (e.opts.batchSize < 0) /\ ~ (e.opts.batchIndex < 0) /\ ~ (e.opts.batchID < 0)
        <4>1. e.opts.batchSize \in Int /\ e.opts.batchIndex \in Int /\ e.opts.batchID \in Int
          <5>1. Int32 \subseteq Int
            BY DEF Int32
          <5> QED BY <5>1, ExportTyped
        <4>2. Options(e.opts)[1] >= 0 /\ Options(e.opts)[2] >= 0 /\ Options(e.opts)[3] >= 0
          BY <2>12
        <4>3. e.opts.batchSize >= 0 /\ e.opts.batchIndex >= 0 /\ e.opts.batchID >= 0
          BY <4>2 DEF Options
        <4> QED BY <4>1, <4>3
      <3>3. ~ Refused(e)
        BY <3>1, <3>2, Zenon DEF Refused, SomeFails, s, n
      <3>4. got = RereadAll(s, n) /\ out.err = "nil"
        BY <2>10, <2>11, <3>3
      <3> HIDE DEF got
      <3>5. ASSUME NEW i \in DOMAIN s PROVE got[i].label = s[i].label /\ got[i].issuer = s[i].issuer
        <4>1. i \in 1 .. n
          BY <2>6
        <4> QED BY <2>7, <3>1, <3>4, <4>1
      <3> QED BY <3>4, <3>5
    <2>13. /\ out.err = "nil" =>
                 /\ [i \in DOMAIN got |-> Credentials(got[i])] = [i \in DOMAIN s |-> Credentials(s[i])]
                 /\ Options(out.value) = Options(e.opts)
           /\ (\A i \in DOMAIN s : Separable(s[i])) /\ (\A i \in 1 .. 3 : Options(e.opts)[i] >= 0) =>
                 /\ out.err = "nil"
                 /\ \A i \in DOMAIN s : got[i].label = s[i].label /\ got[i].issuer = s[i].issuer
      <3> HIDE DEF got
      <3> QED BY <2>9, <2>11, <2>12, Zenon
    <2> QED BY <2>2, <2>13, Zenon DEF out, s
  <1> QED BY <1>1, JobInvariant, PTL

(* The digits of the standard alphabet, and back. *)
StdDigit(d) == CASE d = 62 -> Plus [] d = 63 -> Solidus [] OTHER -> d

URLDigit(d) == IF d > Pad THEN d - 3 ELSE d

(* No digit is lost. *)
LEMMA DigitsAndBack ==
    ASSUME NEW d \in 0 .. 63
    PROVE  /\ StdDigit(d) \in (0 .. 61) \cup {Plus, Solidus} /\ StdDigit(d) # Pad
           /\ URLDigit(StdDigit(d)) = d /\ StdDigit(d) \in Char
           /\ StdDigit(d) \in 0 .. 63 => StdDigit(d) = d
  <1>0. \A c \in 0 .. 66 : c \in Char
    BY CharRange
  <1>1. CASE d = 62
    BY <1>0, <1>1 DEF StdDigit, URLDigit, Plus, Solidus, Pad
  <1>2. CASE d = 63
    BY <1>0, <1>2 DEF StdDigit, URLDigit, Plus, Solidus, Pad
  <1>3. CASE d \in 0 .. 61
    <2>1. StdDigit(d) = d
      BY <1>3 DEF StdDigit
    <2> QED BY <1>0, <1>3, <2>1 DEF URLDigit, Plus, Solidus, Pad
  <1> QED BY <1>1, <1>2, <1>3

(* The standard encoding of bytes is decoded as those bytes, whichever of   *)
(* the two decoders takes it.                                               *)
LEMMA StdReadsBack ==
    ASSUME NEW bytes \in Seq(Byte), bytes # <<>>
    PROVE  LET std == StdEncoding(bytes)
           IN  /\ std \in Seq(Char) /\ std # <<>> /\ DecodeDigits(std) = Ok(bytes)
               /\ \A i \in 1 .. Len(std) : std[i] # LineBreak
  <1> DEFINE t == RawURLEncoding(bytes)
             L == Len(t)
             g == [i \in 1 .. L |-> StdDigit(t[i])]
             k == (-L) % 4
             z == [i \in 1 .. k |-> Pad]
             text == Cat(g, z)
  <1>1. t \in Seq(0 .. 63) /\ Bytes(t) = bytes /\ L % 4 # 1
    BY TextWritten, TextReadsBack
  <1>2. L \in Nat /\ DOMAIN t = 1 .. L /\ \A i \in 1 .. L : t[i] \in 0 .. 63
    BY <1>1, ElementOfSeq, LenProperties
  <1>3. L # 0
    <2>1. t # <<>>
      BY TextNotEmpty
    <2> HIDE DEF t
    <2> QED BY <1>1, <2>1
  <1>4. StdEncoding(bytes) = text
    <2>1. [i \in DOMAIN t |-> CASE t[i] = 62 -> Plus [] t[i] = 63 -> Solidus [] OTHER -> t[i]] = g
      <3> HIDE DEF t
      <3> QED BY <1>2, Zenon DEF StdDigit
    <2>2. Len(g) = L
      <3> HIDE DEF t
      <3>1. \A i \in 1 .. L : StdDigit(t[i]) \in Char
        BY <1>2, DigitsAndBack
      <3>2. g \in [1 .. L -> Char] /\ DOMAIN g = 1 .. L
        BY <3>1
      <3> HIDE DEF g, L
      <3>3. g \in Seq(Char)
        BY <1>2, <3>2, SeqDef
      <3> QED BY <1>2, <3>2, <3>3, LenProperties
    <2>3. StdEncoding(bytes) =
            LET digits == [i \in DOMAIN t |-> CASE t[i] = 62 -> Plus [] t[i] = 63 -> Solidus [] OTHER -> t[i]]
            IN  digits \o [i \in 1 .. (-Len(digits)) % 4 |-> Pad]
      BY Zenon DEF StdEncoding
    <2> HIDE DEF g, t, L
    <2> QED BY <2>1, <2>2, <2>3, Zenon DEF Cat
  <1> HIDE DEF t
  <1>5. k \in 0 .. 2 /\ (L + k) % 4 = 0 /\ (k = 0 => L % 4 = 0)
    <2> HIDE DEF L
    <2>1. L % 4 \in 0 .. 3 /\ L = 4 * (L \div 4) + (L % 4) /\ L \div 4 \in Nat
      BY <1>2
    <2> DEFINE q == L \div 4
    <2>2. CASE L % 4 = 0
      <3>1. -L = 4 * (-q) /\ k = 0
        BY <1>2, <2>1, <2>2
      <3> QED BY <1>2, <2>2, <3>1
    <2>3. CASE L % 4 = 2
      <3>1. k = 2
        BY <1>2, <2>1, <2>3
      <3> QED BY <1>2, <2>3, <3>1
    <2>4. CASE L % 4 = 3
      <3>1. k = 1
        BY <1>2, <2>1, <2>4
      <3> QED BY <1>2, <2>4, <3>1
    <2> QED BY <1>1, <2>1, <2>2, <2>3, <2>4
  <1>6. g \in Seq(Char) /\ Len(g) = L /\ \A i \in 1 .. L : g[i] = StdDigit(t[i])
    <2>1. \A i \in 1 .. L : StdDigit(t[i]) \in Char
      BY <1>2, DigitsAndBack
    <2>2. g \in [1 .. L -> Char] /\ DOMAIN g = 1 .. L /\ \A i \in 1 .. L : g[i] = StdDigit(t[i])
      BY <2>1
    <2> HIDE DEF g, L
    <2>3. g \in Seq(Char)
      BY <1>2, <2>2, SeqDef
    <2> QED BY <1>2, <2>2, <2>3, LenProperties
  <1> HIDE DEF g, L, k
  <1>7. z \in Seq(Char) /\ Len(z) = k /\ \A i \in 1 .. k : z[i] = Pad
    <2>1. Pad \in Char
      BY CharRange DEF Pad
    <2>2. z \in [1 .. k -> Char] /\ DOMAIN z = 1 .. k /\ k \in Nat
      BY <1>5, <2>1
    <2>3. \A i \in 1 .. k : z[i] = Pad
      OBVIOUS
    <2> HIDE DEF z
    <2>4. z \in Seq(Char)
      BY <2>2, SeqDef
    <2> QED BY <2>2, <2>3, <2>4, LenProperties
  <1> HIDE DEF z
  <1>8. /\ text \in Seq(Char) /\ Len(text) = L + k
        /\ \A i \in 1 .. L : text[i] = g[i]
        /\ \A i \in 1 .. k : text[L + i] = Pad
        /\ From(text, L + 1) = z
    <2>1. /\ text \in Seq(Char) /\ Len(text) = Len(g) + Len(z)
          /\ \A i \in 1 .. Len(g) : text[i] = g[i]
          /\ \A i \in 1 .. Len(z) : text[Len(g) + i] = z[i]
          /\ From(text, Len(g) + 1) = z
      BY <1>6, <1>7, TwoParts
    <2> HIDE DEF text
    <2> QED BY <1>6, <1>7, <2>1
  <1>9. \A i \in 1 .. L : /\ g[i] \in (0 .. 61) \cup {Plus, Solidus} /\ g[i] # Pad
                          /\ URLDigit(g[i]) = t[i] /\ (g[i] \in 0 .. 63 => g[i] = t[i])
    <2> SUFFICES ASSUME NEW i \in 1 .. L
                 PROVE  /\ g[i] \in (0 .. 61) \cup {Plus, Solidus} /\ g[i] # Pad
                        /\ URLDigit(g[i]) = t[i] /\ (g[i] \in 0 .. 63 => g[i] = t[i])
      OBVIOUS
    <2>1. t[i] \in 0 .. 63 /\ g[i] = StdDigit(t[i])
      BY <1>2, <1>6
    <2> QED BY <2>1, DigitsAndBack, Zenon
  <1>10. UpTo(text, Pad) = g
    <2>1. z = <<>> \/ z[1] = Pad
      <3>1. CASE k = 0
        BY <1>7, <3>1
      <3>2. CASE k # 0
        <4>1. 1 \in 1 .. k
          BY <1>5, <3>2
        <4> QED BY <1>7, <4>1
      <3> QED BY <3>1, <3>2
    <2>2. UpTo(text, Pad) = UpTo(g, Pad)
      BY <1>6, <1>7, <2>1, UpToExtended
    <2>3. UpTo(g, Pad) = g
      BY <1>6, <1>9, UpToAll
    <2> QED BY <2>2, <2>3
  <1> HIDE DEF text
  <1>11. text # <<>>
    BY <1>2, <1>3, <1>5, <1>8
  <1>12. DOMAIN text = 1 .. L + k /\ DOMAIN g = 1 .. L
    BY <1>6, <1>8, LenProperties
  <1>15. \A i \in 1 .. Len(text) : text[i] # LineBreak
    <2> SUFFICES ASSUME NEW i \in 1 .. L + k PROVE text[i] # LineBreak
      BY <1>8
    <2>1. CASE i <= L
      <3>1. i \in 1 .. L
        BY <1>2, <1>5, <2>1
      <3>2. text[i] \in (0 .. 61) \cup {Plus, Solidus}
        BY <1>8, <1>9, <3>1, Zenon
      <3>3. \A c \in (0 .. 61) \cup {Plus, Solidus} : c # LineBreak
        BY DEF LineBreak, Plus, Solidus
      <3> QED BY <3>2, <3>3, Zenon
    <2>2. CASE i > L
      <3>1. i - L \in 1 .. k /\ L + (i - L) = i
        BY <1>2, <1>5, <2>2
      <3>2. text[i] = Pad
        BY <1>8, <3>1
      <3> QED BY <3>2 DEF Pad, LineBreak
    <2> QED BY <1>2, <1>5, <2>1, <2>2
  <1>13. CASE IsRawURL(text)
    <2>1. \A i \in 1 .. L + k : text[i] \in 0 .. 63
      BY <1>12, <1>13 DEF IsRawURL, ToSet
    <2>2. k = 0
      <3>1. CASE k # 0
        <4>1. 1 \in 1 .. k /\ L + 1 \in 1 .. L + k
          BY <1>2, <1>5, <3>1
        <4>2. Pad \in 0 .. 63
          BY <1>8, <2>1, <4>1
        <4> QED BY <4>2 DEF Pad
      <3> QED BY <3>1
    <2>3. \A i \in 1 .. L : text[i] = t[i]
      <3> SUFFICES ASSUME NEW i \in 1 .. L PROVE text[i] = t[i]
        OBVIOUS
      <3>1. i \in 1 .. L + k
        BY <1>2, <2>2
      <3>2. text[i] = g[i] /\ text[i] \in 0 .. 63
        BY <1>8, <2>1, <3>1
      <3> QED BY <1>9, <3>2
    <2>4. Len(text) = L /\ Len(t) = L
      BY <1>2, <1>8, <2>2 DEF L
    <2>5. t \in Seq(Char)
      <3>1. 0 .. 63 \subseteq Char
        BY CharRange
      <3> QED BY <1>1, <3>1, SeqMonotone
    <2>6. text = t
      BY <1>8, <2>3, <2>4, <2>5, SeqEqual
    <2>7. DecodeDigits(text) = Ok(Bytes(text))
      BY <1>13, Zenon DEF DecodeDigits
    <2> QED BY <1>1, <1>4, <1>8, <1>11, <1>15, <2>6, <2>7
  <1>14. CASE ~ IsRawURL(text)
    <2>1. IsStd(text)
      <3>1. Len(text) % 4 = 0 /\ Len(text) - Len(g) < 3
        BY <1>2, <1>5, <1>6, <1>8
      <3>2. ToSet(g) \subseteq (0 .. 61) \cup {Plus, Solidus}
        BY <1>9, <1>12 DEF ToSet
      <3>3. ToSet(From(text, Len(g) + 1)) \subseteq {Pad}
        <4>1. From(text, Len(g) + 1) = z /\ DOMAIN z = 1 .. k
          BY <1>6, <1>7, <1>8, LenProperties
        <4> QED BY <1>7, <4>1 DEF ToSet
      <3> QED BY <1>10, <3>1, <3>2, <3>3, Zenon DEF IsStd
    <2> DEFINE h == [i \in DOMAIN g |-> IF g[i] > Pad THEN g[i] - 3 ELSE g[i]]
    <2>2. h = t
      <3>1. h = [i \in 1 .. L |-> t[i]]
        BY <1>9, <1>12 DEF URLDigit
      <3>2. t = [i \in 1 .. L |-> t[i]]
        BY <1>1, <1>2
      <3> QED BY <3>1, <3>2, Zenon
    <2>3. DecodeDigits(text) = Ok(Bytes(h))
      BY <1>10, <1>14, <2>1, Zenon DEF DecodeDigits
    <2> HIDE DEF h
    <2> QED BY <1>1, <1>4, <1>8, <1>11, <1>15, <2>2, <2>3
  <1> QED BY <1>13, <1>14

(* Bytes in the standard encoding are parsed, also on two lines. *)
LEMMA StdImported ==
    ASSUME NEW data \in Seq(Byte), data # <<>>
    PROVE  LET std == StdEncoding(data)
           IN  /\ Imported(std) = ParsePayload(data)
               /\ \A i \in DOMAIN std : Imported(Broken(std, i)) = ParsePayload(data)
  <1> DEFINE std == StdEncoding(data)
  <1>1. std \in Seq(Char) /\ std # <<>> /\ DecodeDigits(std) = Ok(data) /\ \A i \in 1 .. Len(std) : std[i] # LineBreak
    BY StdReadsBack
  <1>2. ASSUME NEW text, text # <<>>, Unbroken(text) = std PROVE Imported(text) = ParsePayload(data)
    <2> DEFINE d == DecodeData(text)
               u == [scheme |-> "otpauth-migration", data |-> text]
    <2>1. d = Ok(data)
      BY <1>1, <1>2, Zenon DEF DecodeData
    <2>2. d.err = "nil" /\ d.value = data
      BY <2>1 DEF Ok
    <2>3. u.scheme = "otpauth-migration" /\ u.data = text
      OBVIOUS
    <2>4. Imported(text) = IF u.scheme # "otpauth-migration" THEN Failed("ErrInvalidURI")
                           ELSE IF u.data = <<>> THEN Failed("ErrInvalidMigration")
                           ELSE IF DecodeData(u.data).err # "nil" THEN DecodeData(u.data)
                           ELSE ParsePayload(DecodeData(u.data).value)
      BY Zenon DEF Imported, ParseOtpAuthMigrationURI, Then, ParsePayload
    <2> HIDE DEF u
    <2> QED BY <1>2, <2>2, <2>3, <2>4, Zenon
  <1> HIDE DEF std
  <1>3. DOMAIN std = 1 .. Len(std)
    BY <1>1, LenProperties
  <1>4. Unbroken(std) = std /\ \A i \in DOMAIN std : Unbroken(Broken(std, i)) = std /\ Broken(std, i) # <<>>
    BY <1>1, <1>3, UnbrokenText, BrokenText
  <1>5. Imported(std) = ParsePayload(data) /\ \A i \in DOMAIN std : Imported(Broken(std, i)) = ParsePayload(data)
    BY <1>1, <1>2, <1>4
  <1> QED BY <1>5 DEF std

(* What a newer exporter may add is a field with a number above 7. *)
LEMMA UnknownIsExtra ==
    ASSUME NEW x \in UnknownFields
    PROVE  Extra(x, 7)
  <1>0. ASSUME NEW num \in UnknownNum PROVE num \in Numbers /\ num > 7
    <2>1. MaxUint64 \in Nat
      BY WidthsAssumption
    <2>2. num \in Nat /\ num >= 8 /\ num <= (MaxUint64 - 2) \div 8
      BY <2>1 DEF UnknownNum
    <2>3. 8 * ((MaxUint64 - 2) \div 8) <= MaxUint64 - 2
      BY <2>1
    <2>4. 8 * num + 2 <= MaxUint64 /\ num > 7 /\ num > 0
      BY <2>1, <2>2, <2>3
    <2> QED BY <2>2, <2>4 DEF Numbers
  <1>1. CASE \E f \in NewNumbers : x = AppendProtoVarintField(f.num, f.value)
    <2>1. PICK f \in NewNumbers : x = AppendProtoVarintField(f.num, f.value)
      BY <1>1
    <2>2. f \in [num : UnknownNum, value : 0 .. MaxUint64]
      BY NewFieldsAssumption, Zenon
    <2>3. f.num \in UnknownNum /\ f.value \in 0 .. MaxUint64
      BY <2>2
    <2> DEFINE g == [num |-> f.num, wire |-> 0, value |-> f.value]
    <2>4. g \in WireFields /\ g.num > 7
      BY <1>0, <2>3 DEF WireFields
    <2>5. Written(g) = AppendProtoVarintField(f.num, f.value)
      BY DEF Written
    <2> HIDE DEF g
    <2> QED BY <2>1, <2>4, <2>5 DEF Extra
  <1>2. CASE \E f \in NewStrings : x = AppendProtoBytesField(f.num, f.value)
    <2>1. PICK f \in NewStrings : x = AppendProtoBytesField(f.num, f.value)
      BY <1>2
    <2>2. f \in [num : UnknownNum, value : Str]
      BY NewFieldsAssumption, Zenon
    <2>3. f.num \in UnknownNum /\ f.value \in Str
      BY <2>2
    <2> DEFINE g == [num |-> f.num, wire |-> 2, value |-> f.value]
    <2>4. g \in WireFields /\ g.num > 7
      BY <1>0, <2>3 DEF WireFields
    <2>5. Written(g) = AppendProtoBytesField(f.num, f.value)
      BY DEF Written
    <2> HIDE DEF g
    <2> QED BY <2>1, <2>4, <2>5 DEF Extra
  <1> QED BY <1>1, <1>2 DEF UnknownFields

(* A payload in the standard encoding, on one line or two, or with fields   *)
(* that the code does not know in front of the others or behind them, in    *)
(* the payload or in an account, is read as the payload itself.             *)
THEOREM OthersAreRead == Spec => []OtherExportersAreRead
  <1>1. JobInv => OtherExportersAreRead
    <2>0. SUFFICES ASSUME JobInv, Doing("export"), Exported.err = "nil"
          PROVE  LET bytes == Bytes(Exported.value.data)
                     whole == Imported(Exported.value.data)
                     first == EncodeMigrationAccount(job.in.accounts[1]).value
                     std   == StdEncoding(bytes)
                 IN  /\ Imported(std) = whole
                     /\ \A i \in DOMAIN std : Imported(Broken(std, i)) = whole
                     /\ \A f \in UnknownFields :
                           /\ Imported(StdEncoding(f \o bytes)) = whole
                           /\ Imported(RawURLEncoding(bytes \o f)) = whole
                           /\ job.in.accounts # <<>> =>
                                 /\ DecodeMigrationAccount(first \o f) = DecodeMigrationAccount(first)
                                 /\ DecodeMigrationAccount(f \o first) = DecodeMigrationAccount(first)
      BY Zenon DEF OtherExportersAreRead
    <2>1. PICK e \in Exports : job = [kind |-> "export", in |-> e]
      BY <2>0 DEF JobInv, Doing
    <2>2. job.in = e
      BY <2>1
    <2>3. Exported = BuildOtpAuthMigrationURI(e.accounts, e.opts)
      BY <2>2, Zenon DEF Exported
    <2> DEFINE s == e.accounts
               w == PayloadWritten(e)
               t == RawURLEncoding(w)
               first == EncodeMigrationAccount(s[1]).value
    <2>4. /\ \A i \in 1 .. Len(s) : EncodeMigrationAccount(s[i]).err = "nil"
          /\ Exported.value.data = t
      BY <2>0, <2>3, ExportIs, ExportTyped
    <2>5. w \in Seq(Byte) /\ w # <<>>
      BY <2>4, PayloadTyped, PayloadNotEmpty
    <2>6. Bytes(t) = w
      BY <2>5, TextReadsBack
    <2>7. Imported(t) = ParsePayload(w)
      <3> HIDE DEF w
      <3> QED BY <2>5, TextNotEmpty, WrittenImported
    <2>8. /\ Imported(StdEncoding(w)) = ParsePayload(w)
          /\ \A i \in DOMAIN StdEncoding(w) : Imported(Broken(StdEncoding(w), i)) = ParsePayload(w)
      BY <2>5, StdImported
    <2>9. ASSUME NEW f \in UnknownFields
          PROVE  /\ Imported(StdEncoding(Cat(f, w))) = ParsePayload(w)
                 /\ Imported(RawURLEncoding(Cat(w, f))) = ParsePayload(w)
                 /\ s # <<>> => /\ DecodeMigrationAccount(Cat(first, f)) = DecodeMigrationAccount(first)
                                /\ DecodeMigrationAccount(Cat(f, first)) = DecodeMigrationAccount(first)
      <3>1. Extra(f, 7)
        BY UnknownIsExtra
      <3>2. PICK R : Also(f, w, R)
        BY <2>4, <3>1, ExportAlso
      <3>3. f \in Seq(Byte)
        BY <3>1, AlsoNothing
      <3>4. Result(R) /\ Yields(w, R) /\ Yields(Cat(f, w), R)
        BY <3>2, Zenon DEF Also
      <3> HIDE DEF w
      <3>5. Yields(Cat(w, f), R)
        BY <2>5, <3>1, <3>4, ExtraYields
      <3>6. ParsePayload(w) = R /\ ParsePayload(Cat(w, f)) = R /\ ParsePayload(Cat(f, w)) = R
        BY <3>4, <3>5, YieldOfAfter
      <3>7. /\ Cat(w, f) \in Seq(Byte) /\ Cat(w, f) # <<>>
            /\ Cat(f, w) \in Seq(Byte) /\ Cat(f, w) # <<>>
        <4>1. /\ Cat(w, f) \in Seq(Byte) /\ Len(Cat(w, f)) = Len(w) + Len(f)
              /\ Cat(f, w) \in Seq(Byte) /\ Len(Cat(f, w)) = Len(f) + Len(w)
          BY <2>5, <3>3, ConcatProperties DEF Cat
        <4>2. Len(w) \in Nat /\ Len(f) \in Nat /\ Len(w) # 0
          BY <2>5, <3>3
        <4>3. Len(Cat(w, f)) # 0 /\ Len(Cat(f, w)) # 0
          BY <4>1, <4>2
        <4> QED BY <4>1, <4>3
      <3>8. Imported(StdEncoding(Cat(f, w))) = R
        BY <3>6, <3>7, StdImported
      <3>9. Imported(RawURLEncoding(Cat(w, f))) = R
        BY <3>6, <3>7, TextNotEmpty, WrittenImported
      <3>10. ASSUME s # <<>>
             PROVE  /\ DecodeMigrationAccount(Cat(first, f)) = DecodeMigrationAccount(first)
                    /\ DecodeMigrationAccount(Cat(f, first)) = DecodeMigrationAccount(first)
        <4>1. 1 \in 1 .. Len(s)
          <5>1. s \in Seq(Accounts)
            BY ExportTyped
          <5> HIDE DEF s
          <5> QED BY <3>10, <5>1
        <4>2. s[1] \in Accounts /\ MigrationName(s[1]) \in Str /\ EncodeMigrationAccount(s[1]).err = "nil"
          BY <2>4, <4>1, ExportTyped
        <4>3. /\ DecodeMigrationAccount(first \o f) = Complete(AccountRead(s[1]))
              /\ DecodeMigrationAccount(f \o first) = Complete(AccountRead(s[1]))
              /\ Reread(s[1]) = Complete(AccountRead(s[1]))
          BY <3>1, <4>2, AccountReread
        <4> QED BY <4>3, Zenon DEF Reread, Cat
      <3> QED BY <3>6, <3>8, <3>9, <3>10, Zenon
    <2> HIDE DEF w, first
    <2>10. /\ Imported(StdEncoding(w)) = Imported(t)
           /\ \A i \in DOMAIN StdEncoding(w) : Imported(Broken(StdEncoding(w), i)) = Imported(t)
           /\ \A f \in UnknownFields :
                 /\ Imported(StdEncoding(f \o w)) = Imported(t)
                 /\ Imported(RawURLEncoding(w \o f)) = Imported(t)
                 /\ s # <<>> => /\ DecodeMigrationAccount(first \o f) = DecodeMigrationAccount(first)
                                /\ DecodeMigrationAccount(f \o first) = DecodeMigrationAccount(first)
      BY <2>7, <2>8, <2>9, Zenon DEF Cat
    <2> QED BY <2>2, <2>4, <2>6, <2>10, Zenon DEF first
  <1> QED BY <1>1, JobInvariant, PTL
=============================================================================
