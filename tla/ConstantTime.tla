---------------------------- MODULE ConstantTime ----------------------------
(***************************************************************************)
(* The comparisons of src/constant_time.go and of src/wasm/main.go, which  *)
(* decide by bit arithmetic whether two codes or two contexts are the same.*)
(* A word is the set of the positions of its bits that are 1.              *)
(***************************************************************************)
EXTENDS Text

CONSTANT WordBits       \* bits.UintSize

ASSUME WordAssumption == WordBits \in Nat /\ WordBits >= 8

PowerOf2 == LET p[i \in 0 .. WordBits] == IF i = 0 THEN 1 ELSE 2 * p[i - 1] IN p

Bits(n) == {i \in 0 .. WordBits - 1 : (n \div PowerOf2[i]) % 2 = 1}

Xor(v, w) == (v \ w) \cup (w \ v)

(* -w: the lowest 1 stays, the bits above it are inverted. *)
Negated(w) == IF w = {} THEN {} ELSE {Min(w)} \cup ((Min(w) + 1 .. WordBits - 1) \ w)

(* Looks at the bytes only. *)
Difference_Bytes(a, b) ==
    LET at(s, i) == IF i \in DOMAIN s THEN s[i] ELSE 0
    IN  UNION {Xor(Bits(at(a, i)), Bits(at(b, i))) : i \in DOMAIN a \cup DOMAIN b}

(* The two lengths and every pair of bytes, the shorter one padded with 0. *)
Difference(a, b) ==
    LET at(s, i) == IF i \in DOMAIN s THEN s[i] ELSE 0
    IN  Xor(Bits(Len(a)), Bits(Len(b)))
          \cup UNION {Xor(Bits(at(a, i)), Bits(at(b, i))) : i \in DOMAIN a \cup DOMAIN b}

(* (diff | -diff) >> (UintSize - 1): the sign of what is not 0. *)
Nonzero(diff) == IF WordBits - 1 \in diff \cup Negated(diff) THEN 1 ELSE 0

ConstTimeEqBytes(a, b) == Nonzero(Difference(a, b)) = 0

ConstantTimeEqByteResult(a, b) == 1 - Nonzero(Difference(a, b))

(* The copy in src/wasm/main.go returns at once when the lengths differ. *)
WasmConstTimeEqBytes(a, b) ==
    /\ Len(a) = Len(b)
    /\ UNION {Xor(Bits(a[i]), Bits(b[i])) : i \in DOMAIN a} = {}

=============================================================================
