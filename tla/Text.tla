-------------------------------- MODULE Text --------------------------------
(***************************************************************************)
(* Go strings as sequences of bytes, and the functions of package strings  *)
(* that the encodings use.  A word of the library's own (the name of a     *)
(* field, a scheme) is one symbol above the bytes: it holds none of the    *)
(* characters that the encodings tell apart, and sorts as the word does.   *)
(***************************************************************************)
EXTENDS Integers, Sequences, SequencesExt

Byte == 0 .. 255

Words ==
    <<"algorithm", "counter", "device", "digits", "distance_class", "far", "geo_bucket",
      "hotp", "ip", "issuer", "nearby", "origin", "otpauth", "period", "region", "same_area",
      "secret", "session", "totp", "x-">>

Char == 0 .. 255 + Len(Words)

Word(w) == 255 + SelectInSeq(Words, LAMBDA x : x = w)

Nul     == 0
Space   == 32
Hash    == 35
Percent == 37
Amp     == 38
Slash   == 47
Colon   == 58
Equals  == 61
Query   == 63

IsSpace(c) == c = Space \/ c \in 9 .. 13

ToLower(s) == [i \in DOMAIN s |-> IF s[i] \in 65 .. 90 THEN s[i] + 32 ELSE s[i]]

TrimSpace(s) ==
    LET kept == {i \in DOMAIN s : ~ IsSpace(s[i])}
    IN  IF kept = {} THEN <<>> ELSE SubSeq(s, Min(kept), Max(kept))

(* The position of the first c, 0 if there is none. *)
IndexByte(s, c) == SelectInSeq(s, LAMBDA x : x = c)

Before(s, i) == SubSeq(s, 1, i - 1)

From(s, i) == SubSeq(s, i, Len(s))

(* s up to the first c. *)
UpTo(s, c) == IF IndexByte(s, c) = 0 THEN s ELSE Before(s, IndexByte(s, c))

(* The order of sort.Strings. *)
Less(s, t) ==
    \E i \in 1 .. Len(t) :
        /\ i = Len(s) + 1 \/ (i <= Len(s) /\ s[i] < t[i])
        /\ \A j \in 1 .. i - 1 : s[j] = t[j]

SortStrings(S) == CHOOSE s \in SetToSeqs(S) : IsSorted(s, Less)

=============================================================================
