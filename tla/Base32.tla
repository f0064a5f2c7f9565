------------------------------- MODULE Base32 -------------------------------
(***************************************************************************)
(* EncodeBase32 and DecodeBase32 of src/base32.go.                         *)
(***************************************************************************)
EXTENDS Text

-----------------------------------------------------------------------------
(* The standard library's encoders write groups of w bits, the last one     *)
(* padded with zero bits; here without padding characters.                  *)

(* Group d lies in two bytes that follow each other. *)
Digits(w, bytes) ==
    [d \in 1 .. (8 * Len(bytes) + w - 1) \div w |->
        LET bit  == w * (d - 1)
            k    == 1 + bit \div 8
            pair == 256 * bytes[k] + (IF k < Len(bytes) THEN bytes[k + 1] ELSE 0)
        IN  (pair \div 2 ^ (16 - w - (bit % 8))) % 2 ^ w]

EncodeBase32(bytes) ==
    LET digits == Digits(5, bytes)
    IN  [d \in DOMAIN digits |-> IF digits[d] < 26 THEN 65 + digits[d] ELSE 24 + digits[d]]

-----------------------------------------------------------------------------
(* ' ', '-', '=' and the ASCII spaces, which the decoder skips. *)
Skipped == {Space, 45, Equals} \cup 9 .. 13

(* The table's literal has 128 of its 256 elements; Go sets the others to 0. *)
b32Inverse(c) ==
    CASE c \in 50 .. 55  -> c - 24
      [] c \in 65 .. 90  -> c - 65
      [] c \in 97 .. 122 -> c - 97
      [] c >= 128        -> 0
      [] OTHER           -> -1

(* Keeps what fits and reports nothing. *)
NoRoom_Truncates(s) == s

NoRoom(s) == [s EXCEPT !.err = "ErrDstTooSmall"]

(* One turn of the loop over the digits: buffer (its low bits), bitsLeft,   *)
(* and dst so far.                                                          *)
DecodeDigit(room, s, c) ==
    LET v      == b32Inverse(c)
        buffer == (s.buffer * 32 + v) % 2 ^ 15
        bits   == s.bitsLeft + 5
    IN  IF s.err # "nil" THEN s
        ELSE IF v < 0 THEN [s EXCEPT !.err = "ErrInvalidSecret"]
        ELSE IF bits < 8 THEN [s EXCEPT !.buffer = buffer, !.bitsLeft = bits]
        ELSE IF Len(s.dst) = room THEN NoRoom(s)
        ELSE [s EXCEPT !.buffer = buffer, !.bitsLeft = bits - 8,
                       !.dst = Append(@, (buffer \div 2 ^ (bits - 8)) % 256)]

(* With room bytes in dst: the error, and what dst holds afterwards. *)
DecodeBase32(room, src) ==
    LET after[n \in 0 .. Len(src)] ==
            IF n = 0 THEN [err |-> "nil", buffer |-> 0, bitsLeft |-> 0, dst |-> <<>>]
            ELSE IF src[n] \in Skipped THEN after[n - 1]
            ELSE DecodeDigit(room, after[n - 1], src[n])
    IN  after[Len(src)]

=============================================================================
