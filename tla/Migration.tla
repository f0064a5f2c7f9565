------------------------------ MODULE Migration ------------------------------
(***************************************************************************)
(* BuildOtpAuthMigrationURI and ParseOtpAuthMigrationURI of                *)
(* src/migration.go: accounts as protocol buffer messages.  A URI is what  *)
(* net/url makes of it: its scheme and the text of its data parameter.     *)
(*                                                                         *)
(* Bytes, tags and varints are the code's.  Only the ranges of the         *)
(* integers are parameters.                                                *)
(***************************************************************************)
EXTENDS Base32, Provisioning

CONSTANTS
    MaxUint64,      \* math.MaxUint64
    MaxInt,         \* the largest int
    MaxInt32,       \* math.MaxInt32
    MaxVarintBytes  \* 10: the shift of one more group would pass 63

-----------------------------------------------------------------------------
(* Results: the error, or the value; of a reader also where it stopped. *)

Ok(v) == [err |-> "nil", value |-> v]
Read(v, next) == [err |-> "nil", value |-> v, next |-> next]
Failed(e) == [err |-> e, value |-> <<>>]

(* if err != nil { return err }, and on with the value; or, after a reader, *)
(* with where it stopped too.                                               *)
Then(r, F(_)) == IF r.err # "nil" THEN r ELSE F(r.value)
ThenRead(r, F(_)) == IF r.err # "nil" THEN r ELSE F(r)

-----------------------------------------------------------------------------
(* The wire format. *)

(* What is left of v after n turns: value >>= 7. *)
Shifted(v) ==
    LET rest[n \in 0 .. MaxVarintBytes] == IF n = 0 THEN v ELSE rest[n - 1] \div 128
    IN  rest

ASSUME WidthsAssumption ==
    /\ MaxInt32 \in Nat /\ MaxInt \in Nat /\ MaxUint64 \in Nat /\ MaxVarintBytes \in Nat
    /\ 127 <= MaxInt32 /\ MaxInt32 <= MaxInt /\ MaxInt < MaxUint64 /\ 2 * MaxInt32 < MaxUint64
    /\ Shifted(MaxUint64)[MaxVarintBytes] = 0

(* int(tag >> 3) of a 64-bit int: every field number is one. *)
ASSUME IntAssumption == MaxUint64 \div 8 <= MaxInt

AppendProtoVarint(v) ==
    LET size == Min({n \in 1 .. MaxVarintBytes : Shifted(v)[n] = 0})
    IN  [n \in 1 .. size |-> (Shifted(v)[n - 1] % 128) + (IF n < size THEN 128 ELSE 0)]

AppendProtoVarintField(field, v) == AppendProtoVarint(8 * field) \o AppendProtoVarint(v)

AppendProtoBytesField(field, s) ==
    AppendProtoVarint(8 * field + 2) \o AppendProtoVarint(Len(s)) \o s

(* Groups of seven bits, the lowest first. *)
Ungrouped(groups) ==
    LET high[n \in 0 .. Len(groups)] ==
            IF n = 0 THEN 0 ELSE (groups[Len(groups) - (n - 1)] % 128) + 128 * high[n - 1]
    IN  high[Len(groups)]

(* Up to the first byte below 128; bits beyond the width are shifted out. *)
ReadProtoVarint(data, i) ==
    LET last   == SelectInSubSeq(data, i, Len(data), LAMBDA b : b < 128)
        groups == SubSeq(data, i, last)
    IN  IF last = 0 \/ Len(groups) > MaxVarintBytes THEN Failed("ErrInvalidMigration")
        ELSE Read(Ungrouped(groups) % (MaxUint64 + 1), last + 1)

(* Takes what is there when the length reaches past the end of the data. *)
ReadProtoBytes_Clamped(data, i) ==
    LET size == ReadProtoVarint(data, i)
        end  == size.next + size.value
    IN  IF size.err # "nil" THEN size
        ELSE Read(SubSeq(data, size.next, Min({end - 1, Len(data)})), Min({end, Len(data) + 1}))

(* A length that is no int, or that reaches past the end, is an error. *)
ReadProtoBytes(data, i) ==
    LET bytes(size, end) ==
            IF size.value > MaxInt \/ end - 1 > Len(data) THEN Failed("ErrInvalidMigration")
            ELSE Read(SubSeq(data, size.next, end - 1), end)
    IN  ThenRead(ReadProtoVarint(data, i), LAMBDA size : bytes(size, size.next + size.value))

(* readProtoScalar and skipProtoField look at the wire type. *)
ReadScalar(data, i, wireType) ==
    IF wireType # 0 THEN Failed("ErrInvalidMigration") ELSE ReadProtoVarint(data, i)

(* Skips the length of an unknown field and not its bytes. *)
SkipProtoField_LengthOnly(data, i, wireType) == ReadProtoVarint(data, i)

SkipProtoField(data, i, wireType) ==
    IF wireType = 2 THEN ReadProtoBytes(data, i) ELSE ReadScalar(data, i, wireType)

(* The loop over the fields of a message, one field a turn; it ends at the  *)
(* end of the data or at an error.                                          *)
NextField(data, r, ReadValue(_, _, _, _), SetValue(_, _, _)) ==
    LET store(num, field) ==
            Then(SetValue(r.value, num, field.value), LAMBDA v : Read(v, field.next))
        value(tag) ==
            ThenRead(ReadValue(data, tag.next, tag.value \div 8, tag.value % 8),
                     LAMBDA field : store(tag.value \div 8, field))
    IN  IF r.err # "nil" \/ r.next > Len(data) THEN r
        ELSE ThenRead(ReadProtoVarint(data, r.next), value)

ReadMessage(data, new, ReadValue(_, _, _, _), SetValue(_, _, _)) ==
    LET after[n \in 0 .. Len(data)] ==
            IF n = 0 THEN Read(new, 1) ELSE NextField(data, after[n - 1], ReadValue, SetValue)
    IN  Then(after[Len(data)], Ok)

-----------------------------------------------------------------------------
(* One account. *)

AlgorithmEnum == [SHA1 |-> 1, SHA256 |-> 2, SHA512 |-> 3]

DigitEnum == [d \in {6, 8} |-> IF d = 6 THEN 1 ELSE 2]

Prefix(issuer) == issuer \o <<Colon>>

(* Leaves the issuer to its own field. *)
MigrationName_Bare(a) == a.label

MigrationName(a) ==
    IF a.issuer # <<>> /\ ~ IsPrefix(Prefix(a.issuer), a.label)
    THEN Prefix(a.issuer) \o a.label ELSE a.label

EncodeMigrationAccount(a) ==
    LET secret  == NormalizeBase32Secret(a.secretB32)
        decoded == DecodeBase32((Len(secret) * 5) \div 8 + 1, secret)
        digits  == IF a.digits = 0 THEN 6 ELSE a.digits
    IN  IF secret = <<>> THEN Failed("ErrInvalidSecret")
        ELSE IF decoded.err # "nil" THEN Failed(decoded.err)
        ELSE IF a.algorithm \notin DOMAIN AlgorithmEnum THEN Failed("ErrInvalidAlgorithm")
        ELSE IF digits \notin DOMAIN DigitEnum THEN Failed("ErrInvalidDigits")
        ELSE Ok(AppendProtoBytesField(1, decoded.dst)
                \o AppendProtoBytesField(2, MigrationName(a))
                \o (IF a.issuer = <<>> THEN <<>> ELSE AppendProtoBytesField(3, a.issuer))
                \o AppendProtoVarintField(4, AlgorithmEnum[a.algorithm])
                \o AppendProtoVarintField(5, DigitEnum[digits])
                \o AppendProtoVarintField(6, IF a.type = "hotp" THEN 1 ELSE 2)
                \o (IF a.type = "hotp" THEN AppendProtoVarintField(7, a.counter) ELSE <<>>))

(* The issuer field is believed when the name repeats it; else the name's   *)
(* own prefix is the issuer, whatever the field says.                       *)
SplitMigrationLabel(issuer, name) ==
    LET colon == IndexByte(name, Colon)
    IN  IF issuer # <<>> /\ IsPrefix(Prefix(issuer), name)
        THEN [issuer |-> issuer, label |-> TrimSpace(From(name, Len(issuer) + 2))]
        ELSE IF colon > 1
        THEN [issuer |-> TrimSpace(Before(name, colon)), label |-> TrimSpace(From(name, colon + 1))]
        ELSE [issuer |-> issuer, label |-> name]

(* The value of a field; 1 to 3 are read as bytes whatever their wire type. *)
ReadAccountField(data, i, num, wireType) ==
    CASE num \in 1 .. 3 -> ReadProtoBytes(data, i)
      [] num \in 4 .. 7 -> ReadScalar(data, i, wireType)
      [] OTHER          -> SkipProtoField(data, i, wireType)

EnumValue(table, v, e) ==
    IF \E x \in DOMAIN table : table[x] = v THEN Ok(CHOOSE x \in DOMAIN table : table[x] = v)
    ELSE Failed(e)

SetAccountField(a, num, v) ==
    CASE num = 1 -> Ok([a EXCEPT !.secretB32 = EncodeBase32(v)])
      [] num = 2 -> Ok([a EXCEPT !.label = v])
      [] num = 3 -> Ok([a EXCEPT !.issuer = v])
      [] num = 4 -> Then(IF v = 0 THEN Ok("SHA1") ELSE EnumValue(AlgorithmEnum, v, "ErrInvalidAlgorithm"),
                         LAMBDA algorithm : Ok([a EXCEPT !.algorithm = algorithm]))
      [] num = 5 -> Then(IF v = 0 THEN Ok(6) ELSE EnumValue(DigitEnum, v, "ErrInvalidDigits"),
                         LAMBDA digits : Ok([a EXCEPT !.digits = digits]))
      [] num = 6 -> Ok([a EXCEPT !.type = IF v = 1 THEN "hotp" ELSE "totp"])
      [] num = 7 -> Ok([a EXCEPT !.counter = v])
      [] OTHER   -> Ok(a)

(* After the last field: an account needs a secret and a name. *)
Complete(a) ==
    LET split == SplitMigrationLabel(a.issuer, a.label)
    IN  IF a.secretB32 = <<>> \/ a.label = <<>> THEN Failed("ErrInvalidMigration")
        ELSE Ok([a EXCEPT !.issuer = split.issuer, !.label = split.label])

NewAccount ==
    [type |-> "totp", label |-> <<>>, issuer |-> <<>>, secretB32 |-> <<>>,
     algorithm |-> "SHA1", digits |-> 6, period |-> 30, counter |-> 0]

DecodeMigrationAccount(data) ==
    Then(ReadMessage(data, NewAccount, ReadAccountField, SetAccountField), Complete)

-----------------------------------------------------------------------------
(* Base64 text: the digits, where 62 and 63 are those of the URL alphabet,  *)
(* the symbols that only the standard encoding has, and line breaks.        *)

Pad       == 64
Plus      == 65   \* 62 in the standard alphabet
Solidus   == 66   \* 63
LineBreak == 67   \* CR or LF

RawURLEncoding(bytes) == Digits(6, bytes)

StdEncoding(bytes) ==
    LET digits == [i \in DOMAIN RawURLEncoding(bytes) |->
                     CASE RawURLEncoding(bytes)[i] = 62 -> Plus
                       [] RawURLEncoding(bytes)[i] = 63 -> Solidus
                       [] OTHER -> RawURLEncoding(bytes)[i]]
    IN  digits \o [i \in 1 .. (-Len(digits)) % 4 |-> Pad]

Bytes(digits) ==
    [i \in 1 .. (6 * Len(digits)) \div 8 |->
        LET d == (4 * (i - 1)) \div 3
        IN  CASE i % 3 = 1 -> digits[d + 1] * 4 + digits[d + 2] \div 16
              [] i % 3 = 2 -> (digits[d + 1] % 16) * 16 + digits[d + 2] \div 4
              [] i % 3 = 0 -> (digits[d + 1] % 4) * 64 + digits[d + 2]]

IsRawURL(text) == Len(text) % 4 # 1 /\ ToSet(text) \subseteq 0 .. 63

IsStd(text) ==
    LET digits == UpTo(text, Pad)
    IN  /\ Len(text) % 4 = 0
        /\ Len(text) - Len(digits) < 3
        /\ ToSet(digits) \subseteq (0 .. 61) \cup {Plus, Solidus}
        /\ ToSet(From(text, Len(digits) + 1)) \subseteq {Pad}

(* Only the standard encoding is tried second. *)
DecodeDigits(text) ==
    IF IsRawURL(text) THEN Ok(Bytes(text))
    ELSE IF IsStd(text)
    THEN LET digits == UpTo(text, Pad)
         IN  Ok(Bytes([i \in DOMAIN digits |-> IF digits[i] > Pad THEN digits[i] - 3 ELSE digits[i]]))
    ELSE Failed("ErrInvalidMigration")

(* Both decoders of encoding/base64 pass over line breaks. *)
Unbroken(text) ==
    FlattenSeq([i \in DOMAIN text |-> IF text[i] = LineBreak THEN <<>> ELSE <<text[i]>>])

DecodeData(text) == DecodeDigits(Unbroken(text))

-----------------------------------------------------------------------------
(* The payload: the accounts, then the options. *)

(* uint64 of an int32: a negative one is sign-extended. *)
Uint64(n) == n % (MaxUint64 + 1)

BuildOtpAuthMigrationURI(accounts, opts) ==
    LET encoded == [i \in DOMAIN accounts |-> EncodeMigrationAccount(accounts[i])]
        bad     == SelectInSeq(encoded, LAMBDA r : r.err # "nil")
        version == IF opts.version > 0 THEN opts.version ELSE 1
        option(field, n) == IF n = 0 THEN <<>> ELSE AppendProtoVarintField(field, Uint64(n))
    IN  IF bad # 0 THEN encoded[bad]
        ELSE Ok([scheme |-> "otpauth-migration", data |-> RawURLEncoding(
                 FlattenSeq([i \in DOMAIN encoded |-> AppendProtoBytesField(1, encoded[i].value)])
                 \o AppendProtoVarintField(2, version)
                 \o option(3, opts.batchSize) \o option(4, opts.batchIndex)
                 \o option(5, opts.batchID))])

CheckedUint64ToInt32(v) == IF v > MaxInt32 THEN Failed("ErrInvalidMigration") ELSE Ok(v)

ReadPayloadField(data, i, num, wireType) ==
    CASE num = 1 /\ wireType # 2 -> Failed("ErrInvalidMigration")
      [] num = 1 /\ wireType = 2 -> ReadProtoBytes(data, i)
      [] num \in 2 .. 5          -> ReadScalar(data, i, wireType)
      [] OTHER                   -> SkipProtoField(data, i, wireType)

SetPayloadField(p, num, v) ==
    CASE num = 1 -> Then(DecodeMigrationAccount(v), LAMBDA a : Ok([p EXCEPT !.accounts = Append(@, a)]))
      [] num = 2 -> Then(CheckedUint64ToInt32(v), LAMBDA n : Ok([p EXCEPT !.version = n]))
      [] num = 3 -> Then(CheckedUint64ToInt32(v), LAMBDA n : Ok([p EXCEPT !.batchSize = n]))
      [] num = 4 -> Then(CheckedUint64ToInt32(v), LAMBDA n : Ok([p EXCEPT !.batchIndex = n]))
      [] num = 5 -> Then(CheckedUint64ToInt32(v), LAMBDA n : Ok([p EXCEPT !.batchID = n]))
      [] OTHER   -> Ok(p)

NewPayload == [accounts |-> <<>>, version |-> 0, batchSize |-> 0, batchIndex |-> 0, batchID |-> 0]

ParseOtpAuthMigrationURI(uri) ==
    IF uri.scheme # "otpauth-migration" THEN Failed("ErrInvalidURI")
    ELSE IF uri.data = <<>> THEN Failed("ErrInvalidMigration")
    ELSE Then(DecodeData(uri.data),
              LAMBDA data : ReadMessage(data, NewPayload, ReadPayloadField, SetPayloadField))

=============================================================================
