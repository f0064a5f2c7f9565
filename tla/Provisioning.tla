---------------------------- MODULE Provisioning ----------------------------
(***************************************************************************)
(* OtpAuthUri of src/provisioning.go, and how an authenticator reads the   *)
(* URI it builds.                                                          *)
(***************************************************************************)
EXTENDS Text

HexUpper(n) == IF n < 10 THEN 48 + n ELSE 55 + n

(* Forgets that '%' itself must be encoded. *)
ShouldNotEncode_Percent(b) ==
    \/ b \in 65 .. 90 \/ b \in 97 .. 122 \/ b \in 48 .. 57
    \/ b \in {45, 46, 95, 126}
    \/ b = Percent

(* Letters, digits, '-', '.', '_' and '~'. *)
ShouldNotEncode(b) ==
    \/ b \in 65 .. 90 \/ b \in 97 .. 122 \/ b \in 48 .. 57
    \/ b \in {45, 46, 95, 126}

PercentEncode(s) ==
    FlattenSeq([i \in DOMAIN s |->
        IF ShouldNotEncode(s[i]) THEN <<s[i]>>
        ELSE <<Percent, HexUpper(s[i] \div 16), HexUpper(s[i] % 16)>>])

(* Of a text in ASCII.  The code goes over runes: of other texts it also    *)
(* drops the blanks of Unicode, and it rewrites what is no UTF-8.           *)
NormalizeBase32Secret(s) ==
    FlattenSeq([i \in DOMAIN s |-> IF s[i] = Equals \/ IsSpace(s[i]) THEN <<>> ELSE <<s[i]>>])

(* The parameters that the setters fill in; one that was not set is <<>>, as *)
(* is an empty issuer.  Only the issuer can hold characters to encode.       *)
Parameters == <<"issuer", "algorithm", "digits", "period", "counter">>

Parameter(u, p) ==
    IF u[p] = <<>> THEN <<>>
    ELSE <<Amp, Word(p), Equals>> \o (IF p = "issuer" THEN PercentEncode(u[p]) ELSE u[p])

BuildURI(u) ==
    <<Word("otpauth"), Colon, Slash, Slash, Word(u.typ), Slash>> \o PercentEncode(u.label)
      \o <<Query, Word("secret"), Equals>> \o PercentEncode(NormalizeBase32Secret(u.secret))
      \o FlattenSeq([i \in DOMAIN Parameters |-> Parameter(u, Parameters[i])])

-----------------------------------------------------------------------------
(* The reader splits at the reserved characters, then decodes each part. *)

Unhex(h) == IF h < 58 THEN h - 48 ELSE h - 55

(* The bytes so far, and the escape that has begun. *)
DecodeNext(d, c) ==
    IF Len(d.escape) = 2
    THEN [out |-> Append(d.out, 16 * Unhex(d.escape[2]) + Unhex(c)), escape |-> <<>>]
    ELSE IF d.escape # <<>> \/ c = Percent THEN [out |-> d.out, escape |-> Append(d.escape, c)]
    ELSE [out |-> Append(d.out, c), escape |-> <<>>]

PercentDecode(s) ==
    LET after[n \in 0 .. Len(s)] ==
            IF n = 0 THEN [out |-> <<>>, escape |-> <<>>] ELSE DecodeNext(after[n - 1], s[n])
    IN  after[Len(s)].out

ReadPair(pair) ==
    LET name == UpTo(pair, Equals) IN <<name, PercentDecode(From(pair, Len(name) + 2))>>

ReadQuery(s) ==
    {ReadPair(UpTo(From(s, i + 1), Amp)) : i \in {0} \cup {j \in DOMAIN s : s[j] = Amp}}

ReadURI(uri) ==
    LET path == UpTo(uri, Query)
    IN  [typ |-> path[5], label |-> PercentDecode(From(path, 7)),
         query |-> ReadQuery(From(uri, Len(path) + 2))]

=============================================================================
