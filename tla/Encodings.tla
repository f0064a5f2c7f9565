----------------------------- MODULE Encodings -----------------------------
(***************************************************************************)
(* What the encodings promise: Base32 secrets, provisioning URIs,          *)
(* migration payloads, contexts and replay keys, and the comparisons of    *)
(* their bytes.                                                            *)
(* A caller takes up one job after another; each encoding is a pure        *)
(* function, and the properties relate the job to what comes out.          *)
(***************************************************************************)
EXTENDS Migration, OtpContext, ConstantTime

CONSTANTS
    Secrets,        \* [bytes, text, room]: a secret, its text as a user types it, Len(dst)
    Texts,          \* any text handed to DecodeBase32
    URIs,           \* OtpAuthUri values
    Exports,        \* [accounts, opts]
    NewNumbers,     \* [num, value]: numbers that a newer exporter may add,
    NewStrings,     \* and strings
    ContextCalls,   \* sequences of setter calls
    Origins,        \* [before, site, after]: an origin with what surrounds it
    ReplayPairs,    \* [code, context]
    Strings,        \* what the comparisons are called with
    NoJob

(* The text is the Base32 form, in any case and with any separators. *)
Spells(text, bytes) ==
    LET b32 == EncodeBase32(bytes)
        typed(n) == Cardinality({i \in 1 .. n : text[i] \notin Skipped})
    IN  /\ typed(Len(text)) = Len(b32)
        /\ \A n \in DOMAIN text :
              text[n] \notin Skipped => text[n] \in {b32[typed(n)], ToLower(b32)[typed(n)]}

ASSUME SecretsAssumption ==
    \A s \in Secrets : /\ s \in [bytes : Seq(Byte), text : Seq(Byte), room : Nat]
                       /\ Spells(s.text, s.bytes)

(* What algorithms and numbers are written with. *)
Unreserved == {b \in Byte : ShouldNotEncode(b)}

ASSUME URIsAssumption ==
    \A u \in URIs :
        u \in [typ : {"totp", "hotp"}, label : Seq(Byte), secret : Seq(Byte), issuer : Seq(Byte),
              algorithm : Seq(Unreserved), digits : Seq(Unreserved), period : Seq(Unreserved),
              counter : Seq(Unreserved)]

(* A Go string has an int for its length; so has an encoded account. *)
Str == {s \in Seq(Byte) : Len(s) <= MaxInt}

Int32 == -MaxInt32 - 1 .. MaxInt32

ASSUME ExportsAssumption ==
    \A e \in Exports :
        /\ e \in [accounts : Seq([type : {"totp", "hotp"}, label : Str, issuer : Str, secretB32 : Str,
                                  algorithm : STRING, digits : Nat, period : Nat,
                                  counter : 0 .. MaxUint64]),
                   opts : [version : Int32, batchSize : Int32, batchIndex : Int32, batchID : Int32]]
        /\ \A i \in DOMAIN e.accounts :
              /\ MigrationName(e.accounts[i]) \in Str
              /\ LET msg == EncodeMigrationAccount(e.accounts[i])
                 IN  msg.err = "nil" => Len(msg.value) <= MaxInt

(* What is given for a secret is ASCII, where NormalizeBase32Secret is      *)
(* normalizeBase32Secret.                                                   *)
ASSUME SecretTextsAssumption ==
    LET ascii(text) == \A i \in DOMAIN text : text[i] < 128
    IN  /\ \A u \in URIs : ascii(u.secret)
        /\ \A e \in Exports : \A i \in DOMAIN e.accounts : ascii(e.accounts[i].secretB32)

(* The code knows the fields up to 7; a tag is a uint64. *)
UnknownNum == 8 .. (MaxUint64 - 2) \div 8

ASSUME NewFieldsAssumption ==
    /\ \A f \in NewNumbers : f \in [num : UnknownNum, value : 0 .. MaxUint64]
    /\ \A f \in NewStrings : f \in [num : UnknownNum, value : Str]

UnknownFields ==
    {AppendProtoVarintField(f.num, f.value) : f \in NewNumbers}
      \cup {AppendProtoBytesField(f.num, f.value) : f \in NewStrings}

Setters == {"ip", "device", "session", "origin", "region", "geo_bucket", "distance_class", "x-"}

ASSUME CallsAssumption ==
    \A calls \in ContextCalls :
        calls \in Seq([setter : Setters, key : Seq(Char), value : Seq(Char)])

Blank == {Space} \cup 9 .. 13

(* Blanks, a query or a fragment. *)
Ends(t) == t \in Seq(Blank) \/ Head(t) \in {Query, Hash}

(* The slashes of a site are those of its "://", where the host follows. *)
HasScheme(site) ==
    \E p \in 1 .. Len(site) - 3 :
        /\ SubSeq(site, p, p + 2) = <<Colon, Slash, Slash>>
        /\ \A i \in DOMAIN site : site[i] = Slash => i \in {p + 1, p + 2}

(* A site with a scheme may have any path; one without, a slash. *)
ASSUME OriginsAssumption ==
    \A o \in Origins :
        /\ o \in [before : Seq(Blank), site : Seq(Byte \ (Blank \cup {Hash, Query})), after : Seq(Byte)]
        /\ o.site # <<>>
        /\ HasScheme(o.site) \/ \A i \in DOMAIN o.site : o.site[i] # Slash
        /\ \/ Ends(o.after)
           \/ Head(o.after) = Slash /\ (HasScheme(o.site) \/ Ends(Tail(o.after)))

(* A code is decimal digits. *)
ASSUME PairsAssumption ==
    \A p \in ReplayPairs : p \in [code : Seq(48 .. 57), context : Seq(Char)]

ASSUME StringsAssumption ==
    \A s \in Strings : s \in Seq(Byte) /\ Len(s) < PowerOf2[WordBits]

VARIABLE job

Take(kind, x) == job = NoJob /\ job' = [kind |-> kind, in |-> x]

DecodeSecret   == \E s \in Secrets : Take("secret", s)
DecodeText     == \E t \in Texts : Take("text", t)
Provision      == \E u \in URIs : Take("uri", u)
Migrate        == \E e \in Exports : Take("export", e)
BuildContext   == \E c \in ContextCalls : Take("context", c)
BindOrigin     == \E o \in Origins : Take("origin", o)
RecordCode     == \E p \in ReplayPairs : Take("replay", p)
Compare        == \E s \in Strings : Take("compare", s)
Finish         == job # NoJob /\ job' = NoJob

Init == job = NoJob

Next ==
    \/ DecodeSecret \/ DecodeText \/ Provision \/ Migrate \/ BuildContext \/ BindOrigin
    \/ RecordCode \/ Compare \/ Finish

Spec == Init /\ [][Next]_job

Doing(kind) == job # NoJob /\ job.kind = kind

-----------------------------------------------------------------------------
(* Base32. *)

(* DecodeBase32 returns the whole secret, in whatever case and with         *)
(* whatever separators it was typed, or ErrDstTooSmall: never a part of it. *)
SecretReadsBack ==
    Doing("secret") =>
        LET d == DecodeBase32(job.in.room, job.in.text)
        IN  IF job.in.room < Len(job.in.bytes) THEN d.err = "ErrDstTooSmall"
            ELSE d.err = "nil" /\ d.dst = job.in.bytes

Alphabet == 65 .. 90 \cup 97 .. 122 \cup 50 .. 55

(* README.md:278 says of DecodeBase32: "`ErrInvalidSecret` jika ada karakter *)
(* invalid" (if there is an invalid character).                              *)
InvalidCharactersRefused ==
    Doing("text") /\ (\E i \in DOMAIN job.in : job.in[i] \notin Alphabet \cup Skipped) =>
        DecodeBase32(Len(job.in), job.in).err = "ErrInvalidSecret"

-----------------------------------------------------------------------------
(* Provisioning. *)

(* A reader that splits the URI at the reserved characters and decodes the  *)
(* parts gets back the label, the secret and every parameter that was set,  *)
(* and nothing else: no text of one of them reads as another.               *)
URIReadsBack ==
    Doing("uri") =>
        LET u == job.in
            set == {p \in ToSet(Parameters) : u[p] # <<>>}
        IN  ReadURI(BuildURI(u)) =
                [typ |-> Word(u.typ), label |-> u.label,
                 query |-> {<< <<Word("secret")>>, NormalizeBase32Secret(u.secret)>>}
                             \cup {<< <<Word(p)>>, u[p]>> : p \in set}]

-----------------------------------------------------------------------------
(* Migration. *)

Exported == BuildOtpAuthMigrationURI(job.in.accounts, job.in.opts)

Imported(data) == ParseOtpAuthMigrationURI([scheme |-> "otpauth-migration", data |-> data])

(* What an authenticator computes codes from; the payload has no period.    *)
Credentials(a) ==
    LET secret == DecodeBase32(Len(a.secretB32), NormalizeBase32Secret(a.secretB32))
    IN  [secret |-> secret.dst, type |-> a.type, algorithm |-> a.algorithm,
         digits |-> IF a.digits = 0 THEN 6 ELSE a.digits,
         counter |-> IF a.type = "hotp" THEN a.counter ELSE 0]

Options(p) == <<p.batchSize, p.batchIndex, p.batchID>>

(* The name can be told apart from the issuer again, and is not empty. *)
Separable(a) ==
    /\ TrimSpace(a.label) = a.label
    /\ IF a.issuer = <<>> THEN a.label # <<>> /\ IndexByte(a.label, Colon) < 2
                          ELSE ~ IsPrefix(Prefix(a.issuer), a.label)
    /\ Credentials(a).secret # <<>>

(* An import yields the accounts that were exported, in their order, with   *)
(* the same credentials and the same batch numbers, or an error.  It yields *)
(* them, with label and issuer, whenever the labels can be told from the    *)
(* issuers and no batch number is negative.                                 *)
ImportsWhatWasExported ==
    Doing("export") /\ Exported.err = "nil" =>
        LET in  == job.in.accounts
            out == Imported(Exported.value.data)
            got == out.value.accounts
        IN  /\ out.err = "nil" =>
                  /\ [i \in DOMAIN got |-> Credentials(got[i])]
                        = [i \in DOMAIN in |-> Credentials(in[i])]
                  /\ Options(out.value) = Options(job.in.opts)
            /\ (\A i \in DOMAIN in : Separable(in[i]))
               /\ (\A i \in 1 .. 3 : Options(job.in.opts)[i] >= 0) =>
                  /\ out.err = "nil"
                  /\ \A i \in DOMAIN in :
                        got[i].label = in[i].label /\ got[i].issuer = in[i].issuer

(* A URI that was cut short yields an error or some of the first accounts,  *)
(* each of them complete.                                                   *)
CutPayloadYieldsPrefix ==
    Doing("export") /\ Exported.err = "nil" =>
        LET data == Exported.value.data
            whole == Imported(data)
        IN  whole.err = "nil" =>
                \A n \in 1 .. Len(data) - 1 :
                    LET cut == Imported(SubSeq(data, 1, n))
                    IN  cut.err = "nil" => IsPrefix(cut.value.accounts, whole.value.accounts)

(* The text on two lines. *)
Broken(text, i) == Before(text, i) \o <<LineBreak>> \o From(text, i)

(* Other exporters read the same: one that writes the standard encoding, or *)
(* breaks its line anywhere, and a newer one that adds fields, before or    *)
(* after the others, to the payload or to an account.                       *)
OtherExportersAreRead ==
    Doing("export") /\ Exported.err = "nil" =>
        LET bytes == Bytes(Exported.value.data)
            whole == Imported(Exported.value.data)
            first == EncodeMigrationAccount(job.in.accounts[1]).value
            std   == StdEncoding(bytes)
        IN  /\ Imported(std) = whole
            /\ \A i \in DOMAIN std : Imported(Broken(std, i)) = whole
            /\ \A f \in UnknownFields :
                  /\ Imported(StdEncoding(f \o bytes)) = whole
                  /\ Imported(RawURLEncoding(bytes \o f)) = whole
                  /\ job.in.accounts # <<>> =>
                        /\ DecodeMigrationAccount(first \o f) = DecodeMigrationAccount(first)
                        /\ DecodeMigrationAccount(f \o first) = DecodeMigrationAccount(first)

-----------------------------------------------------------------------------
(* Contexts, replay keys, comparisons. *)

(* No name holds '=' and no value NUL, which Build writes between and after *)
(* them.  Neither setField nor Custom sees to it.                           *)
Plain(fields) ==
    \A k \in DOMAIN fields :
        /\ \A i \in DOMAIN k : k[i] # Equals
        /\ \A i \in DOMAIN fields[k] : fields[k][i] # Nul

(* Plain contexts are equal as bytes only when the same fields were set:    *)
(* binding a code to one never binds it to another.  Of contexts that are   *)
(* not plain Build promises nothing: two fields of one may read as a single *)
(* field of another, whose value holds the NUL.                             *)
ContextsEncodeApart ==
    Doing("context") =>
        LET fields  == Fields(job.in)
            context == Build(fields)
        IN  Plain(fields) =>
                \A other \in ContextCalls :
                    LET theirs == Fields(other)
                    IN  Plain(theirs) /\ Build(theirs) = context => theirs = fields

(* docs/usage.md:462: "scheme + host only, lowercased, with query, fragment,*)
(* and trailing slash removed", whatever the path, query and fragment hold. *)
OriginIsSchemeAndHost ==
    Doing("origin") =>
        NormalizeOrigin(job.in.before \o job.in.site \o job.in.after) = ToLower(job.in.site)

(* Two codes, or one code in two contexts, never share a replay key, of     *)
(* whatever lengths the codes are and whatever bytes the contexts hold.     *)
ReplayKeysApart ==
    Doing("replay") =>
        \A other \in ReplayPairs :
            ReplayKey(other.code, other.context) = ReplayKey(job.in.code, job.in.context)
                => other = job.in

(* The branch-free comparisons are equality, also of strings of different   *)
(* lengths that differ in trailing zero bytes only, and the three agree.    *)
ComparisonsAreEquality ==
    Doing("compare") =>
        \A s \in Strings :
            /\ ConstTimeEqBytes(job.in, s) <=> s = job.in
            /\ ConstantTimeEqByteResult(job.in, s) = IF s = job.in THEN 1 ELSE 0
            /\ WasmConstTimeEqBytes(job.in, s) <=> s = job.in

=============================================================================
