---------------------------- MODULE MCEncodings ----------------------------
(***************************************************************************)
(* Small inputs for Encodings.  Characters are chosen for what the         *)
(* encodings tell apart: letters, digits, separators, spaces, NUL and      *)
(* bytes above 127; algorithms, digits, counters and options are at the    *)
(* ends of their ranges.                                                   *)
(***************************************************************************)
EXTENDS Encodings, FiniteSetsExt

UpToLen(S, n) == BoundedSeq(S, n)

(* Secrets of up to three bytes (every alignment of bytes and digits that   *)
(* two bytes have, and one more), plain, in lower case, and with            *)
(* separators between the digits.                                           *)
Typed(bytes) ==
    LET b32 == EncodeBase32(bytes)
    IN  {b32, ToLower(b32), b32 \o <<Equals, Equals>>,
         FlattenSeq([i \in DOMAIN b32 |-> <<45, b32[i], Space>>])}

MCSecrets ==
    UNION {{[bytes |-> b, text |-> t, room |-> r] : t \in Typed(b), r \in 0 .. Len(b) + 1} :
             b \in UpToLen({0, 7, 170, 255}, 3)}

(* 'A', '2', '1', '-' and a byte of a character that is not ASCII. *)
MCTexts == UpToLen({65, 50, 49, 45, 195}, 3)

(* Contexts: one or two calls of the setters, with values that are empty,   *)
(* normalised, at the limit, too long, or look like the start of a field,   *)
(* also with the NUL or the '=' that make two contexts read the same.       *)
MCCalls ==
    {[setter |-> s, key |-> <<>>, value |-> v] :
        s \in {"ip", "origin", "region"},
        v \in {<<>>, <<97>>, <<65, Space>>, <<97, 97, 97, 97>>, <<Word("x-"), Equals>>,
              <<Nul, Word("origin"), Equals>>}}
    \cup {[setter |-> "distance_class", key |-> <<>>, value |-> v] :
            v \in {<<Space, Word("far")>>, <<97>>}}
    \cup {[setter |-> "x-", key |-> k, value |-> v] :
            k \in {<<>>, <<97>>, <<97, Equals>>, <<97, 97, 97, 97>>},
            v \in {<<>>, <<97>>, <<Equals, 97>>}}

MCContextCalls == UpToLen(MCCalls, 2)

(* Sites with a scheme, whose tail may hold anything, and without one,      *)
(* whose tail is a slash, a query or a fragment.                            *)
MCTails == {t \in UpToLen({Slash, Query, Hash, Colon, 65}, 4) :
              t # <<>> => Head(t) \in {Slash, Query, Hash}}

MCOrigins ==
    LET site == {<<104, Colon, Slash, Slash, 65, 97>>, <<104, Colon, Slash, Slash, 97, Colon, 56>>}
    IN  {[before |-> b, site |-> s, after |-> t \o b] : b \in {<<>>, <<Space>>}, s \in site, t \in MCTails}
        \cup {[before |-> <<>>, site |-> <<65, 97>>, after |-> t] :
                t \in {<<>>, <<Slash>>, <<Query, Slash>>, <<Hash, Query>>, <<Slash, Query, 97>>}}

(* Codes of two lengths, contexts with digits and NUL. *)
MCReplayPairs ==
    [code : {<<48>>, <<49>>, <<48, 48>>, <<48, 49>>, <<49, 48>>}, context : UpToLen({0, 48, 49}, 3)]

MCStrings == UpToLen({0, 1, 128}, 3)

(* 'a', '2', ':', '?', '&', '=', '%', ' ' and a byte above 127. *)
MCLabels == UpToLen({97, 50, Colon, Query, Amp, Equals, Percent, Space, 195}, 2)

MCURIs ==
    LET uri(t, l, s, i, ps) ==
            [typ |-> t, label |-> l, secret |-> s, issuer |-> i,
             algorithm |-> IF "algorithm" \in ps THEN <<83, 49>> ELSE <<>>,
             digits    |-> IF "digits" \in ps THEN <<56>> ELSE <<>>,
             period    |-> IF "period" \in ps THEN <<54, 48>> ELSE <<>>,
             counter   |-> IF "counter" \in ps THEN <<48>> ELSE <<>>]
    IN  {uri("totp", l, <<65, Space, 50, Equals>>, i, {"digits", "period"}) :
            l \in MCLabels, i \in UpToLen({97, Amp, Equals, Percent}, 1)}
        \cup {uri("hotp", <<97, Percent>>, s, i, ps) :
                s \in {<<>>, <<65, 9, 65>>, <<Amp, Percent, Query>>},
                i \in UpToLen({50, Amp, Equals, Percent, Query}, 2),
                ps \in SUBSET {"algorithm", "counter"}}

(* An account, and what may vary of it: labels with colons and spaces,      *)
(* issuers with colons, algorithms, digits and secrets that are refused,    *)
(* and counters of one, two and four bytes.                                 *)
Account(type, label, issuer, secret, algorithm, digits, counter) ==
    [type |-> type, label |-> label, issuer |-> issuer, secretB32 |-> secret,
     algorithm |-> algorithm, digits |-> digits, period |-> 30, counter |-> counter]

MCAccounts ==
    {Account("totp", l, i, EncodeBase32(<<170, 255>>), "SHA1", 0, 3) :
        l \in UpToLen({97, Colon, Space}, 3), i \in {<<>>, <<97>>, <<97, Colon>>, <<98>>}}
    \cup {Account(t, <<97>>, <<98>>, s, a, d, c) :
            t \in {"hotp", "totp"}, s \in {<<>>, <<65>>, <<50, 49>>, ToLower(EncodeBase32(<<0, 7, 255>>))},
            a \in {"SHA1", "SHA256", "SHA512", "other"}, d \in {0, 6, 7, 8},
            c \in {0, 127, 128, MaxUint64}}

MCOption == {-1, 0, 5, MaxInt32}

Opts(v, s, i, id) == [version |-> v, batchSize |-> s, batchIndex |-> i, batchID |-> id]

Pair ==
    {Account("hotp", <<97>>, <<98>>, EncodeBase32(<<0>>), "SHA256", 8, 300),
     Account("totp", <<Space, 97>>, <<>>, EncodeBase32(<<255, 7>>), "SHA1", 6, 0),
     Account("totp", <<97>>, <<>>, <<49>>, "SHA1", 6, 0)}

MCExports ==
    {[accounts |-> <<a>>, opts |-> Opts(0, 2, 0, 200)] : a \in MCAccounts}
    \cup {[accounts |-> <<a, b>>, opts |-> Opts(1, 0, 1, 0)] : a \in Pair, b \in Pair}
    \cup {[accounts |-> <<>>, opts |-> Opts(v, s, i, id)] :
            v \in MCOption, s \in MCOption, i \in MCOption, id \in MCOption}

(* A number of two bytes; strings that are empty, that read as a field, and *)
(* whose text has digits of both alphabets.                                 *)
MCNewNumbers == {[num |-> 9, value |-> 300]}

MCNewStrings ==
    {[num |-> 9, value |-> <<>>], [num |-> 20, value |-> <<8, 1>>], [num |-> 8, value |-> <<63, 63, 62>>]}
=============================================================================
