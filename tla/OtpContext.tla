----------------------------- MODULE OtpContext -----------------------------
(***************************************************************************)
(* OtpContextBuilder of src/context.go, and the replay key that            *)
(* src/verifier.go makes of a code and a context.                          *)
(***************************************************************************)
EXTENDS Text

CONSTANT MaxContextFieldLen     \* 256 in the code

ASSUME ContextAssumption == MaxContextFieldLen \in Nat

-----------------------------------------------------------------------------
(* Normalisation. *)

(* Forgets the fragment. *)
WithoutQuery_Fragment(o) == UpTo(o, Query)

WithoutQuery(o) == UpTo(UpTo(o, Hash), Query)

(* The fragment goes, then the query, then the path of what has a scheme,   *)
(* then one trailing slash.                                                 *)
NormalizeOrigin(origin) ==
    LET o      == WithoutQuery(ToLower(TrimSpace(origin)))
        sep    == {i \in 1 .. Len(o) - 2 : SubSeq(o, i, i + 2) = <<Colon, Slash, Slash>>}
        scheme == SubSeq(o, 1, Min(sep) + 2)
        whole  == IF sep = {} THEN o ELSE scheme \o UpTo(From(o, Min(sep) + 3), Slash)
    IN  IF whole # <<>> /\ Last(whole) = Slash THEN Front(whole) ELSE whole

NormalizeContextLabel(value) == ToLower(TrimSpace(value))

AllowedDistanceClasses == {<<Word("same_area")>>, <<Word("nearby")>>, <<Word("far")>>}

-----------------------------------------------------------------------------
(* The builder: fields is a function from names to values. *)

NewOtpContextBuilder == [k \in {} |-> <<>>]

(* A value that is too long leaves the builder as it was. *)
SetField(fields, key, value) ==
    IF Len(value) > MaxContextFieldLen THEN fields
    ELSE [k \in DOMAIN fields \cup {key} |-> IF k = key THEN value ELSE fields[k]]

(* One call of a setter; key is that of Custom. *)
Set(fields, call) ==
    LET value == call.value
        label == NormalizeContextLabel(value)
        name  == <<Word(call.setter)>>
    IN  CASE call.setter \in {"ip", "device", "session"} -> SetField(fields, name, value)
          [] call.setter = "origin" -> SetField(fields, name, NormalizeOrigin(value))
          [] call.setter \in {"region", "geo_bucket"} -> SetField(fields, name, label)
          [] call.setter = "distance_class" ->
                IF label \in AllowedDistanceClasses THEN SetField(fields, name, label) ELSE fields
          [] call.setter = "x-" ->
                IF Len(call.key) > MaxContextFieldLen THEN fields
                ELSE SetField(fields, name \o call.key, value)

Fields(calls) ==
    LET after[n \in 0 .. Len(calls)] ==
            IF n = 0 THEN NewOtpContextBuilder ELSE Set(after[n - 1], calls[n])
    IN  after[Len(calls)]

(* Writes a field without its terminator. *)
WriteField_Open(k, v) == k \o <<Equals>> \o v

WriteField(k, v) == k \o <<Equals>> \o v \o <<Nul>>

Build(fields) ==
    LET keys == SortStrings(DOMAIN fields)
    IN  FlattenSeq([i \in DOMAIN keys |-> WriteField(keys[i], fields[keys[i]])])

-----------------------------------------------------------------------------
(* The replay key without its separator. *)
ReplayKey_Joined(code, context) == code \o context

ReplayKey(code, context) == code \o <<Nul>> \o context

=============================================================================
