---------------------------- MODULE MCOTPInstance ----------------------------
(* Small instances of OTPInstance for TLC. *)
EXTENDS OTPInstance

(* Arguments that the constructors accept and ones that they refuse. *)
AllArguments ==
    [runtime : Runtimes \cup {"none"}, digits : {5, 6, 8, 9},
     algorithm : {"SHA1", "other"}, period : {0, Period}]

(* Codes of the token; a call that generates ignores its code. *)
TokenCodes == {c \in CodeType : c.key = "key"}

GenerateCalls ==
    {r \in [type : {"HOTP", "TOTP"}, op : {"Generate"}, at : Uint64, window : {0},
            ctx : Contexts \cup {"nil", "empty"}, code : TokenCodes] :
        r.code.counter = 0 /\ r.code.ctx = "unbound"}

TOTPCalls ==
    [type : {"TOTP"}, op : {"Verify"}, at : Uint64, window : 0 .. MaxWindow,
     ctx : Contexts \cup {"nil"}, code : TokenCodes]

HOTPCalls ==
    [type : {"HOTP"}, op : {"Verify"}, at : Uint64, window : {0},
     ctx : Contexts \cup {"nil"}, code : TokenCodes]

ResyncCalls ==
    [type : {"HOTP"}, op : {"VerifyWithResync"}, at : Uint64, window : 0 .. MaxWindow,
     ctx : {"nil"}, code : TokenCodes]

OverLimit ==
    {[r EXCEPT !.window = MaxWindow + 1] :
        r \in {x \in TOTPCalls \cup ResyncCalls :
                 x.at = 2 /\ x.window = 0 /\ x.ctx = "nil"
                 /\ x.code.counter = 0 /\ x.code.ctx = "unbound"}}

(* Codes of the emptied secret. *)
ZeroCalls ==
    {[r EXCEPT !.code.key = "zero"] :
        r \in {x \in TOTPCalls \cup HOTPCalls \cup ResyncCalls :
                 x.at = 1 /\ x.ctx = "nil" /\ x.code.ctx = "unbound"}}

AllCalls == GenerateCalls \cup TOTPCalls \cup HOTPCalls \cup ResyncCalls

Single(S) == {<<r>> : r \in S}

(* Every call alone, and batches of two: every pair of codes at one time.   *)
AllBatches ==
    Single(AllCalls \cup ZeroCalls) \cup
    UNION {{<<r, s>> : r, s \in {x \in S : x.at = 1 /\ x.window \in {0, MaxWindow} /\ x.ctx = "a"}} :
             S \in {HOTPCalls, {x \in TOTPCalls : x.window = MaxWindow}}}

(* A call of each kind: loops that find the token's code at their end or    *)
(* not at all, windows over the limit, and a call that generates; batches   *)
(* that go on after a refused window or end in a panic.                     *)
SomeBatches ==
    LET calls == {r \in AllCalls : r.ctx = "nil" /\ r.code.ctx = "unbound" /\ r.at = 2}
        verify(type) == {r \in calls : r.op = "Verify" /\ r.type = type /\ r.code.counter = 2
                                       /\ r.window = IF type = "TOTP" THEN MaxWindow ELSE 0}
    IN  Single(OverLimit \cup verify("TOTP"))
        \cup Single({r \in calls : \/ r.op = "Generate" /\ r.type = "TOTP"
                                   \/ r.op = "VerifyWithResync" /\ r.window = MaxWindow
                                        /\ r.code.counter = 0})
        \cup {<<r, s>> : r \in {x \in OverLimit : x.type = "TOTP"}, s \in verify("TOTP")}
        \cup {<<r, r>> : r \in verify("HOTP")}

=============================================================================
