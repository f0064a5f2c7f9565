---------------------------- MODULE WasmBindings ----------------------------
(***************************************************************************)
(* The exported functions of src/wasm/main.go.  The instance runs one of   *)
(* them at a time, on the two global buffers allocBuf and resultBuf.  A    *)
(* host goes through alloc, writing its request at the pointer it got, a   *)
(* call, and reading the result, and may then write and call again; hosts  *)
(* may share the instance.                                                 *)
(*                                                                         *)
(* A request stands for a JSON object: a record with every field that some *)
(* call knows, zero where the object lacks it, and its length.  A code is  *)
(* identified with what it is computed from, as in OTPInstance.            *)
(***************************************************************************)
EXTENDS OtpContext

CONSTANTS
    Hosts,
    Asks,           \* Asks[h]: [req, size, inputLen], what h passes to alloc and to the call
    MaxWindow,      \* 1000 in TOTP.Verify
    MaxUint,        \* largest uint64
    MaxTime,        \* the clock stops there
    MaxCall,        \* the longest that a call takes
    EqBytes(_, _),  \* constTimeEqBytes, which is WasmConstTimeEqBytes of ConstantTime
    None

NoCode == [key |-> <<>>, counter |-> 0, ctx |-> <<>>]

(* What a code is computed from: secret, algorithm and digits, the counter, *)
(* the context.                                                             *)
Codes ==
    {NoCode} \cup [key : Seq(Nat) \X {"SHA1", "SHA256", "SHA512"} \X Nat, counter : Nat, ctx : Seq(Nat)]

(* Base64 text: "none" is the empty string, "blank" one of line breaks      *)
(* only, "bad" one that does not decode.                                    *)
Texts ==
    {t \in [kind : {"none", "blank", "bad", "text"}, bytes : Seq(Nat)] :
        t.kind # "text" => t.bytes = <<>>}

Requests ==
    [op : {"generate", "verify", "new_secret", "build_context"}, len : Nat,
     secret : Texts, algorithm : STRING, digits : Nat, period : Nat, time : Nat \cup {None},
     context : Texts, code : Codes, issued : Texts, request : Texts, window : Nat,
     fields : Seq([setter : STRING, key : Seq(Nat), value : Seq(Nat)])]

ASSUME WasmAssumption ==
    /\ {MaxWindow, MaxUint, MaxTime, MaxCall} \subseteq Nat
    /\ Asks \in [Hosts -> SUBSET [req : Requests, size : Nat, inputLen : Nat]]
    /\ \A h \in Hosts : \A a \in Asks[h] :
          EqBytes(a.req.issued.bytes, a.req.request.bytes) <=> a.req.issued.bytes = a.req.request.bytes

VARIABLES
    now,            \* time.Now().Unix()
    allocBuf,       \* [host, size, request]: who got its pointer, what was written there
    resultBuf,
    running,        \* generate between its two readings of the clock
    trapped,        \* the host whose call panicked; the instance is gone
    pc,             \* pc[h]: where h is in its exchange
    ask,            \* ask[h]: what it asks, and the code it has from generate
    overlapped,     \* overlapped[h]: another host called an export since h's alloc
    lastCode        \* what generate returned last, for which request, and how many
                    \* steps ended between its two readings of the clock

hostVars == <<pc, ask, overlapped>>
instanceVars == <<allocBuf, resultBuf, running, trapped>>
vars == <<now, instanceVars, hostVars, lastCode>>

Init ==
    /\ now = 0
    /\ allocBuf = [host |-> None, size |-> 0, request |-> None]
    /\ resultBuf = [kind |-> "empty"]
    /\ running = None
    /\ trapped = None
    /\ pc = [h \in Hosts |-> "idle"]
    /\ ask = [h \in Hosts |-> None]
    /\ overlapped = [h \in Hosts |-> FALSE]
    /\ lastCode = [code |-> NoCode, expiresAt |-> 0, req |-> None, crossed |-> 0]

Tick ==
    /\ now < MaxTime
    /\ running # None => now < running.since + MaxCall
    /\ now' = now + 1
    /\ UNCHANGED <<instanceVars, hostVars, lastCode>>

(* Exports run one at a time, and none after a panic. *)
Free == running = None /\ trapped = None

(* h enters at pc n with an export, which all others in an exchange notice. *)
Export(h, n) ==
    /\ pc' = [pc EXCEPT ![h] = n]
    /\ overlapped' = [o \in Hosts |-> IF o = h THEN pc[h] # "idle" /\ overlapped[h]
                                               ELSE pc[o] # "idle"]

-----------------------------------------------------------------------------
(* alloc, and what the host does by itself. *)

(* Keeps a buffer that it already has. *)
NewBuffer_Kept(h, size) ==
    IF allocBuf.size > 0 THEN [allocBuf EXCEPT !.host = h]
    ELSE [host |-> h, size |-> size, request |-> None]

NewBuffer(h, size) == [host |-> h, size |-> size, request |-> None]

(* What a host is about to ask: with the last code it was given, if it asks *)
(* for a verification.                                                      *)
NewAsk(a) ==
    LET verifies == a.req.op = "verify"
    IN  [req |-> [a.req EXCEPT !.code = IF verifies THEN lastCode.code ELSE @],
         size |-> a.size, inputLen |-> a.inputLen,
         given |-> IF verifies THEN lastCode ELSE None]

Alloc(h, a) ==
    /\ Free /\ pc[h] = "idle"
    /\ allocBuf' = NewBuffer(h, a.size)
    /\ ask' = [ask EXCEPT ![h] = NewAsk(a)]
    /\ Export(h, "allocated")
    /\ UNCHANGED <<now, resultBuf, running, trapped, lastCode>>

(* new_secret takes no request: a host can call it without a buffer. *)
SkipAlloc(h, a) ==
    /\ Free /\ pc[h] = "idle" /\ a.req.op = "new_secret"
    /\ ask' = [ask EXCEPT ![h] = NewAsk(a)]
    /\ pc' = [pc EXCEPT ![h] = "written"]
    /\ UNCHANGED <<now, instanceVars, overlapped, lastCode>>

(* The host goes on with the pointer and the size it has. *)
Reuse(h, a) ==
    /\ Free /\ pc[h] = "returned" /\ ask[h].req.op # "new_secret"
    /\ a.size = ask[h].size
    /\ ask' = [ask EXCEPT ![h] = NewAsk(a)]
    /\ pc' = [pc EXCEPT ![h] = "allocated"]
    /\ UNCHANGED <<now, instanceVars, overlapped, lastCode>>

(* A pointer from before the last alloc is to a buffer that no call reads;  *)
(* the host writes no more than it asked for, and a request that is cut off *)
(* is none.                                                                 *)
Write(h) ==
    /\ Free /\ pc[h] = "allocated"
    /\ allocBuf' = IF allocBuf.host # h THEN allocBuf
                   ELSE [allocBuf EXCEPT !.request =
                           IF ask[h].req.len <= ask[h].size THEN ask[h].req ELSE None]
    /\ pc' = [pc EXCEPT ![h] = "written"]
    /\ UNCHANGED <<now, resultBuf, running, trapped, ask, overlapped, lastCode>>

(* The host has read resultBuf, or gives up. *)
Leave(h) ==
    /\ Free /\ pc[h] \in {"allocated", "written", "returned"}
    /\ pc' = [pc EXCEPT ![h] = "idle"]
    /\ ask' = [ask EXCEPT ![h] = None]
    /\ overlapped' = [overlapped EXCEPT ![h] = FALSE]
    /\ UNCHANGED <<now, instanceVars, lastCode>>

-----------------------------------------------------------------------------
(* What the calls have in common. *)

(* Whatever is at the pointer that the host passes, the request is the      *)
(* first inputLen bytes of the last buffer; past its end the slice          *)
(* expression panics.                                                       *)
Request == allocBuf.request

Panics(h) == ask[h].req.op # "new_secret" /\ ask[h].inputLen > allocBuf.size

Trap(h) ==
    /\ Free /\ pc[h] = "written" /\ Panics(h)
    /\ trapped' = h
    /\ UNCHANGED <<now, allocBuf, resultBuf, running, hostVars, lastCode>>

Calls(h, op) == Free /\ pc[h] = "written" /\ ask[h].req.op = op /\ ~ Panics(h)

Returns(h, result) ==
    /\ resultBuf' = result
    /\ Export(h, "returned")
    /\ UNCHANGED <<now, allocBuf, running, trapped, ask, lastCode>>

(* json.Unmarshal takes the whole object and nothing after it. *)
Parses(h) == Request # None /\ Request.len = ask[h].inputLen

ParseAlgo(s) == IF s \in {"SHA256", "SHA512"} THEN s ELSE "SHA1"

Undecodable(text) == text.kind = "bad"

(* How generate and verify begin: the JSON, the secret, NewTOTP. *)
Accepts(h) ==
    /\ Parses(h)
    /\ ~ Undecodable(Request.secret) /\ Request.secret.bytes # <<>>
    /\ Request.digits \in 6 .. 8
    /\ Request.period # 0

Code(r, counter, context) ==
    [key |-> <<r.secret.bytes, ParseAlgo(r.algorithm), r.digits>>, counter |-> counter, ctx |-> context]

TimeOrNow(r) == IF r.time = None THEN now ELSE r.time

(* Returns without a report. *)
SetError_Silent(h) == Returns(h, resultBuf)

SetError(h) == Returns(h, [kind |-> "error"])

-----------------------------------------------------------------------------
(* generate reads the clock for the code and, once more, for its expiry. *)

Generates(h) == Accepts(h) /\ ~ Undecodable(Request.context)

GenerateFails(h) == Calls(h, "generate") /\ ~ Generates(h) /\ SetError(h)

GenerateCode(h) ==
    /\ Calls(h, "generate")
    /\ Generates(h)
    /\ running' = [host |-> h, since |-> now,
                   code |-> Code(Request, TimeOrNow(Request) \div Request.period, Request.context.bytes)]
    /\ UNCHANGED <<now, allocBuf, resultBuf, trapped, hostVars, lastCode>>

(* The end of the step after. *)
ExpiresAt_Late(t, period) == ((t \div period + 2) * period) % (MaxUint + 1)

ExpiresAt(t, period) == ((t \div period + 1) * period) % (MaxUint + 1)

GenerateReturns(h) ==
    /\ running # None /\ running.host = h
    /\ resultBuf' = [kind |-> "code", code |-> running.code,
                     expiresAt |-> ExpiresAt(TimeOrNow(Request), Request.period)]
    /\ lastCode' = [code |-> running.code, expiresAt |-> resultBuf'.expiresAt, req |-> Request,
                    crossed |-> now \div Request.period - running.since \div Request.period]
    /\ running' = None
    /\ Export(h, "returned")
    /\ UNCHANGED <<now, allocBuf, trapped, ask>>

-----------------------------------------------------------------------------
(* verify. *)

Bound(r) == r.issued.kind # "none" \/ r.request.kind # "none"

(* The contexts are not compared. *)
SameContext_Any(r) == TRUE

SameContext(r) == Bound(r) => EqBytes(r.issued.bytes, r.request.bytes)

(* TOTP.Verify or TOTP.VerifyBound with the issued context. *)
Matches(r) ==
    LET counter == TimeOrNow(r) \div r.period
        test(i) == IF counter + i \in 0 .. MaxUint THEN counter + i ELSE 0
    IN  \E i \in -r.window .. r.window : r.code = Code(r, test(i), r.issued.bytes)

Verifies(h) ==
    /\ Accepts(h)
    /\ ~ Undecodable(Request.issued) /\ ~ Undecodable(Request.request)
    /\ Request.window <= MaxWindow

VerifyFails(h) == Calls(h, "verify") /\ ~ Verifies(h) /\ SetError(h)

Verify(h) ==
    /\ Calls(h, "verify")
    /\ Verifies(h)
    /\ Returns(h, [kind |-> "valid", valid |-> Matches(Request) /\ SameContext(Request)])

-----------------------------------------------------------------------------
(* new_secret, which reads no request and fails with the random source, and *)
(* build_context, which leaves out the fields that are empty.               *)

NewSecret(h) ==
    /\ Calls(h, "new_secret")
    /\ SetError(h) \/ Returns(h, [kind |-> "secret"])

BuildContext(h) ==
    LET set(call) == call.value # <<>>
    IN  /\ Calls(h, "build_context")
        /\ \/ ~ Parses(h) /\ SetError(h)
           \/ Parses(h) /\ Returns(h, [kind |-> "context",
                            context |-> Build(Fields(SelectSeq(Request.fields, set)))])

Next ==
    \/ Tick
    \/ \E h \in Hosts :
          \/ \E a \in Asks[h] : Alloc(h, a) \/ SkipAlloc(h, a) \/ Reuse(h, a)
          \/ Write(h) \/ Leave(h)
          \/ Trap(h)
          \/ GenerateFails(h) \/ GenerateCode(h) \/ GenerateReturns(h)
          \/ VerifyFails(h) \/ Verify(h)
          \/ NewSecret(h) \/ BuildContext(h)

Spec == Init /\ [][Next]_vars

-----------------------------------------------------------------------------
(* Properties. *)

(* h can read its result, and no other host came between. *)
Alone(h) == pc[h] = "returned" /\ ~ overlapped[h]

(* The kind of result that a well-formed request of this call has. *)
ResultKind(r) ==
    CASE r.op = "generate"      -> "code"
      [] r.op = "verify"        -> "valid"
      [] r.op = "new_secret"    -> "secret"
      [] r.op = "build_context" -> "context"

(* A host that no other came between reads the answer to its own request,   *)
(* whatever earlier exchanges, finished or not, left in the buffers: an     *)
(* error, or the kind of its call, and a code for its key and context.      *)
AnswersOwnRequest ==
    \A h \in Hosts : Alone(h) =>
        \/ resultBuf.kind = "error"
        \/ /\ resultBuf.kind = ResultKind(ask[h].req)
           /\ resultBuf.kind # "secret" => ask[h].req.len = ask[h].inputLen
           /\ resultBuf.kind = "code" =>
                 /\ resultBuf.code = Code(ask[h].req, resultBuf.code.counter, ask[h].req.context.bytes)
                 /\ resultBuf.expiresAt = lastCode.expiresAt

Verified(h) == Alone(h) /\ resultBuf.kind = "valid"

(* A code that generate made at the current time verifies until the         *)
(* expires_at it came with.  Because expires_at is from a second reading of *)
(* the clock, this takes a window of as many steps as ended between the two.*)
AcceptedUntilExpiry ==
    \A h \in Hosts : Verified(h) =>
        LET r == ask[h].req
            c == ask[h].given
        IN  /\ c.req # None /\ Code(r, 0, <<>>) = Code(c.req, 0, <<>>) /\ r.period = c.req.period
            /\ {r.issued.bytes, r.request.bytes} = {c.req.context.bytes}
            /\ r.time = None /\ c.req.time = None /\ now < c.expiresAt
            /\ r.window >= c.crossed
            => resultBuf.valid

(* verify accepts a code only under the key and in the context that it was  *)
(* generated for, and only when the request comes from that context.        *)
ValidInItsContextOnly ==
    \A h \in Hosts : Verified(h) /\ resultBuf.valid =>
        LET r == ask[h].req
            c == ask[h].given
        IN  /\ Code(r, 0, <<>>) = Code(c.req, 0, <<>>)
            /\ {r.issued.bytes, r.request.bytes} = {c.req.context.bytes}

(* A host that asks for no more than it allocated never takes the instance  *)
(* down, unless another one allocated after it.                             *)
TrapsOnlyPastTheEnd ==
    trapped # None => ask[trapped].inputLen > ask[trapped].size \/ overlapped[trapped]

=============================================================================
