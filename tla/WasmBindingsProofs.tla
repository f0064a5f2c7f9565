------------------------- MODULE WasmBindingsProofs -------------------------
(***************************************************************************)
(* Proofs about WasmBindings: for any hosts, requests, clock and length of *)
(* a call.                                                                 *)
(***************************************************************************)
EXTENDS WasmBindings, TLAPS

(* What generate returned, and what a host has asked. *)
Made   == [code : Codes, expiresAt : Nat, req : Requests \cup {None}, crossed : Nat]
Asking == [req : Requests, size : Nat, inputLen : Nat, given : Made \cup {None}]

Typed ==
    /\ now \in Nat
    /\ allocBuf \in [host : Hosts \cup {None}, size : Nat, request : Requests \cup {None}]
    /\ pc \in [Hosts -> {"idle", "allocated", "written", "returned"}]
    /\ overlapped \in [Hosts -> BOOLEAN]
    /\ ask \in [Hosts -> Asking \cup {None}]
    /\ lastCode \in Made

(* A code that was made from the clock by the time t: the second reading was*)
(* in the step counter + crossed, which began by then, and expires_at is no *)
(* later than the end of that step.                                         *)
InTime(c, t) ==
    /\ c.code.counter + c.crossed <= t \div c.req.period
    /\ c.expiresAt <= (c.code.counter + c.crossed + 1) * c.req.period
    /\ c.expiresAt <= MaxUint

(* What generate returned by the time t is a code of its request, if there  *)
(* was one.                                                                 *)
Genuine(c, t) ==
    \/ c.req = None /\ c.code = NoCode
    \/ /\ c.req \in Requests
       /\ c.req.period # 0
       /\ c.code = Code(c.req, c.code.counter, c.req.context.bytes)
       /\ c.code.counter \in Nat
       /\ c.req.time = None => InTime(c, t)

(* A host in an exchange has asked, with the code that generate returned    *)
(* before; its two contexts compare as they should.                         *)
Asked(h) ==
    /\ ask[h] \in Asking
    /\ EqBytes(ask[h].req.issued.bytes, ask[h].req.request.bytes)
       <=> ask[h].req.issued.bytes = ask[h].req.request.bytes
    /\ ask[h].req.op = "verify" =>
          /\ ask[h].given \in Made
          /\ ask[h].given.code = ask[h].req.code
          /\ Genuine(ask[h].given, now)

(* The buffer is that of the host that no other came between; new_secret    *)
(* needs none.                                                              *)
OwnsBuffer(h) ==
    ask[h].req.op # "new_secret" => allocBuf.host = h /\ allocBuf.size = ask[h].size

(* It holds what the host wrote or nothing. *)
OwnRequest(h) ==
    ask[h].req.op # "new_secret" => allocBuf.request \in {None, ask[h].req}

(* Between its two readings of the clock, generate works on the request     *)
(* that is in the buffer.                                                   *)
Generating(g) ==
    /\ g.host \in Hosts /\ g.since \in Nat /\ g.since <= now
    /\ pc[g.host] = "written" /\ ask[g.host].req.op = "generate"
    /\ Request \in Requests \ {None} /\ Request.period # 0 /\ Request.len = ask[g.host].inputLen
    /\ g.code = Code(Request, (IF Request.time = None THEN g.since ELSE Request.time) \div Request.period,
                     Request.context.bytes)

Exchanges ==
    /\ \A h \in Hosts : pc[h] # "idle" => Asked(h)
    /\ \A h \in Hosts : pc[h] # "idle" /\ ~ overlapped[h] => OwnsBuffer(h)
    /\ \A h \in Hosts : pc[h] = "written" /\ ~ overlapped[h] => OwnRequest(h)

Instance ==
    /\ Genuine(lastCode, now)
    /\ running # None => Generating(running) /\ trapped = None
    /\ trapped \in Hosts \cup {None}

Promises == AnswersOwnRequest /\ AcceptedUntilExpiry /\ ValidInItsContextOnly

WasmInv == Typed /\ Exchanges /\ Instance /\ Promises /\ TrapsOnlyPastTheEnd

-----------------------------------------------------------------------------
(* Steps of the clock. *)

(* Integer division does not decrease. *)
LEMMA DivMonotone ==
    ASSUME NEW a \in Nat, NEW b \in Nat, NEW p \in Nat \ {0}, a <= b
    PROVE  a \div p \in Nat /\ a \div p <= b \div p
  OBVIOUS

(* A time before the end of a step is in that step or in an earlier one. *)
LEMMA DivBelow ==
    ASSUME NEW a \in Nat, NEW q \in Nat, NEW p \in Nat \ {0}, a < (q + 1) * p
    PROVE  a \div p <= q
  OBVIOUS

(* What generate returned is still so at a later time. *)
LEMMA GenuineLater ==
    ASSUME NEW c \in Made, NEW t \in Nat, NEW u \in Nat, t <= u, Genuine(c, t)
    PROVE  Genuine(c, u)
  <1>1. CASE c.req = None /\ c.code = NoCode
    BY <1>1 DEF Genuine
  <1>2. CASE ~ (c.req = None /\ c.code = NoCode)
    <2>1. c.req.period \in Nat \ {0}
      BY <1>2 DEF Genuine, Requests
    <2>2. t \div c.req.period \in Nat /\ t \div c.req.period <= u \div c.req.period
      BY <2>1, DivMonotone
    <2>3. u \div c.req.period \in Nat
      BY <2>1, DivMonotone
    <2>4. c.crossed \in Nat
      BY DEF Made
    <2>5. ASSUME InTime(c, t), c.code.counter \in Nat
          PROVE  InTime(c, u)
      BY <2>2, <2>3, <2>4, <2>5 DEF InTime
    <2> QED BY <1>2, <2>5 DEF Genuine
  <1> QED BY <1>1, <1>2

-----------------------------------------------------------------------------
(* What the properties say of one host that reads its result. *)

Answered(h) ==
    \/ resultBuf.kind = "error"
    \/ /\ resultBuf.kind = ResultKind(ask[h].req)
       /\ resultBuf.kind # "secret" => ask[h].req.len = ask[h].inputLen
       /\ resultBuf.kind = "code" =>
             /\ resultBuf.code = Code(ask[h].req, resultBuf.code.counter, ask[h].req.context.bytes)
             /\ resultBuf.expiresAt = lastCode.expiresAt

Fresh(r, c) ==
    /\ c.req # None /\ Code(r, 0, <<>>) = Code(c.req, 0, <<>>) /\ r.period = c.req.period
    /\ {r.issued.bytes, r.request.bytes} = {c.req.context.bytes}
    /\ r.time = None /\ c.req.time = None
    /\ r.window >= c.crossed

InContext(r, c) ==
    /\ Code(r, 0, <<>>) = Code(c.req, 0, <<>>)
    /\ {r.issued.bytes, r.request.bytes} = {c.req.context.bytes}

Judged(h) ==
    resultBuf.kind = "valid" =>
        /\ Fresh(ask[h].req, ask[h].given) /\ now < ask[h].given.expiresAt => resultBuf.valid
        /\ resultBuf.valid => InContext(ask[h].req, ask[h].given)

(* The three properties, host by host. *)
LEMMA PromisesByHost ==
    Promises <=> \A h \in Hosts : Alone(h) => Answered(h) /\ Judged(h)
  BY DEF Promises, AnswersOwnRequest, AcceptedUntilExpiry, ValidInItsContextOnly, Verified,
         Answered, Judged, Fresh, InContext

(* The same for the state after a step. *)
LEMMA PromisesByHostAfter ==
    Promises' <=> \A h \in Hosts : Alone(h)' => Answered(h)' /\ Judged(h)'
  BY DEF Promises, AnswersOwnRequest, AcceptedUntilExpiry, ValidInItsContextOnly, Verified,
         Answered, Judged, Fresh, InContext

(* No host has asked, made or returned anything. *)
LEMMA InitWasm == Init => WasmInv
  <1> SUFFICES ASSUME Init PROVE WasmInv
    OBVIOUS
  <1>1. Typed
    BY DEF Init, Typed, Made, Codes
  <1>2. Exchanges /\ Promises
    BY DEF Init, Exchanges, Promises, AnswersOwnRequest, AcceptedUntilExpiry, ValidInItsContextOnly,
           Verified, Alone
  <1>3. Instance /\ TrapsOnlyPastTheEnd
    BY DEF Init, Instance, Genuine, TrapsOnlyPastTheEnd
  <1> QED BY <1>1, <1>2, <1>3 DEF WasmInv

(* Only verify says whether a code is valid. *)
LEMMA OnlyVerifyJudges ==
    ASSUME NEW r \in Requests, ResultKind(r) = "valid"
    PROVE  r.op = "verify"
  <1>1. r.op \in {"generate", "verify", "new_secret", "build_context"}
    BY DEF Requests
  <1> QED BY <1>1 DEF ResultKind

(* Code yields codes. *)
LEMMA CodeTyped ==
    ASSUME NEW r \in Requests, NEW n \in Nat, NEW ctx \in Seq(Nat)
    PROVE  Code(r, n, ctx) \in Codes /\ Code(r, n, ctx).counter = n
  <1>1. r.secret.bytes \in Seq(Nat) /\ r.digits \in Nat
    BY DEF Requests, Texts
  <1>2. ParseAlgo(r.algorithm) \in {"SHA1", "SHA256", "SHA512"}
    BY DEF ParseAlgo
  <1>3. <<r.secret.bytes, ParseAlgo(r.algorithm), r.digits>> \in Seq(Nat) \X {"SHA1", "SHA256", "SHA512"} \X Nat
    BY <1>1, <1>2
  <1> QED BY <1>3 DEF Code, Codes

-----------------------------------------------------------------------------
(* The clock. *)

(* The passing of time. *)
LEMMA TickKeeps == WasmInv /\ Tick => WasmInv'
  <1> SUFFICES ASSUME WasmInv, Tick PROVE WasmInv'
    OBVIOUS
  <1>0. now \in Nat /\ now' \in Nat /\ now <= now'
    BY DEF WasmInv, Typed, Tick
  <1>1. /\ UNCHANGED <<allocBuf, resultBuf, running, trapped, pc, ask, overlapped, lastCode>>
    BY DEF Tick, instanceVars, hostVars
  <1>2. Typed'
    BY <1>0, <1>1 DEF WasmInv, Typed
  <1>3. ASSUME NEW h \in Hosts, pc[h] # "idle"
        PROVE  Asked(h)'
    <2>1. Asked(h)
      BY <1>3 DEF WasmInv, Exchanges
    <2>2. ask[h].req.op = "verify" => Genuine(ask[h].given, now')
      BY <1>0, <2>1, GenuineLater DEF Asked
    <2> QED BY <1>1, <2>1, <2>2 DEF Asked
  <1>4. Exchanges'
    BY <1>1, <1>3 DEF WasmInv, Exchanges, OwnsBuffer, OwnRequest
  <1>5. Instance'
    <2>1. Genuine(lastCode, now')
      BY <1>0, GenuineLater DEF WasmInv, Typed, Instance
    <2>2. running # None => Generating(running)'
      BY <1>0, <1>1 DEF WasmInv, Instance, Generating, Request
    <2> QED BY <1>1, <2>1, <2>2 DEF WasmInv, Instance
  <1>6. ASSUME NEW h \in Hosts, Alone(h)'
        PROVE  Answered(h)' /\ Judged(h)'
    <2>1. Alone(h) /\ Answered(h) /\ Judged(h)
      BY <1>1, <1>6, PromisesByHost DEF WasmInv, Alone
    <2>2. Answered(h)'
      BY <1>1, <2>1 DEF Answered
    <2>3. Asked(h)
      BY <2>1 DEF Alone, WasmInv, Exchanges
    <2>4. ASSUME resultBuf.kind = "valid" PROVE ask[h].given.expiresAt \in Nat
      BY <2>1, <2>3, <2>4, OnlyVerifyJudges DEF Answered, Asked, Asking, Made
    <2>5. Judged(h)'
      BY <1>0, <1>1, <2>1, <2>4 DEF Judged
    <2> QED BY <2>2, <2>5
  <1>7. Promises'
    BY <1>6, PromisesByHostAfter
  <1>8. TrapsOnlyPastTheEnd'
    BY <1>1 DEF WasmInv, TrapsOnlyPastTheEnd
  <1> QED BY <1>2, <1>4, <1>5, <1>7, <1>8 DEF WasmInv

-----------------------------------------------------------------------------
(* What the host does. *)

(* An export is noticed by every other host in an exchange. *)
LEMMA ExportMarks ==
    ASSUME NEW h \in Hosts, NEW n \in {"allocated", "returned"}, Typed, Export(h, n)
    PROVE  /\ pc' \in [Hosts -> {"idle", "allocated", "written", "returned"}]
           /\ overlapped' \in [Hosts -> BOOLEAN]
           /\ pc'[h] = n
           /\ overlapped'[h] = (pc[h] # "idle" /\ overlapped[h])
           /\ \A o \in Hosts \ {h} : pc'[o] = pc[o] /\ overlapped'[o] = (pc[o] # "idle")
  BY DEF Typed, Export

(* What a host is about to ask comes with the last code, if it is going to  *)
(* verify; the other hosts' asks stay.                                      *)
LEMMA NewAskTyped ==
    ASSUME WasmInv, NEW h \in Hosts, NEW a \in Asks[h],
           ask' = [ask EXCEPT ![h] = NewAsk(a)], UNCHANGED <<now, lastCode>>
    PROVE  /\ ask' \in [Hosts -> Asking \cup {None}]
           /\ \A o \in Hosts \ {h} : ask'[o] = ask[o]
           /\ ask'[h].req.op = a.req.op /\ ask'[h].size = a.size
           /\ a.size \in Nat
           /\ Asked(h)'
           /\ \A o \in Hosts \ {h} : pc[o] # "idle" => Asked(o)'
  <1> DEFINE code  == IF a.req.op = "verify" THEN lastCode.code ELSE a.req.code
             given == IF a.req.op = "verify" THEN lastCode ELSE None
             asked == [req |-> [a.req EXCEPT !.code = code], size |-> a.size,
                       inputLen |-> a.inputLen, given |-> given]
  <1>1. /\ a.req \in Requests /\ a.size \in Nat /\ a.inputLen \in Nat
        /\ EqBytes(a.req.issued.bytes, a.req.request.bytes) <=> a.req.issued.bytes = a.req.request.bytes
    BY WasmAssumption
  <1>2. Typed
    BY DEF WasmInv
  <1>3. ask' = [ask EXCEPT ![h] = asked]
    BY DEF NewAsk
  <1>4. code \in Codes
    BY <1>1, <1>2 DEF Typed, Made, Requests
  <1>5. /\ [a.req EXCEPT !.code = code] \in Requests
        /\ [a.req EXCEPT !.code = code].code = code
        /\ [a.req EXCEPT !.code = code].op = a.req.op
        /\ [a.req EXCEPT !.code = code].issued = a.req.issued
        /\ [a.req EXCEPT !.code = code].request = a.req.request
    <2> HIDE DEF code
    <2> QED BY <1>1, <1>4 DEF Requests
  <1>6. given \in Made \cup {None}
    BY <1>2 DEF Typed
  <1>7. asked \in Asking
    <2> HIDE DEF code, given
    <2> QED BY <1>1, <1>5, <1>6 DEF Asking
  <1>8. ask' \in [Hosts -> Asking \cup {None}] /\ ask'[h] = asked
        /\ \A o \in Hosts \ {h} : ask'[o] = ask[o]
    <2> HIDE DEF asked
    <2> QED BY <1>2, <1>3, <1>7 DEF Typed
  <1>9. Asked(h)'
    <2>1. asked.req.op = "verify" => given = lastCode /\ code = lastCode.code
      BY <1>5
    <2>2. Genuine(lastCode, now)
      BY DEF WasmInv, Instance
    <2>3. lastCode \in Made
      BY <1>2 DEF Typed
    <2>4. /\ ask'[h] \in Asking /\ ask'[h].given = given /\ ask'[h].req.code = code
          /\ ask'[h].req.op = asked.req.op
          /\ ask'[h].req.issued = a.req.issued /\ ask'[h].req.request = a.req.request
      <3>1. /\ asked.given = given /\ asked.req.code = code
            /\ asked.req.issued = a.req.issued /\ asked.req.request = a.req.request
        BY <1>5, Zenon
      <3> HIDE DEF asked
      <3> QED BY <1>7, <1>8, <3>1
    <2> HIDE DEF code, given, asked
    <2> QED BY <1>1, <2>1, <2>2, <2>3, <2>4 DEF Asked
  <1>10. ASSUME NEW o \in Hosts \ {h}, pc[o] # "idle"
         PROVE  Asked(o)'
    BY <1>8, <1>10 DEF WasmInv, Exchanges, Asked
  <1>11. ask'[h].req.op = a.req.op /\ ask'[h].size = a.size
    <2>1. asked.req.op = a.req.op /\ asked.size = a.size
      BY <1>5, Zenon
    <2> HIDE DEF asked
    <2> QED BY <1>8, <2>1
  <1> HIDE DEF asked
  <1> QED BY <1>1, <1>8, <1>9, <1>10, <1>11

(* alloc gives the host a buffer of its own. *)
LEMMA AllocKeeps ==
    ASSUME WasmInv, NEW h \in Hosts, NEW a \in Asks[h], Alloc(h, a)
    PROVE  WasmInv'
  <1>1. Typed
    BY DEF WasmInv
  <1>2. /\ UNCHANGED <<now, resultBuf, running, trapped, lastCode>>
        /\ running = None /\ trapped = None
        /\ allocBuf' = [host |-> h, size |-> a.size, request |-> None]
        /\ ask' = [ask EXCEPT ![h] = NewAsk(a)]
        /\ Export(h, "allocated")
    BY DEF Alloc, Free, NewBuffer
  <1>3. /\ pc' \in [Hosts -> {"idle", "allocated", "written", "returned"}]
        /\ overlapped' \in [Hosts -> BOOLEAN]
        /\ pc'[h] = "allocated"
        /\ \A o \in Hosts \ {h} : pc'[o] = pc[o] /\ overlapped'[o] = (pc[o] # "idle")
    BY <1>1, <1>2, ExportMarks
  <1>4. /\ ask' \in [Hosts -> Asking \cup {None}]
        /\ ask'[h].size = a.size /\ a.size \in Nat
        /\ Asked(h)'
        /\ \A o \in Hosts \ {h} : pc[o] # "idle" => Asked(o)'
    BY <1>2, NewAskTyped
  <1>5. Typed'
    BY <1>1, <1>2, <1>3, <1>4 DEF Typed
  <1>6. OwnsBuffer(h)'
    BY <1>2, <1>4 DEF OwnsBuffer
  <1>7. Exchanges'
    BY <1>3, <1>4, <1>6 DEF Exchanges
  <1>8. Instance'
    BY <1>2 DEF WasmInv, Instance
  <1>9. \A o \in Hosts : ~ Alone(o)'
    BY <1>3 DEF Alone
  <1>10. Promises'
    BY <1>9, PromisesByHostAfter
  <1>11. TrapsOnlyPastTheEnd'
    BY <1>2 DEF TrapsOnlyPastTheEnd
  <1> QED BY <1>5, <1>7, <1>8, <1>10, <1>11 DEF WasmInv

(* A host that calls new_secret at once, or that goes on with the buffer it *)
(* has, changes nothing in the instance.                                    *)
LEMMA NoAllocKeeps ==
    ASSUME WasmInv, NEW h \in Hosts, NEW a \in Asks[h], SkipAlloc(h, a) \/ Reuse(h, a)
    PROVE  WasmInv'
  <1>1. Typed
    BY DEF WasmInv
  <1>2. PICK n \in {"allocated", "written"} :
        /\ UNCHANGED <<now, allocBuf, resultBuf, running, trapped, overlapped, lastCode>>
        /\ running = None /\ trapped = None
        /\ ask' = [ask EXCEPT ![h] = NewAsk(a)]
        /\ pc' = [pc EXCEPT ![h] = n]
        /\ \/ n = "written" /\ a.req.op = "new_secret"
           \/ /\ n = "allocated" /\ pc[h] = "returned"
              /\ ask[h].req.op # "new_secret" /\ a.size = ask[h].size
    BY DEF SkipAlloc, Reuse, Free, instanceVars
  <1>3. /\ pc' \in [Hosts -> {"idle", "allocated", "written", "returned"}]
        /\ pc'[h] = n
        /\ \A o \in Hosts \ {h} : pc'[o] = pc[o]
    BY <1>1, <1>2 DEF Typed
  <1>4. /\ ask' \in [Hosts -> Asking \cup {None}]
        /\ \A o \in Hosts \ {h} : ask'[o] = ask[o]
        /\ ask'[h].req.op = a.req.op /\ ask'[h].size = a.size
        /\ Asked(h)'
        /\ \A o \in Hosts \ {h} : pc[o] # "idle" => Asked(o)'
    BY <1>2, NewAskTyped
  <1>5. Typed'
    BY <1>1, <1>2, <1>3, <1>4 DEF Typed
  <1>6. ~ overlapped[h] => OwnsBuffer(h)'
    <2>1. CASE n = "written"
      BY <1>2, <1>4, <2>1 DEF OwnsBuffer
    <2>2. CASE n = "allocated"
      BY <1>2, <1>4, <2>2 DEF WasmInv, Exchanges, OwnsBuffer
    <2> QED BY <2>1, <2>2
  <1>7. n = "written" => OwnRequest(h)'
    BY <1>2, <1>4 DEF OwnRequest
  <1>8. \A o \in Hosts \ {h} : ~ overlapped[o] =>
           /\ pc[o] # "idle" => OwnsBuffer(o)'
           /\ pc[o] = "written" => OwnRequest(o)'
    BY <1>2, <1>4 DEF WasmInv, Exchanges, OwnsBuffer, OwnRequest
  <1>9. Exchanges'
    BY <1>2, <1>3, <1>4, <1>6, <1>7, <1>8 DEF Exchanges
  <1>10. Instance'
    BY <1>2 DEF WasmInv, Instance
  <1>11. ASSUME NEW o \in Hosts, Alone(o)'
         PROVE  Answered(o)' /\ Judged(o)'
    <2>1. o # h /\ Alone(o)
      BY <1>2, <1>3, <1>11 DEF Alone
    <2>2. Answered(o) /\ Judged(o)
      BY <2>1, PromisesByHost DEF WasmInv
    <2> QED BY <1>2, <1>4, <2>1, <2>2 DEF Answered, Judged
  <1>12. Promises'
    BY <1>11, PromisesByHostAfter
  <1>13. TrapsOnlyPastTheEnd'
    BY <1>2 DEF TrapsOnlyPastTheEnd
  <1> QED BY <1>5, <1>9, <1>10, <1>12, <1>13 DEF WasmInv

(* A host writes to the buffer only if that is its own. *)
LEMMA WriteKeeps ==
    ASSUME WasmInv, NEW h \in Hosts, Write(h)
    PROVE  WasmInv'
  <1>1. /\ UNCHANGED <<now, resultBuf, running, trapped, ask, overlapped, lastCode>>
        /\ running = None /\ trapped = None
        /\ pc[h] = "allocated"
        /\ pc' = [pc EXCEPT ![h] = "written"]
        /\ allocBuf' = IF allocBuf.host # h THEN allocBuf
                       ELSE [allocBuf EXCEPT !.request =
                               IF ask[h].req.len <= ask[h].size THEN ask[h].req ELSE None]
    BY DEF Write, Free
  <1>2. Typed /\ Asked(h)
    BY <1>1 DEF WasmInv, Exchanges
  <1>3. /\ pc' \in [Hosts -> {"idle", "allocated", "written", "returned"}]
        /\ pc'[h] = "written"
        /\ \A o \in Hosts \ {h} : pc'[o] = pc[o]
    BY <1>1, <1>2 DEF Typed
  <1>4. /\ allocBuf' \in [host : Hosts \cup {None}, size : Nat, request : Requests \cup {None}]
        /\ allocBuf'.host = allocBuf.host /\ allocBuf'.size = allocBuf.size
        /\ allocBuf.host = h => allocBuf'.request \in {None, ask[h].req}
        /\ allocBuf.host # h => allocBuf' = allocBuf
    BY <1>1, <1>2 DEF Typed, Asked, Asking
  <1>5. Typed'
    BY <1>1, <1>2, <1>3, <1>4 DEF Typed
  <1>6. \A o \in Hosts : pc'[o] # "idle" => Asked(o)'
    BY <1>1, <1>2, <1>3 DEF WasmInv, Exchanges, Asked
  <1>7. ASSUME NEW o \in Hosts, ~ overlapped'[o]
        PROVE  /\ pc'[o] # "idle" => OwnsBuffer(o)'
               /\ pc'[o] = "written" => OwnRequest(o)'
    <2>1. pc[o] # "idle" => OwnsBuffer(o)
      BY <1>1, <1>7 DEF WasmInv, Exchanges
    <2>2. pc'[o] # "idle" => OwnsBuffer(o)'
      BY <1>1, <1>3, <1>4, <2>1 DEF OwnsBuffer
    <2>3. CASE o = h
      BY <1>1, <1>4, <2>1, <2>2, <2>3 DEF OwnsBuffer, OwnRequest
    <2>4. CASE o # h
      <3>1. pc'[o] = "written" => OwnRequest(o)
        BY <1>1, <1>3, <1>7, <2>4 DEF WasmInv, Exchanges
      <3>2. pc'[o] = "written" /\ ask[o].req.op # "new_secret" => allocBuf' = allocBuf
        BY <1>3, <1>4, <2>1, <2>4 DEF OwnsBuffer
      <3> QED BY <1>1, <2>2, <3>1, <3>2 DEF OwnRequest
    <2> QED BY <2>3, <2>4
  <1>8. Instance'
    BY <1>1 DEF WasmInv, Instance
  <1>9. ASSUME NEW o \in Hosts, Alone(o)'
        PROVE  Answered(o)' /\ Judged(o)'
    <2>1. Answered(o) /\ Judged(o)
      BY <1>1, <1>3, <1>9, PromisesByHost DEF WasmInv, Alone
    <2> QED BY <1>1, <2>1 DEF Answered, Judged
  <1>10. Promises'
    BY <1>9, PromisesByHostAfter
  <1>11. TrapsOnlyPastTheEnd'
    BY <1>1 DEF TrapsOnlyPastTheEnd
  <1> QED BY <1>5, <1>6, <1>7, <1>8, <1>10, <1>11 DEF WasmInv, Exchanges

(* A host that leaves takes only its own exchange with it. *)
LEMMA LeaveKeeps ==
    ASSUME WasmInv, NEW h \in Hosts, Leave(h)
    PROVE  WasmInv'
  <1>1. /\ UNCHANGED <<now, allocBuf, resultBuf, running, trapped, lastCode>>
        /\ running = None /\ trapped = None
        /\ pc' = [pc EXCEPT ![h] = "idle"]
        /\ ask' = [ask EXCEPT ![h] = None]
        /\ overlapped' = [overlapped EXCEPT ![h] = FALSE]
    BY DEF Leave, Free, instanceVars
  <1>2. Typed
    BY DEF WasmInv
  <1>3. /\ Typed'
        /\ pc'[h] = "idle"
        /\ \A o \in Hosts \ {h} : pc'[o] = pc[o] /\ ask'[o] = ask[o] /\ overlapped'[o] = overlapped[o]
    BY <1>1, <1>2 DEF Typed
  <1>4. \A o \in Hosts : pc'[o] # "idle" => Asked(o)'
    BY <1>1, <1>3 DEF WasmInv, Exchanges, Asked
  <1>5. \A o \in Hosts : ~ overlapped'[o] =>
           (pc'[o] # "idle" => OwnsBuffer(o)') /\ (pc'[o] = "written" => OwnRequest(o)')
    BY <1>1, <1>3 DEF WasmInv, Exchanges, OwnsBuffer, OwnRequest
  <1>6. Instance'
    BY <1>1 DEF WasmInv, Instance
  <1>7. ASSUME NEW o \in Hosts, Alone(o)'
        PROVE  Answered(o)' /\ Judged(o)'
    <2>1. o # h
      BY <1>3, <1>7 DEF Alone
    <2>2. Answered(o) /\ Judged(o)
      BY <1>3, <1>7, <2>1, PromisesByHost DEF WasmInv, Alone
    <2> QED BY <1>1, <1>3, <2>1, <2>2 DEF Answered, Judged
  <1>8. Promises'
    BY <1>7, PromisesByHostAfter
  <1>9. TrapsOnlyPastTheEnd'
    BY <1>1 DEF TrapsOnlyPastTheEnd
  <1> QED BY <1>3, <1>4, <1>5, <1>6, <1>8, <1>9 DEF WasmInv, Exchanges

-----------------------------------------------------------------------------
(* The calls. *)

(* What changes neither hosts nor buffers nor the clock leaves the          *)
(* exchanges and the promises as they were.                                 *)
LEMMA SameExchanges ==
    ASSUME WasmInv, UNCHANGED <<now, allocBuf, resultBuf, pc, ask, overlapped, lastCode>>
    PROVE  Typed' /\ Exchanges' /\ Promises'
  <1>1. Typed' /\ Exchanges'
    BY DEF WasmInv, Typed, Exchanges, Asked, OwnsBuffer, OwnRequest
  <1>2. ASSUME NEW o \in Hosts, Alone(o)'
        PROVE  Answered(o)' /\ Judged(o)'
    <2>1. Answered(o) /\ Judged(o)
      BY <1>2, PromisesByHost DEF WasmInv, Alone
    <2> QED BY <2>1 DEF Answered, Judged
  <1> QED BY <1>1, <1>2, PromisesByHostAfter

(* A call reads past the end only of a buffer that is not the host's, or    *)
(* that it asked too little for.                                            *)
LEMMA TrapKeeps ==
    ASSUME WasmInv, NEW h \in Hosts, Trap(h)
    PROVE  WasmInv'
  <1>1. /\ UNCHANGED <<now, allocBuf, resultBuf, running, pc, ask, overlapped, lastCode>>
        /\ running = None
        /\ pc[h] = "written"
        /\ trapped' = h
        /\ ask[h].inputLen > allocBuf.size /\ ask[h].req.op # "new_secret"
    BY DEF Trap, Free, Panics, hostVars
  <1>2. Typed' /\ Exchanges' /\ Promises'
    BY <1>1, SameExchanges
  <1>3. Instance'
    BY <1>1 DEF WasmInv, Instance
  <1>4. TrapsOnlyPastTheEnd'
    BY <1>1 DEF WasmInv, Exchanges, OwnsBuffer, TrapsOnlyPastTheEnd
  <1> QED BY <1>2, <1>3, <1>4 DEF WasmInv

(* generate has computed its code. *)
LEMMA GenerateCodeKeeps ==
    ASSUME WasmInv, NEW h \in Hosts, GenerateCode(h)
    PROVE  WasmInv'
  <1>1. /\ UNCHANGED <<now, allocBuf, resultBuf, trapped, pc, ask, overlapped, lastCode>>
        /\ trapped = None
        /\ pc[h] = "written" /\ ask[h].req.op = "generate"
        /\ Request # None /\ Request.len = ask[h].inputLen /\ Request.period # 0
        /\ running' = [host |-> h, since |-> now,
                       code |-> Code(Request, TimeOrNow(Request) \div Request.period, Request.context.bytes)]
    BY DEF GenerateCode, Calls, Free, Generates, Accepts, Parses, hostVars
  <1>2. Typed' /\ Exchanges' /\ Promises'
    BY <1>1, SameExchanges
  <1>3. Request \in Requests /\ now \in Nat
    BY <1>1 DEF WasmInv, Typed, Request
  <1>4. Request' = Request
    BY <1>1 DEF Request
  <1>5. Generating(running)'
    BY <1>1, <1>3, <1>4 DEF Generating, TimeOrNow
  <1>6. Instance'
    BY <1>1, <1>5 DEF WasmInv, Instance
  <1>7. TrapsOnlyPastTheEnd'
    BY <1>1 DEF TrapsOnlyPastTheEnd
  <1> QED BY <1>2, <1>6, <1>7 DEF WasmInv

(* A call that returns, to a host that no other came between, an answer     *)
(* that is right keeps all promises: no other host is alone after it.       *)
LEMMA AnswerKeeps ==
    ASSUME WasmInv, NEW h \in Hosts, pc[h] = "written", trapped = None,
           UNCHANGED <<now, allocBuf, trapped, ask>>, Export(h, "returned"),
           running' = None, lastCode' \in Made, Genuine(lastCode', now),
           ~ overlapped[h] => Answered(h)' /\ Judged(h)'
    PROVE  WasmInv'
  <1>1. Typed
    BY DEF WasmInv
  <1>2. /\ pc' \in [Hosts -> {"idle", "allocated", "written", "returned"}]
        /\ overlapped' \in [Hosts -> BOOLEAN]
        /\ pc'[h] = "returned"
        /\ overlapped'[h] = overlapped[h]
        /\ \A o \in Hosts \ {h} : pc'[o] = pc[o] /\ overlapped'[o] = (pc[o] # "idle")
    BY <1>1, ExportMarks DEF Typed
  <1>3. Typed'
    BY <1>1, <1>2 DEF Typed
  <1>4. \A o \in Hosts : pc'[o] # "idle" => Asked(o)'
    BY <1>2 DEF WasmInv, Exchanges, Asked
  <1>5. \A o \in Hosts : ~ overlapped'[o] =>
           (pc'[o] # "idle" => OwnsBuffer(o)') /\ (pc'[o] = "written" => OwnRequest(o)')
    BY <1>2 DEF WasmInv, Exchanges, OwnsBuffer
  <1>6. Instance'
    BY DEF WasmInv, Instance
  <1>7. \A o \in Hosts : Alone(o)' => Answered(o)' /\ Judged(o)'
    BY <1>2 DEF Alone
  <1>8. Promises'
    BY <1>7, PromisesByHostAfter
  <1>9. TrapsOnlyPastTheEnd'
    BY DEF TrapsOnlyPastTheEnd
  <1> QED BY <1>3, <1>4, <1>5, <1>6, <1>8, <1>9 DEF WasmInv, Exchanges

(* generate returns the code that it made of the request in the buffer, and *)
(* the end of the step of its second reading.                               *)
LEMMA GenerateReturnsKeeps ==
    ASSUME WasmInv, NEW h \in Hosts, GenerateReturns(h)
    PROVE  WasmInv'
  <1> DEFINE r == Request
             p == Request.period
             time == IF r.time = None THEN running.since ELSE r.time
             expires == ExpiresAt(TimeOrNow(r), p)
             made == [code |-> running.code, expiresAt |-> expires, req |-> r,
                      crossed |-> now \div p - running.since \div p]
  <1>1. /\ running # None /\ running.host = h /\ running' = None
        /\ resultBuf' = [kind |-> "code", code |-> running.code, expiresAt |-> expires]
        /\ lastCode' = made
        /\ Export(h, "returned")
        /\ UNCHANGED <<now, allocBuf, trapped, ask>>
    BY DEF GenerateReturns
  <1>2. /\ Typed /\ trapped = None
        /\ pc[h] = "written" /\ ask[h].req.op = "generate"
        /\ r \in Requests \ {None} /\ p \in Nat \ {0} /\ r.len = ask[h].inputLen
        /\ running.since \in Nat /\ running.since <= now
        /\ running.code = Code(r, time \div p, r.context.bytes)
    BY <1>1 DEF WasmInv, Instance, Generating, Requests
  <1>3. now \in Nat /\ time \in Nat /\ TimeOrNow(r) \in Nat /\ r.time \in Nat \cup {None}
    BY <1>2 DEF Typed, Requests, TimeOrNow
  <1>4. /\ now \div p \in Nat /\ running.since \div p \in Nat /\ time \div p \in Nat
        /\ running.since \div p <= now \div p
        /\ TimeOrNow(r) \div p \in Nat
    BY <1>2, <1>3, DivMonotone
  <1>5. expires \in Nat /\ expires <= MaxUint /\ expires <= (TimeOrNow(r) \div p + 1) * p
    <2>1. PICK e \in Nat : e = (TimeOrNow(r) \div p + 1) * p
      BY <1>2, <1>4
    <2>2. MaxUint \in Nat
      BY WasmAssumption
    <2>3. e % (MaxUint + 1) \in Nat /\ e % (MaxUint + 1) <= MaxUint /\ e % (MaxUint + 1) <= e
      BY <2>2
    <2> QED BY <2>1, <2>3 DEF ExpiresAt
  <1>6. /\ running.code \in Codes
        /\ running.code.counter = time \div p
    <2>1. r.context.bytes \in Seq(Nat)
      BY <1>2 DEF Requests, Texts
    <2> QED BY <1>2, <1>4, <2>1, CodeTyped
  <1>7. made \in Made
    BY <1>2, <1>4, <1>5, <1>6 DEF Made
  <1>8. Genuine(made, now)
    <2>1. ASSUME r.time = None PROVE InTime(made, now)
      BY <1>2, <1>4, <1>5, <1>6, <2>1 DEF InTime, TimeOrNow
    <2> QED BY <1>2, <1>4, <1>6, <2>1 DEF Genuine
  <1>9. ASSUME ~ overlapped[h]
        PROVE  Answered(h)' /\ Judged(h)'
    <2>1. ask[h].req = r
      BY <1>2, <1>9 DEF WasmInv, Exchanges, OwnRequest, Request
    <2>2. ResultKind(r) = "code"
      BY <1>2, <2>1 DEF ResultKind
    <2>3. Answered(h)'
      BY <1>1, <1>2, <1>6, <2>1, <2>2 DEF Answered
    <2> QED BY <1>1, <2>3 DEF Judged
  <1> HIDE DEF made
  <1> QED BY <1>1, <1>2, <1>7, <1>8, <1>9, AnswerKeeps

(* A call that runs at once. *)
LEMMA ReturnsKeeps ==
    ASSUME WasmInv, NEW h \in Hosts, NEW op, Calls(h, op), NEW result, Returns(h, result),
           ~ overlapped[h] => Answered(h)' /\ Judged(h)'
    PROVE  WasmInv'
  <1>1. /\ UNCHANGED <<now, allocBuf, trapped, ask>> /\ running' = None
        /\ pc[h] = "written" /\ trapped = None
        /\ Export(h, "returned")
        /\ lastCode' = lastCode
    BY DEF Calls, Free, Returns
  <1>2. lastCode' \in Made /\ Genuine(lastCode', now)
    BY <1>1 DEF WasmInv, Typed, Instance
  <1> QED BY <1>1, <1>2, AnswerKeeps

(* An error is an answer to everything. *)
LEMMA ErrorKeeps ==
    ASSUME WasmInv, NEW h \in Hosts, NEW op, Calls(h, op), SetError(h)
    PROVE  WasmInv'
  <1>1. Returns(h, [kind |-> "error"])
    BY DEF SetError
  <1>2. Answered(h)' /\ Judged(h)'
    BY <1>1 DEF Returns, Answered, Judged
  <1> QED BY <1>1, <1>2, ReturnsKeeps

(* The code of one request is that of another only for the same key, the    *)
(* same counter and the same context.                                       *)
LEMMA SameCode ==
    ASSUME NEW r, NEW s, NEW m, NEW n, NEW a, NEW b
    PROVE  Code(r, m, a) = Code(s, n, b) <=> Code(r, 0, <<>>) = Code(s, 0, <<>>) /\ m = n /\ a = b
  BY DEF Code

(* verify finds a code that is fresh: its counter is as many steps back as  *)
(* ended between the two readings of generate.                              *)
LEMMA FreshMatches ==
    ASSUME now \in Nat, NEW r \in Requests, NEW c \in Made,
           Fresh(r, c), now < c.expiresAt, Genuine(c, now), r.code = c.code
    PROVE  Matches(r)
  <1> DEFINE p == r.period
             n == c.code.counter
  <1>1. /\ c.req.period = p /\ p \in Nat \ {0}
        /\ c.code = Code(c.req, n, c.req.context.bytes)
        /\ n \in Nat /\ InTime(c, now)
    BY DEF Fresh, Genuine, Requests
  <1>2. c.crossed \in Nat /\ r.window \in Nat /\ r.window >= c.crossed /\ MaxUint \in Nat
        /\ c.expiresAt \in Nat
    BY WasmAssumption DEF Fresh, Made, Requests
  <1>3. now \div p = n + c.crossed
    <2>1. n + c.crossed <= now \div p /\ now < (n + c.crossed + 1) * p
      <3>1. PICK e \in Int : e = (n + c.crossed + 1) * p
        BY <1>1, <1>2
      <3>2. now < e
        BY <1>1, <1>2, <3>1 DEF InTime
      <3> QED BY <1>1, <3>1, <3>2 DEF InTime
    <2>2. now \div p <= n + c.crossed
      <3>1. PICK q \in Nat : q = n + c.crossed
        BY <1>1, <1>2
      <3>2. now < (q + 1) * p
        BY <2>1, <3>1
      <3>3. now \div p <= q
        BY <1>1, <3>2, DivBelow
      <3> QED BY <3>1, <3>3
    <2>3. now \div p \in Nat
      BY <1>1, DivMonotone
    <2> QED BY <1>1, <1>2, <2>1, <2>2, <2>3
  <1>4. n \in 0 .. MaxUint
    <2>1. now \div p <= now
      BY <1>1
    <2> QED BY <1>1, <1>2, <1>3, <2>1 DEF InTime
  <1>5. r.code = Code(r, n, r.issued.bytes)
    <2>1. r.issued.bytes = c.req.context.bytes
      BY DEF Fresh
    <2>2. Code(r, n, r.issued.bytes) = Code(c.req, n, c.req.context.bytes)
      BY <2>1, SameCode DEF Fresh
    <2> QED BY <1>1, <2>2
  <1>6. TimeOrNow(r) = now
    BY DEF Fresh, TimeOrNow
  <1>7. -c.crossed \in -r.window .. r.window /\ now \div p + (-c.crossed) = n
    BY <1>1, <1>2, <1>3
  <1> QED BY <1>4, <1>5, <1>6, <1>7 DEF Matches

(* verify accepts nothing but a code of its key and its issued context. *)
LEMMA MatchesInContext ==
    ASSUME NEW r \in Requests, NEW c \in Made, NEW t, Genuine(c, t), r.code = c.code,
           EqBytes(r.issued.bytes, r.request.bytes) <=> r.issued.bytes = r.request.bytes,
           Matches(r), SameContext(r)
    PROVE  InContext(r, c)
  <1>1. PICK n : r.code = Code(r, n, r.issued.bytes)
    BY DEF Matches
  <1>2. r.code # NoCode
    <2>1. r.code.key = <<r.secret.bytes, ParseAlgo(r.algorithm), r.digits>>
      BY <1>1 DEF Code
    <2>2. Len(r.code.key) = 3
      BY <2>1
    <2>3. Len(NoCode.key) = 0
      BY DEF NoCode
    <2>4. Len(r.code.key) # Len(NoCode.key)
      BY <2>2, <2>3
    <2> QED BY <2>4, Zenon
  <1>3. c.code = Code(c.req, c.code.counter, c.req.context.bytes)
    BY <1>2 DEF Genuine
  <1>4. Code(r, 0, <<>>) = Code(c.req, 0, <<>>) /\ r.issued.bytes = c.req.context.bytes
    BY <1>1, <1>3, SameCode
  <1>5. r.issued.bytes = r.request.bytes
    <2>1. CASE Bound(r)
      BY <2>1 DEF SameContext
    <2>2. CASE ~ Bound(r)
      BY <2>2 DEF Bound, Requests, Texts
    <2> QED BY <2>1, <2>2
  <1> QED BY <1>4, <1>5 DEF InContext

(* verify says of the host's code what the properties ask for. *)
LEMMA VerifyKeeps ==
    ASSUME WasmInv, NEW h \in Hosts, Verify(h)
    PROVE  WasmInv'
  <1> DEFINE r == Request
             c == ask[h].given
             result == [kind |-> "valid", valid |-> Matches(r) /\ SameContext(r)]
  <1>1. /\ Calls(h, "verify") /\ pc[h] = "written" /\ ask[h].req.op = "verify"
        /\ r # None /\ r.len = ask[h].inputLen
        /\ Returns(h, result)
        /\ resultBuf' = result
        /\ UNCHANGED <<now, ask>>
    BY DEF Verify, Calls, Verifies, Accepts, Parses, Returns
  <1>2. ASSUME ~ overlapped[h]
        PROVE  Answered(h)' /\ Judged(h)'
    <2>1. ask[h].req = r /\ Asked(h) /\ now \in Nat
      BY <1>1, <1>2 DEF WasmInv, Exchanges, OwnRequest, Request, Typed
    <2>2. /\ r \in Requests /\ c \in Made /\ r.code = c.code /\ Genuine(c, now)
          /\ EqBytes(r.issued.bytes, r.request.bytes) <=> r.issued.bytes = r.request.bytes
      BY <1>1, <2>1 DEF Asked, Asking
    <2>3. Answered(h)'
      <3>1. ResultKind(r) = "valid"
        BY <1>1, <2>1 DEF ResultKind
      <3> QED BY <1>1, <2>1, <3>1 DEF Answered
    <2>4. ASSUME Fresh(r, c), now < c.expiresAt
          PROVE  Matches(r) /\ SameContext(r)
      <3>1. Matches(r)
        BY <2>1, <2>2, <2>4, FreshMatches
      <3>2. SameContext(r)
        BY <2>2, <2>4 DEF SameContext, Fresh
      <3> QED BY <3>1, <3>2
    <2>5. ASSUME Matches(r), SameContext(r)
          PROVE  InContext(r, c)
      BY <2>2, <2>5, MatchesInContext
    <2>6. Judged(h)'
      <3>1. ask'[h].req = r /\ ask'[h].given = c /\ now' = now
            /\ resultBuf'.valid = (Matches(r) /\ SameContext(r))
        BY <1>1, <2>1
      <3>2. /\ Fresh(r, c) /\ now < c.expiresAt => resultBuf'.valid
            /\ resultBuf'.valid => InContext(r, c)
        BY <2>4, <2>5, <3>1
      <3> HIDE DEF r, c, result
      <3> QED BY <3>1, <3>2 DEF Judged
    <2> QED BY <2>3, <2>6
  <1> HIDE DEF result
  <1> QED BY <1>1, <1>2, ReturnsKeeps

(* new_secret answers with a secret. *)
LEMMA NewSecretKeeps ==
    ASSUME WasmInv, NEW h \in Hosts, NewSecret(h)
    PROVE  WasmInv'
  <1>1. Calls(h, "new_secret")
    BY DEF NewSecret
  <1>2. CASE SetError(h)
    BY <1>1, <1>2, ErrorKeeps
  <1>3. CASE Returns(h, [kind |-> "secret"])
    <2>1. ask' = ask /\ resultBuf' = [kind |-> "secret"] /\ ask[h].req.op = "new_secret"
      BY <1>1, <1>3 DEF Returns, Calls
    <2>2. ResultKind(ask[h].req) = "secret"
      BY <2>1 DEF ResultKind
    <2>3. Answered(h)' /\ Judged(h)'
      BY <2>1, <2>2 DEF Answered, Judged
    <2> QED BY <1>1, <1>3, <2>3, ReturnsKeeps
  <1> QED BY <1>2, <1>3 DEF NewSecret

(* build_context answers with the context of the host's fields. *)
LEMMA BuildContextKeeps ==
    ASSUME WasmInv, NEW h \in Hosts, BuildContext(h)
    PROVE  WasmInv'
  <1>1. Calls(h, "build_context")
    BY DEF BuildContext
  <1>2. CASE SetError(h)
    BY <1>1, <1>2, ErrorKeeps
  <1>3. ASSUME Parses(h), NEW ctx, Returns(h, [kind |-> "context", context |-> ctx])
        PROVE  WasmInv'
    <2>1. /\ ask' = ask /\ resultBuf' = [kind |-> "context", context |-> ctx]
          /\ pc[h] = "written" /\ ask[h].req.op = "build_context"
          /\ Request # None /\ Request.len = ask[h].inputLen
      BY <1>1, <1>3 DEF Returns, Calls, Parses
    <2>2. ResultKind(ask[h].req) = "context"
      BY <2>1 DEF ResultKind
    <2>3. ~ overlapped[h] => ask[h].req = Request
      BY <2>1 DEF WasmInv, Exchanges, OwnRequest, Request
    <2>4. ~ overlapped[h] => Answered(h)' /\ Judged(h)'
      BY <2>1, <2>2, <2>3 DEF Answered, Judged
    <2> QED BY <1>1, <1>3, <2>4, ReturnsKeeps
  <1> QED BY <1>2, <1>3 DEF BuildContext

-----------------------------------------------------------------------------
(* The theorems. *)

(* Every step keeps the invariant. *)
LEMMA NextWasm == WasmInv /\ [Next]_vars => WasmInv'
  <1> SUFFICES ASSUME WasmInv, [Next]_vars PROVE WasmInv'
    OBVIOUS
  <1>1. CASE Tick
    BY <1>1, TickKeeps
  <1>2. ASSUME NEW h \in Hosts, NEW a \in Asks[h], Alloc(h, a) \/ SkipAlloc(h, a) \/ Reuse(h, a)
        PROVE  WasmInv'
    BY <1>2, AllocKeeps, NoAllocKeeps
  <1>3. ASSUME NEW h \in Hosts, Write(h) PROVE WasmInv'
    BY <1>3, WriteKeeps
  <1>4. ASSUME NEW h \in Hosts, Leave(h) PROVE WasmInv'
    BY <1>4, LeaveKeeps
  <1>5. ASSUME NEW h \in Hosts, Trap(h) PROVE WasmInv'
    BY <1>5, TrapKeeps
  <1>6. ASSUME NEW h \in Hosts, GenerateFails(h) PROVE WasmInv'
    BY <1>6, ErrorKeeps DEF GenerateFails
  <1>7. ASSUME NEW h \in Hosts, GenerateCode(h) PROVE WasmInv'
    BY <1>7, GenerateCodeKeeps
  <1>8. ASSUME NEW h \in Hosts, GenerateReturns(h) PROVE WasmInv'
    BY <1>8, GenerateReturnsKeeps
  <1>9. ASSUME NEW h \in Hosts, VerifyFails(h) PROVE WasmInv'
    BY <1>9, ErrorKeeps DEF VerifyFails
  <1>10. ASSUME NEW h \in Hosts, Verify(h) PROVE WasmInv'
    BY <1>10, VerifyKeeps
  <1>11. ASSUME NEW h \in Hosts, NewSecret(h) PROVE WasmInv'
    BY <1>11, NewSecretKeeps
  <1>12. ASSUME NEW h \in Hosts, BuildContext(h) PROVE WasmInv'
    BY <1>12, BuildContextKeeps
  <1>13. CASE UNCHANGED vars
    <2>1. /\ UNCHANGED <<now, allocBuf, resultBuf, pc, ask, overlapped, lastCode>>
          /\ UNCHANGED <<running, trapped>>
      BY <1>13 DEF vars, instanceVars, hostVars
    <2>2. Typed' /\ Exchanges' /\ Promises'
      BY <2>1, SameExchanges
    <2>3. Instance' /\ TrapsOnlyPastTheEnd'
      BY <2>1 DEF WasmInv, Instance, Generating, Request, TrapsOnlyPastTheEnd
    <2> QED BY <2>2, <2>3 DEF WasmInv
  <1> QED BY <1>1, <1>2, <1>3, <1>4, <1>5, <1>6, <1>7, <1>8, <1>9, <1>10, <1>11, <1>12, <1>13 DEF Next

(* The exported functions of src/wasm/main.go keep the invariant that the   *)
(* four properties rest on.                                                 *)
THEOREM WasmInvariant == Spec => []WasmInv
  BY InitWasm, NextWasm, PTL DEF Spec

(* A host that no other came between reads from resultBuf the answer to its *)
(* own request, whatever was left in allocBuf and resultBuf before.         *)
THEOREM OwnRequestIsAnswered == Spec => []AnswersOwnRequest
  <1>1. WasmInv => AnswersOwnRequest
    BY DEF WasmInv, Promises
  <1> QED BY <1>1, WasmInvariant, PTL

(* A code that generate made at the current time verifies until its         *)
(* expires_at, for every period, window and time that the calls take.       *)
THEOREM CodesLastUntilExpiry == Spec => []AcceptedUntilExpiry
  <1>1. WasmInv => AcceptedUntilExpiry
    BY DEF WasmInv, Promises
  <1> QED BY <1>1, WasmInvariant, PTL

(* verify accepts a code only under its key, and only when the issued and   *)
(* the request's context are those that it was generated for.               *)
THEOREM CodesStayInContext == Spec => []ValidInItsContextOnly
  <1>1. WasmInv => ValidInItsContextOnly
    BY DEF WasmInv, Promises
  <1> QED BY <1>1, WasmInvariant, PTL

(* allocBuf[:inputLen] panics only for a host that passes more than it      *)
(* allocated, or that another host came between.                            *)
THEOREM NoTrapWithinBounds == Spec => []TrapsOnlyPastTheEnd
  <1>1. WasmInv => TrapsOnlyPastTheEnd
    BY DEF WasmInv
  <1> QED BY <1>1, WasmInvariant, PTL

=============================================================================
