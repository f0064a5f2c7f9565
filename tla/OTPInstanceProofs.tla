-------------------------- MODULE OTPInstanceProofs --------------------------
(***************************************************************************)
(* Proofs about OTPInstance, for any number of callers, any batches, any   *)
(* window limit, period and largest counter: what a call of HOTP or TOTP   *)
(* answers, whatever ClearSecret does meanwhile.                           *)
(***************************************************************************)
EXTENDS OTPInstance, TLAPS

-----------------------------------------------------------------------------
(* Requests and the counters they test. *)

Computing == {"compute", "static", "dynamic"}
PCs == {"idle", "enter"} \cup Computing

(* The restrictions that the API puts on the requests of a batch. *)
LEMMA RequestOfBatch ==
    ASSUME NEW b \in Batches, NEW n \in 1 .. Len(b)
    PROVE  /\ b \in Seq(RequestType) /\ Len(b) \in Nat /\ Len(b) > 0
           /\ b[n] \in RequestType
           /\ b[n].type = b[1].type
           /\ b[n].op = "Generate" => b[n].window = 0
           /\ b[n].op = "Verify" /\ b[n].type = "HOTP" => b[n].window = 0
           /\ b[n].op = "VerifyWithResync" => b[n].type = "HOTP"
  <1>1. b \in Seq(RequestType) /\ b # <<>>
    BY InstanceAssumption DEF InstanceAssumption
  <1>2. DOMAIN b = 1 .. Len(b) /\ Len(b) \in Nat /\ Len(b) > 0 /\ b[n] \in RequestType
    BY <1>1
  <1> QED BY <1>1, <1>2, InstanceAssumption DEF InstanceAssumption

(* The counter of a request is a uint64. *)
LEMMA CounterIsUint ==
    ASSUME NEW r \in RequestType
    PROVE  /\ Counter(r) \in Uint64 /\ Uint64 \subseteq Nat
           /\ First(r) \in Int /\ First(r) <= r.window /\ First(r) >= -r.window
           /\ r.window \in Nat
  <1>1. MaxUint \in Nat /\ Period \in Nat /\ Period > 0
    BY InstanceAssumption DEF InstanceAssumption
  <1>2. r.at \in 0 .. MaxUint /\ r.window \in Nat
    BY DEF RequestType, Uint64
  <1>3. r.at \div Period \in 0 .. MaxUint
    <2>1. PICK q \in Int : q = r.at \div Period
      BY <1>1, <1>2
    <2>2. q >= 0 /\ q <= r.at
      BY <1>1, <1>2, <2>1
    <2> QED BY <1>1, <1>2, <2>1, <2>2
  <1> QED BY <1>1, <1>2, <1>3 DEF Counter, First, Uint64

(* The loop's tested counter lies in the window, or the window reaches past *)
(* the largest uint64 and 0 is tested.                                      *)
Reachable(r) ==
    \/ r.code.counter \in Window(r)
    \/ r.type = "TOTP" /\ Counter(r) + r.window > MaxUint /\ r.code.counter = 0

(* A counter that the loop tests is one that the properties allow. *)
LEMMA TestedIsReachable ==
    ASSUME NEW r \in RequestType, NEW n \in First(r) .. r.window,
           r.type # "TOTP" => Counter(r) + n <= MaxUint,
           r.code.counter = TestCounter(r, n)
    PROVE  Reachable(r)
  <1>1. Counter(r) \in Nat /\ Counter(r) <= MaxUint /\ MaxUint \in Nat /\ r.window \in Nat
    BY CounterIsUint, InstanceAssumption DEF InstanceAssumption, Uint64
  <1>2. r.type \in {"HOTP", "TOTP"}
    BY DEF RequestType
  <1>3. CASE r.type = "TOTP"
    BY <1>1, <1>3 DEF First, TestCounter, Window, Reachable, Uint64
  <1>4. CASE r.type = "HOTP"
    BY <1>1, <1>4 DEF First, TestCounter, Window, Reachable, Uint64
  <1> QED BY <1>2, <1>3, <1>4

(* r's code is the one the token generates for the x-th tested counter. *)
Hit(r, x) ==
    r.code = [key |-> "key", counter |-> TestCounter(r, x), ctx |-> MessageContext(r.ctx)]

(* The counter of a code of the window is tested in some turn of the loop. *)
LEMMA WindowIsTested ==
    ASSUME NEW r \in RequestType, InWindow(r)
    PROVE  \E x \in First(r) .. r.window :
              Hit(r, x) /\ Counter(r) + x = r.code.counter /\ r.code.counter <= MaxUint
  <1>1. /\ r.code \in CodeType /\ r.code.counter \in Uint64
        /\ r.type \in {"HOTP", "TOTP"}
    BY DEF RequestType, CodeType
  <1>2. r.code = [key |-> "key", counter |-> r.code.counter, ctx |-> MessageContext(r.ctx)]
    BY <1>1 DEF InWindow, CodeType
  <1>3. Counter(r) \in Nat /\ r.window \in Nat /\ r.code.counter \in Nat
    BY <1>1, CounterIsUint
  <1> DEFINE x == r.code.counter - Counter(r)
  <1>4. x \in First(r) .. r.window
    BY <1>1, <1>3 DEF InWindow, Window, First
  <1>5. Counter(r) + x = r.code.counter
    BY <1>3
  <1>6. TestCounter(r, x) = r.code.counter
    BY <1>1, <1>5 DEF TestCounter
  <1>7. Hit(r, x)
    BY <1>2, <1>6 DEF Hit
  <1>8. r.code.counter <= MaxUint
    BY <1>1, InstanceAssumption DEF InstanceAssumption, Uint64
  <1> QED BY <1>4, <1>5, <1>7, <1>8

-----------------------------------------------------------------------------
(* The inductive invariant.  An answer is right only because of what the    *)
(* loop found so far (Scan) and because a key other than the secret's can   *)
(* only be met once the flag is set (SecretSafe).  c stands for cleared.    *)

(* What is known of an answer a to request r. *)
AnswerSound(r, a, c, kind) ==
    /\ a.kind \in {"answer", "resync"} /\ a.ok =>
          /\ r.code.ctx = MessageContext(r.ctx)
          /\ r.code.key = "key" \/ c
          /\ Reachable(r)
          /\ a.kind = "resync" => a.counter = r.code.counter
    /\ a.kind \in {"answer", "resync"} /\ ~ a.ok /\ InWindow(r) => c
    /\ a.kind = "code" /\ ~ c =>
          a.code = [key |-> "key", counter |-> Counter(r), ctx |-> MessageContext(r.ctx)]
    /\ kind = "static" /\ a = Error("ErrInvalidSecret") => c

(* Turn n of the loop for r, with m what the comparisons found before it. *)
Scan(r, n, m, c) ==
    /\ r.window <= MaxWindow
    /\ n \in First(r) .. r.window
    /\ r.op = "VerifyWithResync" => Counter(r) + n <= MaxUint
    /\ r.op # "Verify" => ~ m
    /\ m => /\ r.code.ctx = MessageContext(r.ctx)
            /\ r.code.key = "key" \/ c
            /\ Reachable(r)
    /\ ~ c /\ ~ m => \A x \in First(r) .. n - 1 : ~ Hit(r, x)

(* A caller at p that makes the calls b, of which rs were answered. *)
CallSound(p, b, rs, n, m, c, type, kind) ==
    /\ p \in PCs /\ n \in Int /\ m \in BOOLEAN
    /\ b \in Batches \cup {<<>>}
    /\ rs \in Seq(ResultType) /\ Len(rs) <= Len(b)
    /\ \A x \in 1 .. Len(rs) : AnswerSound(b[x], rs[x], c, kind)
    /\ p # "idle" => b \in Batches /\ Len(rs) < Len(b) /\ b[1].type = type
    /\ p \in {"idle", "enter"} => n = 0 /\ m = FALSE
    /\ p \in Computing => Scan(b[Len(rs) + 1], n, m, c)
    /\ p = "static" => kind = "static"
    /\ p = "dynamic" /\ kind = "static" => c

Sound(g) == CallSound(pc[g], reqs[g], results[g], i[g], matched[g], cleared, object, runtime)

(* Until the flag is set the secret is whole and so is every pooled key. *)
SecretSafe ==
    /\ object \in {"HOTP", "TOTP"} /\ runtime \in Runtimes
    /\ cleared \in BOOLEAN
    /\ header \in [len : BOOLEAN, ptr : BOOLEAN]
    /\ bytes \in Keys /\ pool \subseteq Keys
    /\ clearing \in {"not", "zeroing", "unlinking", "done"}
    /\ header.len => runtime = "static"
    /\ ~ cleared => /\ clearing = "not"
                    /\ pool \subseteq {"key"}
                    /\ runtime = "static" => header.len /\ header.ptr /\ bytes = "key"

CallFunctions ==
    /\ pc \in [Callers -> PCs]
    /\ reqs \in [Callers -> Batches \cup {<<>>}]
    /\ i \in [Callers -> Int]
    /\ matched \in [Callers -> BOOLEAN]
    /\ results \in [Callers -> Seq(ResultType)]

InstanceInv == SecretSafe /\ CallFunctions /\ \A g \in Callers : Sound(g)

-----------------------------------------------------------------------------
(* Setting the flag makes no answer wrong. *)
LEMMA SoundWhenCleared ==
    ASSUME NEW p, NEW b, NEW rs, NEW n, NEW m, NEW type, NEW kind, NEW c, NEW d,
           CallSound(p, b, rs, n, m, c, type, kind), c => d
    PROVE  CallSound(p, b, rs, n, m, d, type, kind)
  <1>1. ASSUME NEW r, NEW a, AnswerSound(r, a, c, kind) PROVE AnswerSound(r, a, d, kind)
    BY <1>1 DEF AnswerSound
  <1>2. ASSUME NEW r, Scan(r, n, m, c) PROVE Scan(r, n, m, d)
    BY <1>2 DEF Scan
  <1> QED BY <1>1, <1>2 DEF CallSound

(* The request that g is at. *)
LEMMA CurrentRequest ==
    ASSUME NEW g \in Callers, InstanceInv, pc[g] # "idle"
    PROVE  /\ reqs[g] \in Batches /\ results[g] \in Seq(ResultType)
           /\ Len(results[g]) \in Nat /\ Len(reqs[g]) \in Nat /\ Len(results[g]) < Len(reqs[g])
           /\ Req(g) \in RequestType
           /\ Req(g).type = object
           /\ Req(g).op = "Generate" => Req(g).window = 0
           /\ Req(g).op = "Verify" /\ Req(g).type = "HOTP" => Req(g).window = 0
           /\ Req(g).op = "VerifyWithResync" => Req(g).type = "HOTP"
           /\ pc[g] \in Computing => Scan(Req(g), i[g], matched[g], cleared)
  <1>1. /\ reqs[g] \in Batches /\ results[g] \in Seq(ResultType)
        /\ Len(results[g]) < Len(reqs[g]) /\ reqs[g][1].type = object
        /\ pc[g] \in Computing => Scan(Req(g), i[g], matched[g], cleared)
    BY DEF InstanceInv, Sound, CallSound, Req
  <1>2. reqs[g] \in Seq(RequestType)
    BY <1>1, InstanceAssumption DEF InstanceAssumption
  <1>3. Len(reqs[g]) \in Nat /\ Len(results[g]) \in Nat
    BY <1>1, <1>2
  <1>4. Len(results[g]) + 1 \in 1 .. Len(reqs[g])
    BY <1>1, <1>3
  <1> QED BY <1>1, <1>3, <1>4, RequestOfBatch DEF Req

(* A call that returns a sound answer, or panics, leaves its caller sound. *)
LEMMA ReturnSound ==
    ASSUME InstanceInv, NEW g \in Callers, pc[g] # "idle",
           NEW a \in ResultType, AnswerSound(Req(g), a, cleared, runtime),
           Return(g, a) \/ (Unwind(g) /\ a = [kind |-> "panic"]), UNCHANGED <<made, cleared>>
    PROVE  CallFunctions' /\ \A h \in Callers : Sound(h)'
  <1>1. CallFunctions /\ \A h \in Callers : Sound(h)
    BY DEF InstanceInv
  <1>2. /\ reqs[g] \in Batches /\ results[g] \in Seq(ResultType)
        /\ Len(results[g]) \in Nat /\ Len(reqs[g]) \in Nat /\ Len(results[g]) < Len(reqs[g])
    BY CurrentRequest
  <1> DEFINE rs == Append(results[g], a)
  <1>3. /\ rs \in Seq(ResultType) /\ Len(rs) = Len(results[g]) + 1
        /\ \A x \in 1 .. Len(results[g]) : rs[x] = results[g][x]
        /\ rs[Len(results[g]) + 1] = a
    BY <1>2
  <1>4. PICK p \in {"idle", "enter"} :
        /\ p = "enter" => Len(rs) # Len(reqs[g])
        /\ pc' = [pc EXCEPT ![g] = p]
        /\ results' = [results EXCEPT ![g] = rs]
        /\ i' = [i EXCEPT ![g] = 0] /\ matched' = [matched EXCEPT ![g] = FALSE]
        /\ reqs' = reqs /\ object' = object /\ runtime' = runtime /\ cleared' = cleared
    <2>1. CASE Return(g, a)
      <3> DEFINE p == IF Len(rs) = Len(reqs[g]) THEN "idle" ELSE "enter"
      <3>1. /\ pc' = [pc EXCEPT ![g] = p] /\ results' = [results EXCEPT ![g] = rs]
            /\ i' = [i EXCEPT ![g] = 0] /\ matched' = [matched EXCEPT ![g] = FALSE]
            /\ reqs' = reqs /\ object' = object /\ runtime' = runtime /\ cleared' = cleared
        BY <1>1, <1>3, <2>1 DEF Return, made, CallFunctions
      <3>2. p \in {"idle", "enter"} /\ (p = "enter" => Len(rs) # Len(reqs[g]))
        OBVIOUS
      <3> HIDE DEF p
      <3> QED BY <3>1, <3>2
    <2>2. CASE Unwind(g) /\ a = [kind |-> "panic"]
      <3>1. /\ pc' = [pc EXCEPT ![g] = "idle"] /\ results' = [results EXCEPT ![g] = rs]
            /\ i' = [i EXCEPT ![g] = 0] /\ matched' = [matched EXCEPT ![g] = FALSE]
            /\ reqs' = reqs /\ object' = object /\ runtime' = runtime /\ cleared' = cleared
        BY <1>1, <2>2 DEF Unwind, made, CallFunctions
      <3> QED BY <3>1
    <2> QED BY <2>1, <2>2
  <1> HIDE DEF rs
  <1>5. CallFunctions'
    BY <1>1, <1>3, <1>4 DEF CallFunctions, PCs
  <1>6. ASSUME NEW h \in Callers, h # g PROVE Sound(h)'
    BY <1>1, <1>4, <1>6 DEF Sound, CallFunctions
  <1>7. Sound(g)'
    <2>1. /\ pc'[g] = p
          /\ results'[g] = rs /\ i'[g] = 0 /\ matched'[g] = FALSE /\ reqs'[g] = reqs[g]
      BY <1>1, <1>4 DEF CallFunctions
    <2>2. \A x \in 1 .. Len(results[g]) : AnswerSound(reqs[g][x], results[g][x], cleared, runtime)
      BY <1>1 DEF Sound, CallSound
    <2>3. \A x \in 1 .. Len(rs) : AnswerSound(reqs[g][x], rs[x], cleared, runtime)
      <3> SUFFICES ASSUME NEW x \in 1 .. Len(rs)
                   PROVE  AnswerSound(reqs[g][x], rs[x], cleared, runtime)
        OBVIOUS
      <3>1. CASE x \in 1 .. Len(results[g])
        BY <3>1, <2>2, <1>3
      <3>2. CASE x = Len(results[g]) + 1
        BY <3>2, <1>3 DEF Req
      <3> QED BY <3>1, <3>2, <1>2, <1>3
    <2>4. reqs[g][1].type = object
      BY <1>1 DEF Sound, CallSound
    <2>5. CallSound(p, reqs[g], rs, 0, FALSE, cleared, object, runtime)
      <3>1. Len(rs) <= Len(reqs[g]) /\ (p # "idle" => Len(rs) < Len(reqs[g]))
        BY <1>2, <1>3, <1>4
      <3>2. p \in PCs /\ p \notin Computing /\ p # "static" /\ p # "dynamic"
        BY DEF PCs, Computing
      <3>3. rs \in Seq(ResultType) /\ reqs[g] \in Batches /\ 0 \in Int /\ FALSE \in BOOLEAN
        BY <1>2, <1>3
      <3> QED BY <2>3, <2>4, <3>1, <3>2, <3>3, Zenon DEF CallSound
    <2> QED BY <2>1, <2>5, <1>4 DEF Sound
  <1> QED BY <1>5, <1>6, <1>7

(* The next turn of a loop keeps the caller sound. *)
LEMMA LoopSound ==
    ASSUME InstanceInv, NEW g \in Callers, pc[g] \in Computing, NEW m \in BOOLEAN,
           Scan(Req(g), i[g] + 1, m, cleared),
           Loop(g), matched' = [matched EXCEPT ![g] = m], UNCHANGED <<made, cleared>>
    PROVE  CallFunctions' /\ \A h \in Callers : Sound(h)'
  <1>1. CallFunctions /\ \A h \in Callers : Sound(h)
    BY DEF InstanceInv
  <1>2. /\ pc' = [pc EXCEPT ![g] = "compute"] /\ i' = [i EXCEPT ![g] = i[g] + 1]
        /\ matched' = [matched EXCEPT ![g] = m]
        /\ reqs' = reqs /\ results' = results
        /\ object' = object /\ runtime' = runtime /\ cleared' = cleared
    BY <1>1 DEF Loop, made, CallFunctions
  <1>3. CallFunctions'
    BY <1>1, <1>2 DEF CallFunctions, PCs, Computing
  <1>4. ASSUME NEW h \in Callers, h # g PROVE Sound(h)'
    BY <1>1, <1>2, <1>4 DEF Sound, CallFunctions
  <1>5. Sound(g)'
    <2>1. /\ pc'[g] = "compute" /\ i'[g] = i[g] + 1 /\ i[g] + 1 \in Int /\ matched'[g] = m
          /\ reqs'[g] = reqs[g] /\ results'[g] = results[g]
      BY <1>1, <1>2 DEF CallFunctions
    <2>2. CallSound(pc[g], reqs[g], results[g], i[g], matched[g], cleared, object, runtime)
      BY <1>1 DEF Sound
    <2>3. CallSound("compute", reqs[g], results[g], i[g] + 1, m, cleared, object, runtime)
      BY <2>1, <2>2 DEF CallSound, PCs, Computing, Req
    <2> QED BY <2>1, <2>3, <1>2 DEF Sound
  <1> QED BY <1>3, <1>4, <1>5

(* One turn of computing a code and comparing: the key is the secret's, or  *)
(* ClearSecret has overtaken the call.                                      *)
LEMMA ComputedSound ==
    ASSUME InstanceInv, NEW g \in Callers, pc[g] \in Computing,
           NEW k \in Keys, k = "key" \/ cleared,
           Computed(g, k), UNCHANGED <<made, cleared>>
    PROVE  CallFunctions' /\ \A h \in Callers : Sound(h)'
  <1> DEFINE r == Req(g)
             n == i[g]
             e == Expected(g, k)
  <1>1. /\ r \in RequestType
        /\ r.op = "Generate" => r.window = 0
        /\ r.op = "Verify" /\ r.type = "HOTP" => r.window = 0
        /\ r.op = "VerifyWithResync" => r.type = "HOTP"
        /\ Scan(r, n, matched[g], cleared)
        /\ pc[g] # "idle"
    BY CurrentRequest DEF Computing
  <1>2. cleared \in BOOLEAN /\ matched[g] \in BOOLEAN /\ n \in Int
    BY DEF InstanceInv, SecretSafe, CallFunctions
  <1>3. e = [key |-> k, counter |-> TestCounter(r, n), ctx |-> MessageContext(r.ctx)]
    BY DEF Expected
  <1>4. /\ r.type \in {"HOTP", "TOTP"} /\ r.op \in {"Generate", "Verify", "VerifyWithResync"}
        /\ r.ctx \in Contexts \cup {"nil", "empty"} /\ r.code \in CodeType
    BY <1>1 DEF RequestType
  <1>5. /\ Counter(r) \in Nat /\ Counter(r) <= MaxUint /\ MaxUint \in Nat
        /\ r.window \in Nat /\ First(r) \in Int /\ First(r) <= r.window
        /\ (r.type = "TOTP" => First(r) = -r.window) /\ (r.type = "HOTP" => First(r) = 0)
    BY <1>1, <1>4, CounterIsUint, InstanceAssumption DEF InstanceAssumption, Uint64, First
  <1>6. /\ TestCounter(r, n) \in Uint64
        /\ MessageContext(r.ctx) \in Contexts \cup {"unbound"}
        /\ e \in CodeType
    <2>1. TestCounter(r, n) \in Uint64
      BY <1>5 DEF TestCounter, Uint64
    <2>2. MessageContext(r.ctx) \in Contexts \cup {"unbound"}
      BY <1>4 DEF MessageContext
    <2> HIDE DEF e
    <2> QED BY <2>1, <2>2, <1>3 DEF CodeType
  <1> HIDE DEF e, r, n
  <1>7. Equal(g, k) <=> e = r.code
    BY DEF Equal, e, r
  <1>8. n \in First(r) .. r.window /\ n <= r.window /\ First(r) <= n
    BY <1>1, <1>2, <1>5 DEF Scan
  <1>9. ASSUME Equal(g, k), r.op # "Generate"
        PROVE  /\ r.code.ctx = MessageContext(r.ctx)
               /\ r.code.key = "key" \/ cleared
               /\ Reachable(r)
               /\ r.code.counter = TestCounter(r, n)
    <2>1. r.code.counter = TestCounter(r, n) /\ r.code.ctx = MessageContext(r.ctx) /\ r.code.key = k
      BY <1>3, <1>7, <1>9
    <2>2. r.type # "TOTP" => Counter(r) + n <= MaxUint
      <3>1. CASE r.op = "VerifyWithResync"
        BY <3>1, <1>1 DEF Scan
      <3>2. CASE r.op = "Verify" /\ r.type = "HOTP"
        BY <3>2, <1>1, <1>2, <1>5, <1>8
      <3> QED BY <3>1, <3>2, <1>4, <1>9
    <2>3. Reachable(r)
      BY <2>1, <2>2, <1>1, <1>8, TestedIsReachable
    <2> QED BY <2>1, <2>3
  <1>10. ASSUME ~ Equal(g, k), ~ cleared PROVE ~ Hit(r, n)
    BY <1>3, <1>7, <1>10 DEF Hit
  <1>11. ASSUME HOTPGenerated(g, k) \/ TOTPGenerated(g, k)
         PROVE  CallFunctions' /\ \A h \in Callers : Sound(h)'
    <2> DEFINE a == [kind |-> "code", code |-> e]
    <2>1. r.op = "Generate" /\ Return(g, a)
      BY <1>11 DEF HOTPGenerated, TOTPGenerated, r, e
    <2>2. n = 0 /\ TestCounter(r, n) = Counter(r)
      BY <2>1, <1>1, <1>2, <1>4, <1>5, <1>8 DEF TestCounter, Uint64
    <2>3. a \in ResultType
      BY <1>6 DEF ResultType
    <2>4. ~ cleared => e = [key |-> "key", counter |-> Counter(r), ctx |-> MessageContext(r.ctx)]
      BY <1>3, <2>2
    <2>5. a.kind = "code" /\ a.code = e /\ a # Error("ErrInvalidSecret")
      BY DEF Error
    <2> HIDE DEF a
    <2>6. AnswerSound(r, a, cleared, runtime)
      BY <2>4, <2>5 DEF AnswerSound
    <2> QED BY <2>1, <2>3, <2>6, <1>1, ReturnSound DEF r
  <1>12. ASSUME HOTPCompared(g, k) PROVE CallFunctions' /\ \A h \in Callers : Sound(h)'
    <2> DEFINE a == [kind |-> "answer", ok |-> Equal(g, k)]
    <2>1. r.op = "Verify" /\ r.type = "HOTP" /\ Return(g, a)
      BY <1>12 DEF HOTPCompared, r
    <2>2. n = 0 /\ r.window = 0 /\ First(r) = 0
      BY <2>1, <1>1, <1>2, <1>5, <1>8
    <2>3. Equal(g, k) \in BOOLEAN
      BY DEF Equal
    <2>4. a \in ResultType
      BY <2>3 DEF ResultType
    <2>5. ~ Equal(g, k) /\ InWindow(r) => cleared
      <3> SUFFICES ASSUME ~ Equal(g, k), InWindow(r), ~ cleared PROVE FALSE
        OBVIOUS
      <3>1. PICK x \in First(r) .. r.window : Hit(r, x)
        BY <1>1, WindowIsTested
      <3>2. x = n
        BY <2>2, <3>1
      <3> QED BY <3>1, <3>2, <1>10
    <2>6. a.kind = "answer" /\ a.ok = Equal(g, k) /\ a # Error("ErrInvalidSecret")
      BY DEF Error
    <2> HIDE DEF a
    <2>7. AnswerSound(r, a, cleared, runtime)
      BY <2>1, <2>5, <2>6, <1>9 DEF AnswerSound
    <2> QED BY <2>1, <2>4, <2>7, <1>1, ReturnSound DEF r
  <1>13. ASSUME TOTPCompared(g, k) PROVE CallFunctions' /\ \A h \in Callers : Sound(h)'
    <2> DEFINE found == matched[g] \/ Equal(g, k)
               a == [kind |-> "answer", ok |-> found]
    <2>1. /\ r.op = "Verify" /\ r.type = "TOTP"
          /\ \/ n = r.window /\ Return(g, a)
             \/ n < r.window /\ matched' = [matched EXCEPT ![g] = found] /\ Loop(g)
      BY <1>13 DEF TOTPCompared, r, n
    <2>2. found \in BOOLEAN
      BY <1>2 DEF Equal
    <2>3. found => /\ r.code.ctx = MessageContext(r.ctx)
                   /\ r.code.key = "key" \/ cleared
                   /\ Reachable(r)
      BY <2>1, <1>1, <1>9 DEF Scan
    <2>4. ~ cleared /\ ~ found => \A x \in First(r) .. n : ~ Hit(r, x)
      <3> SUFFICES ASSUME ~ cleared, ~ found, NEW x \in First(r) .. n PROVE ~ Hit(r, x)
        OBVIOUS
      <3>1. CASE x = n
        BY <3>1, <1>10
      <3>2. CASE x # n
        <4>1. x \in First(r) .. n - 1
          BY <3>2, <1>2, <1>5
        <4> QED BY <4>1, <1>1 DEF Scan
      <3> QED BY <3>1, <3>2
    <2>5. CASE n = r.window /\ Return(g, a)
      <3>1. a \in ResultType
        BY <2>2 DEF ResultType
      <3>2. ~ found /\ InWindow(r) => cleared
        <4> SUFFICES ASSUME ~ found, InWindow(r), ~ cleared PROVE FALSE
          OBVIOUS
        <4>1. PICK x \in First(r) .. r.window : Hit(r, x)
          BY <1>1, WindowIsTested
        <4> QED BY <4>1, <2>4, <2>5
      <3>3. a.kind = "answer" /\ a.ok = found /\ a # Error("ErrInvalidSecret")
        BY DEF Error
      <3> HIDE DEF a, found
      <3>4. AnswerSound(r, a, cleared, runtime)
        BY <2>3, <3>2, <3>3 DEF AnswerSound
      <3> QED BY <2>5, <3>1, <3>4, <1>1, ReturnSound DEF r
    <2>6. CASE n < r.window /\ matched' = [matched EXCEPT ![g] = found] /\ Loop(g)
      <3> HIDE DEF found
      <3>1. n + 1 \in First(r) .. r.window /\ (n + 1) - 1 = n
        BY <2>6, <1>2, <1>5, <1>8
      <3>2. Scan(r, n + 1, found, cleared)
        BY <2>1, <2>3, <2>4, <3>1, <1>1 DEF Scan
      <3> QED BY <2>2, <2>6, <3>2, LoopSound DEF r, n
    <2> QED BY <2>1, <2>5, <2>6
  <1>14. ASSUME Resynced(g, k) PROVE CallFunctions' /\ \A h \in Callers : Sound(h)'
    <2>1. r.op = "VerifyWithResync" /\ r.type = "HOTP" /\ First(r) = 0 /\ ~ matched[g]
          /\ Counter(r) + n <= MaxUint
      BY <1>14, <1>1, <1>5 DEF Resynced, r, Scan
    <2>2. CASE /\ Equal(g, k)
               /\ Return(g, [kind |-> "resync", ok |-> TRUE, counter |-> e.counter])
      <3> DEFINE a == [kind |-> "resync", ok |-> TRUE, counter |-> e.counter]
      <3>1. a \in ResultType /\ e.counter = TestCounter(r, n)
        BY <1>3, <1>6 DEF ResultType
      <3>2. a.kind = "resync" /\ a.ok = TRUE /\ a.counter = e.counter /\ a # Error("ErrInvalidSecret")
        BY DEF Error
      <3>3. Return(g, a)
        BY <2>2
      <3> HIDE DEF a
      <3>4. AnswerSound(r, a, cleared, runtime)
        BY <2>1, <2>2, <3>1, <3>2, <1>9 DEF AnswerSound
      <3> QED BY <3>1, <3>3, <3>4, <1>1, ReturnSound DEF r
    <2>3. ~ Equal(g, k) /\ ~ cleared => \A x \in First(r) .. n : ~ Hit(r, x)
      <3> SUFFICES ASSUME ~ Equal(g, k), ~ cleared, NEW x \in First(r) .. n PROVE ~ Hit(r, x)
        OBVIOUS
      <3>1. CASE x = n
        BY <3>1, <1>10
      <3>2. CASE x # n
        <4>1. x \in First(r) .. n - 1
          BY <3>2, <1>2, <1>5
        <4> QED BY <4>1, <2>1, <1>1 DEF Scan
      <3> QED BY <3>1, <3>2
    <2>4. CASE ~ Equal(g, k) /\ n < r.window /\ Counter(r) + n < MaxUint /\ Loop(g) /\ UNCHANGED matched
      <3>1. n + 1 \in First(r) .. r.window /\ (n + 1) - 1 = n /\ Counter(r) + (n + 1) <= MaxUint
        BY <2>4, <1>2, <1>5, <1>8
      <3>2. Scan(r, n + 1, FALSE, cleared)
        BY <2>1, <2>3, <2>4, <3>1, <1>1 DEF Scan
      <3>3. matched' = [matched EXCEPT ![g] = FALSE]
        <4>1. matched[g] = FALSE /\ matched \in [Callers -> BOOLEAN] /\ matched' = matched
          BY <2>1, <2>4, <1>2 DEF InstanceInv, CallFunctions
        <4> QED BY <4>1
      <3> QED BY <2>4, <3>2, <3>3, LoopSound DEF r, n
    <2>5. CASE /\ ~ Equal(g, k)
               /\ n = r.window \/ Counter(r) + n = MaxUint
               /\ Return(g, [kind |-> "resync", ok |-> FALSE, counter |-> 0])
      <3> DEFINE a == [kind |-> "resync", ok |-> FALSE, counter |-> 0]
      <3>1. a \in ResultType
        BY <1>5 DEF ResultType, Uint64
      <3>2. InWindow(r) => cleared
        <4> SUFFICES ASSUME InWindow(r), ~ cleared PROVE FALSE
          OBVIOUS
        <4>1. PICK x \in First(r) .. r.window :
                     Hit(r, x) /\ Counter(r) + x = r.code.counter /\ r.code.counter <= MaxUint
          BY <1>1, WindowIsTested
        <4>2. x \in First(r) .. n
          BY <4>1, <2>1, <2>5, <1>2, <1>5, <1>8
        <4> QED BY <4>1, <4>2, <2>3, <2>5
      <3>3. a.kind = "resync" /\ a.ok = FALSE /\ a # Error("ErrInvalidSecret")
        BY DEF Error
      <3>4. Return(g, a)
        BY <2>5
      <3> HIDE DEF a
      <3>5. AnswerSound(r, a, cleared, runtime)
        BY <3>2, <3>3 DEF AnswerSound
      <3> QED BY <3>1, <3>4, <3>5, <1>1, ReturnSound DEF r
    <2> QED BY <1>14, <2>2, <2>4, <2>5 DEF Resynced, r, n, e
  <1> QED BY <1>11, <1>12, <1>13, <1>14 DEF Computed

-----------------------------------------------------------------------------
(* The invariant is inductive. *)

(* A new object has answered nothing. *)
LEMMA InitInstanceInv == Init => InstanceInv
  <1> SUFFICES ASSUME Init PROVE InstanceInv
    OBVIOUS
  <1>1. SecretSafe
    BY InstanceAssumption DEF Init, NewHOTP, NewTOTP, Constructible, NewSecretRuntime, SecretSafe,
                              Keys, InstanceAssumption
  <1>2. <<>> \in Seq(ResultType) /\ Len(<<>>) = 0
    OBVIOUS
  <1>3. CallFunctions
    BY <1>2 DEF Init, CallFunctions, PCs
  <1>4. ASSUME NEW g \in Callers PROVE Sound(g)
    <2>1. /\ pc[g] = "idle" /\ reqs[g] = <<>> /\ results[g] = <<>> /\ i[g] = 0
          /\ matched[g] = FALSE /\ cleared = FALSE
      BY DEF Init
    <2>2. CallSound("idle", <<>>, <<>>, 0, FALSE, FALSE, object, runtime)
      BY <1>2 DEF CallSound, PCs, Computing
    <2> QED BY <2>1, <2>2 DEF Sound
  <1> QED BY <1>1, <1>3, <1>4 DEF InstanceInv

(* A step that moves g on without an answer. *)
LEMMA MoveSound ==
    ASSUME InstanceInv, NEW g \in Callers, NEW p \in PCs, NEW n \in Int,
           CallSound(p, reqs[g], results[g], n, matched[g], cleared, object, runtime),
           pc' = [pc EXCEPT ![g] = p], i' = [i EXCEPT ![g] = n],
           UNCHANGED <<made, cleared, reqs, matched, results>>
    PROVE  CallFunctions' /\ \A h \in Callers : Sound(h)'
  <1>1. CallFunctions /\ \A h \in Callers : Sound(h)
    BY DEF InstanceInv
  <1>2. CallFunctions'
    BY <1>1 DEF CallFunctions
  <1>3. ASSUME NEW h \in Callers, h # g PROVE Sound(h)'
    BY <1>1, <1>3 DEF Sound, CallFunctions, made
  <1>4. Sound(g)'
    BY <1>1 DEF Sound, CallFunctions, made
  <1> QED BY <1>2, <1>3, <1>4

(* A batch starts. *)
LEMMA StartSound ==
    ASSUME InstanceInv, NEW g \in Callers, NEW b \in Batches, Start(g, b)
    PROVE  InstanceInv'
  <1>1. SecretSafe /\ CallFunctions /\ \A h \in Callers : Sound(h)
    BY DEF InstanceInv
  <1>2. /\ pc' = [pc EXCEPT ![g] = "enter"] /\ reqs' = [reqs EXCEPT ![g] = b]
        /\ results' = [results EXCEPT ![g] = <<>>] /\ i' = i /\ matched' = matched
        /\ cleared' = cleared /\ object' = object /\ runtime' = runtime
        /\ pc[g] = "idle" /\ b[1].type = object
        /\ UNCHANGED <<header, bytes, clearing, pool>>
    BY DEF Start, made, clearVars
  <1>3. SecretSafe'
    BY <1>1, <1>2 DEF SecretSafe
  <1>4. <<>> \in Seq(ResultType) /\ Len(<<>>) = 0
    OBVIOUS
  <1>5. CallFunctions'
    BY <1>1, <1>2, <1>4 DEF CallFunctions, PCs
  <1>6. ASSUME NEW h \in Callers, h # g PROVE Sound(h)'
    BY <1>1, <1>2, <1>6 DEF Sound, CallFunctions
  <1>7. Sound(g)'
    <2>1. /\ pc'[g] = "enter" /\ reqs'[g] = b /\ results'[g] = <<>>
          /\ i'[g] = i[g] /\ matched'[g] = matched[g]
      BY <1>1, <1>2 DEF CallFunctions
    <2>2. i[g] = 0 /\ matched[g] = FALSE
      BY <1>1, <1>2 DEF Sound, CallSound
    <2>3. b \in Seq(RequestType) /\ b # <<>>
      BY InstanceAssumption DEF InstanceAssumption
    <2>4. Len(b) \in Nat /\ Len(b) > 0
      BY <2>3
    <2>5. CallSound("enter", b, <<>>, 0, FALSE, cleared, object, runtime)
      BY <1>2, <1>4, <2>4 DEF CallSound, PCs, Computing
    <2> QED BY <1>2, <2>1, <2>2, <2>5 DEF Sound
  <1> QED BY <1>3, <1>5, <1>6, <1>7 DEF InstanceInv

(* An error is an answer that says nothing of the code. *)
LEMMA ErrorSound ==
    ASSUME NEW x \in Errors, NEW r, NEW c, NEW kind,
           kind = "static" /\ x = "ErrInvalidSecret" => c
    PROVE  Error(x) \in ResultType /\ AnswerSound(r, Error(x), c, kind)
  <1>1. Error(x) \in ResultType
    BY DEF Error, ResultType
  <1>2. Error(x).kind = "error" /\ (Error(x) = Error("ErrInvalidSecret") => x = "ErrInvalidSecret")
    BY DEF Error
  <1> HIDE DEF Error
  <1> QED BY <1>1, <1>2 DEF AnswerSound

(* Every step of a call keeps every caller sound. *)
LEMMA InCallSound ==
    ASSUME InstanceInv, NEW g \in Callers, InCall(g)
    PROVE  InstanceInv'
  <1> USE DEF made, clearVars
  <1>1. SecretSafe /\ CallFunctions /\ Sound(g)
    BY DEF InstanceInv
  <1> DEFINE Keeps == CallFunctions' /\ \A h \in Callers : Sound(h)'
  <1>2. ASSUME RefuseCleared(g) PROVE Keeps /\ SecretSafe'
    <2>1. /\ Return(g, Error("ErrInvalidSecret")) /\ pc[g] # "idle" /\ cleared
          /\ UNCHANGED <<made, clearVars, pool>>
      BY <1>2 DEF RefuseCleared
    <2>2. SecretSafe'
      BY <2>1, <1>1 DEF SecretSafe
    <2>3. "ErrInvalidSecret" \in Errors
      BY DEF Errors
    <2> QED BY <2>1, <2>2, <2>3, ErrorSound, ReturnSound
  <1>3. ASSUME RefuseWindow(g) PROVE Keeps /\ SecretSafe'
    <2>1. PICK x \in Errors : /\ Return(g, Error(x)) /\ x # "ErrInvalidSecret" /\ pc[g] # "idle"
                              /\ UNCHANGED <<made, clearVars, pool>>
      BY <1>3 DEF RefuseWindow, Errors
    <2>2. SecretSafe'
      BY <2>1, <1>1 DEF SecretSafe
    <2> QED BY <2>1, <2>2, ErrorSound, ReturnSound
  <1>4. ASSUME Begin(g) PROVE Keeps /\ SecretSafe'
    <2>1. /\ pc[g] = "enter" /\ ~ cleared /\ Req(g).window <= MaxWindow
          /\ pc' = [pc EXCEPT ![g] = "compute"] /\ i' = [i EXCEPT ![g] = First(Req(g))]
          /\ UNCHANGED <<made, clearVars, pool, reqs, matched, results>>
      BY <1>4 DEF Begin
    <2>2. Req(g) \in RequestType /\ (Req(g).op = "VerifyWithResync" => Req(g).type = "HOTP")
      BY <2>1, CurrentRequest
    <2>3. /\ First(Req(g)) \in Int /\ First(Req(g)) <= Req(g).window /\ Req(g).window \in Nat
          /\ Counter(Req(g)) \in Uint64 /\ MaxUint \in Nat
      BY <2>2, CounterIsUint, InstanceAssumption DEF InstanceAssumption
    <2>4. matched[g] = FALSE
      BY <1>1, <2>1 DEF Sound, CallSound
    <2>5. Scan(Req(g), First(Req(g)), FALSE, cleared)
      <3>1. Req(g).op = "VerifyWithResync" => Counter(Req(g)) + First(Req(g)) <= MaxUint
        BY <2>2, <2>3 DEF First, Uint64
      <3>2. First(Req(g)) \in First(Req(g)) .. Req(g).window
            /\ First(Req(g)) .. (First(Req(g)) - 1) = {}
        BY <2>3
      <3> QED BY <2>1, <3>1, <3>2 DEF Scan
    <2>6. CallSound("compute", reqs[g], results[g], First(Req(g)), matched[g], cleared, object, runtime)
      BY <1>1, <2>1, <2>3, <2>4, <2>5 DEF Sound, CallSound, PCs, Computing, Req
    <2>7. SecretSafe'
      BY <2>1, <1>1 DEF SecretSafe
    <2>8. "compute" \in PCs
      BY DEF PCs, Computing
    <2> QED BY <2>1, <2>3, <2>6, <2>7, <2>8, MoveSound
  <1>5. ASSUME HasStaticSecret(g) PROVE Keeps /\ SecretSafe'
    <2> DEFINE p == IF header.len THEN "static" ELSE "dynamic"
    <2>1. /\ pc[g] = "compute" /\ pc' = [pc EXCEPT ![g] = p]
          /\ UNCHANGED <<made, clearVars, pool, reqs, i, matched, results>>
      BY <1>5 DEF HasStaticSecret
    <2>2. p \in PCs /\ p \in Computing /\ i[g] \in Int /\ i' = [i EXCEPT ![g] = i[g]]
      BY <2>1, <1>1 DEF PCs, Computing, CallFunctions
    <2>3. (p = "static" => runtime = "static") /\ (p = "dynamic" /\ runtime = "static" => cleared)
      BY <1>1 DEF SecretSafe
    <2> HIDE DEF p
    <2>4. CallSound(p, reqs[g], results[g], i[g], matched[g], cleared, object, runtime)
      BY <1>1, <2>1, <2>2, <2>3 DEF Sound, CallSound, PCs, Computing
    <2>5. SecretSafe'
      BY <2>1, <1>1 DEF SecretSafe
    <2> QED BY <2>1, <2>2, <2>4, <2>5, MoveSound
  <1>6. ASSUME Pooled(g) PROVE Keeps /\ SecretSafe'
    <2>1. PICK k \in pool : /\ pc[g] = "static" /\ Computed(g, k)
                            /\ UNCHANGED <<made, clearVars, pool>>
      BY <1>6 DEF Pooled
    <2>2. k \in Keys /\ (k = "key" \/ cleared) /\ pc[g] \in Computing
      BY <2>1, <1>1 DEF SecretSafe, Computing
    <2>3. SecretSafe'
      BY <2>1, <1>1 DEF SecretSafe
    <2> QED BY <2>1, <2>2, <2>3, ComputedSound
  <1>7. ASSUME NewMac(g) PROVE Keeps /\ SecretSafe'
    <2> DEFINE k == IF header.len THEN bytes ELSE "zero"
    <2>1. /\ pc[g] = "static" /\ Computed(g, k) /\ pool' = pool \cup {k}
          /\ UNCHANGED <<made, clearVars>>
      BY <1>7 DEF NewMac
    <2>2. runtime = "static" /\ pc[g] \in Computing
      BY <2>1, <1>1 DEF Sound, CallSound, Computing
    <2>3. k \in Keys /\ (k = "key" \/ cleared)
      BY <2>2, <1>1 DEF SecretSafe, Keys
    <2> HIDE DEF k
    <2>4. SecretSafe'
      BY <2>1, <2>3, <1>1 DEF SecretSafe
    <2> QED BY <2>1, <2>2, <2>3, <2>4, ComputedSound
  <1>8. ASSUME NewMacPanics(g) PROVE Keeps /\ SecretSafe'
    <2> DEFINE a == [kind |-> "panic"]
    <2>1. Unwind(g) /\ pc[g] # "idle" /\ UNCHANGED <<made, clearVars, pool>>
      BY <1>8 DEF NewMacPanics
    <2>2. a \in ResultType /\ a = [kind |-> "panic"] /\ a.kind = "panic" /\ a # Error("ErrInvalidSecret")
      BY DEF ResultType, Error
    <2> HIDE DEF a
    <2>3. AnswerSound(Req(g), a, cleared, runtime)
      BY <2>2 DEF AnswerSound
    <2>4. SecretSafe'
      BY <2>1, <1>1 DEF SecretSafe
    <2> QED BY <2>1, <2>2, <2>3, <2>4, ReturnSound
  <1>9. ASSUME NoSecret(g) PROVE Keeps /\ SecretSafe'
    <2>1. /\ Return(g, Error("ErrInvalidSecret")) /\ pc[g] = "dynamic" /\ runtime = "static"
          /\ UNCHANGED <<made, clearVars, pool>>
      BY <1>9 DEF NoSecret
    <2>2. cleared
      BY <2>1, <1>1 DEF Sound, CallSound
    <2>3. SecretSafe'
      BY <2>1, <1>1 DEF SecretSafe
    <2>4. "ErrInvalidSecret" \in Errors /\ pc[g] # "idle"
      BY <2>1 DEF Errors
    <2> QED BY <2>1, <2>2, <2>3, <2>4, ErrorSound, ReturnSound
  <1>10. ASSUME ProviderSecret(g) \/ ProviderHMAC(g) PROVE Keeps /\ SecretSafe'
    <2>1. pc[g] = "dynamic" /\ Computed(g, "key") /\ UNCHANGED <<made, clearVars, pool>>
      BY <1>10 DEF ProviderSecret, ProviderHMAC
    <2>2. "key" \in Keys /\ pc[g] \in Computing
      BY <2>1 DEF Keys, Computing
    <2>3. SecretSafe'
      BY <2>1, <1>1 DEF SecretSafe
    <2> QED BY <2>1, <2>2, <2>3, ComputedSound
  <1>11. ASSUME ProviderFails(g) \/ HMACFails(g) PROVE Keeps /\ SecretSafe'
    <2>1. PICK x \in Errors : /\ Return(g, Error(x)) /\ pc[g] = "dynamic" /\ runtime # "static"
                              /\ UNCHANGED <<made, clearVars, pool>>
      BY <1>11 DEF ProviderFails, HMACFails, Errors
    <2>2. SecretSafe'
      BY <2>1, <1>1 DEF SecretSafe
    <2>3. pc[g] # "idle"
      BY <2>1
    <2> QED BY <2>1, <2>2, <2>3, ErrorSound, ReturnSound
  <1> HIDE DEF Keeps
  <1>12. Keeps /\ SecretSafe'
    BY <1>2, <1>3, <1>4, <1>5, <1>6, <1>7, <1>8, <1>9, <1>10, <1>11 DEF InCall
  <1> QED BY <1>12 DEF Keeps, InstanceInv

(* A step of ClearSecret changes no call, and answers stay sound under it. *)
LEMMA ClearSecretSound ==
    ASSUME InstanceInv, ClearSecret
    PROVE  InstanceInv'
  <1>1. SecretSafe /\ CallFunctions /\ \A h \in Callers : Sound(h)
    BY DEF InstanceInv
  <1>2. UNCHANGED callVars /\ (cleared => cleared')
    BY DEF ClearSecret, SetCleared, ZeroBytes, UnlinkSecret, ClearReturns, callVars
  <1>3. CallFunctions'
    BY <1>1, <1>2 DEF CallFunctions, callVars
  <1>4. ASSUME NEW h \in Callers PROVE Sound(h)'
    <2>1. CallSound(pc[h], reqs[h], results[h], i[h], matched[h], cleared, object, runtime)
      BY <1>1 DEF Sound
    <2>2. CallSound(pc[h], reqs[h], results[h], i[h], matched[h], cleared', object, runtime)
      BY <1>2, <2>1, SoundWhenCleared
    <2> QED BY <1>2, <2>2 DEF Sound, callVars, made
  <1>5. SecretSafe'
    <2> USE <1>1 DEF SecretSafe, callVars, made, Keys
    <2>1. CASE SetCleared
      BY <2>1 DEF SetCleared
    <2>2. CASE ZeroBytes
      BY <2>2 DEF ZeroBytes
    <2>3. CASE UnlinkSecret
      BY <2>3 DEF UnlinkSecret
    <2>4. CASE ClearReturns
      BY <2>4 DEF ClearReturns
    <2> QED BY <2>1, <2>2, <2>3, <2>4 DEF ClearSecret
  <1> QED BY <1>3, <1>4, <1>5 DEF InstanceInv

(* Every step of a call or of ClearSecret keeps the invariant. *)
LEMMA NextInstanceInv == InstanceInv /\ [Next]_vars => InstanceInv'
  <1> SUFFICES ASSUME InstanceInv, [Next]_vars PROVE InstanceInv'
    OBVIOUS
  <1>1. CASE UNCHANGED vars
    BY <1>1 DEF vars, made, clearVars, InstanceInv, SecretSafe, CallFunctions, Sound
  <1>2. ASSUME NEW g \in Callers, NEW b \in Batches, Start(g, b) PROVE InstanceInv'
    BY <1>2, StartSound
  <1>3. ASSUME NEW g \in Callers, InCall(g) PROVE InstanceInv'
    BY <1>3, InCallSound
  <1>4. CASE ClearSecret
    BY <1>4, ClearSecretSound
  <1> QED BY <1>1, <1>2, <1>3, <1>4 DEF Next

(* The invariant holds in every reachable state. *)
THEOREM InstanceInvariant == Spec => []InstanceInv
  BY InitInstanceInv, NextInstanceInv, PTL DEF Spec

-----------------------------------------------------------------------------
(* What the invariant says of the calls that returned. *)

(* Every answer that a call or a batch has returned is sound. *)
LEMMA ReturnedSound ==
    ASSUME InstanceInv, NEW c \in Returned
    PROVE  AnswerSound(c.req, c.result, cleared, runtime)
  <1>1. PICK g \in Callers : c \in {[req |-> reqs[g][n], result |-> results[g][n]] : n \in DOMAIN results[g]}
    BY DEF Returned
  <1>2. PICK n \in DOMAIN results[g] : c = [req |-> reqs[g][n], result |-> results[g][n]]
    BY <1>1
  <1>3. results[g] \in Seq(ResultType)
        /\ \A x \in 1 .. Len(results[g]) : AnswerSound(reqs[g][x], results[g][x], cleared, runtime)
    BY DEF InstanceInv, Sound, CallSound
  <1>4. n \in 1 .. Len(results[g])
    BY <1>2, <1>3
  <1> QED BY <1>2, <1>3, <1>4

(* Every variable keeps its type, and no loop of Verify, VerifyBound or     *)
(* VerifyWithResync runs past the limit of the window.                      *)
THEOREM InstanceTypeCorrect == Spec => []TypeOK
  <1>1. InstanceInv => TypeOK
    <2> SUFFICES ASSUME InstanceInv PROVE TypeOK
      OBVIOUS
    <2>1. SecretSafe /\ CallFunctions /\ \A g \in Callers : Sound(g)
      BY DEF InstanceInv
    <2>2. ASSUME NEW g \in Callers PROVE i[g] \in -MaxWindow .. MaxWindow
      <3>1. MaxWindow \in Nat
        BY InstanceAssumption DEF InstanceAssumption
      <3>2. CASE pc[g] \in {"idle", "enter"}
        <4>1. i[g] = 0
          BY <2>1, <3>2 DEF Sound, CallSound
        <4> QED BY <3>1, <4>1
      <3>3. CASE pc[g] \in Computing
        <4>1. Req(g) \in RequestType /\ Scan(Req(g), i[g], matched[g], cleared)
          BY <3>3, CurrentRequest DEF Computing
        <4>2. /\ First(Req(g)) >= -Req(g).window /\ Req(g).window \in Nat
              /\ First(Req(g)) \in Int /\ i[g] \in Int
          BY <4>1, <2>1, CounterIsUint DEF CallFunctions
        <4> QED BY <3>1, <4>1, <4>2 DEF Scan
      <3> QED BY <3>2, <3>3, <2>1 DEF CallFunctions, PCs
    <2>3. i \in [Callers -> -MaxWindow .. MaxWindow]
      BY <2>1, <2>2 DEF CallFunctions
    <2>4. \A g \in Callers : Len(results[g]) <= Len(reqs[g])
      BY <2>1 DEF Sound, CallSound
    <2> QED BY <2>1, <2>3, <2>4 DEF SecretSafe, CallFunctions, TypeOK, PCs, Computing
  <1> QED BY <1>1, InstanceInvariant, PTL

(* An accepted code belongs to a counter of the window and to the context   *)
(* of the request, and to the secret unless ClearSecret overtook the call:  *)
(* for any interleaving of callers, pooled MACs, providers and ClearSecret. *)
THEOREM OnlyTheWindowIsAccepted == Spec => []AcceptsOnlyTheWindow
  <1>1. InstanceInv => AcceptsOnlyTheWindow
    BY ReturnedSound DEF AcceptsOnlyTheWindow, AnswerSound, Accepted, Reachable
  <1> QED BY <1>1, InstanceInvariant, PTL

(* A code of the window is rejected only after ClearSecret set the flag. *)
THEOREM TheWindowIsAccepted == Spec => []RejectsOnlyOutsideTheWindow
  <1>1. InstanceInv => RejectsOnlyOutsideTheWindow
    BY ReturnedSound DEF RejectsOnlyOutsideTheWindow, AnswerSound, Rejected
  <1> QED BY <1>1, InstanceInvariant, PTL

(* Generate and GenBound return the code of the secret, of the counter and  *)
(* of the context, until ClearSecret sets the flag.                         *)
THEOREM GeneratedUnderTheKey == Spec => []GeneratesUnderTheKey
  <1>1. InstanceInv => GeneratesUnderTheKey
    BY ReturnedSound DEF GeneratesUnderTheKey, AnswerSound
  <1> QED BY <1>1, InstanceInvariant, PTL

(* Once a call on a static secret was refused with ErrInvalidSecret no call *)
(* begins to compute a code.                                                *)
THEOREM RefusalsAreFinal == Spec => RefusalIsFinal
  <1> DEFINE Refused == runtime = "static" /\ \E c \in Returned : c.result = Error("ErrInvalidSecret")
             Begins == \E g \in Callers : pc[g] = "enter" /\ pc'[g] = "compute"
  <1>1. InstanceInv /\ Refused => cleared
    BY ReturnedSound DEF AnswerSound
  <1>2. InstanceInv /\ [Next]_vars /\ cleared => ~ Begins
    <2> SUFFICES ASSUME InstanceInv, [Next]_vars, cleared,
                        NEW h \in Callers, pc[h] = "enter", pc'[h] = "compute"
                 PROVE  FALSE
      OBVIOUS
    <2>0. pc \in [Callers -> PCs]
      BY DEF InstanceInv, CallFunctions
    <2>1. CASE UNCHANGED vars \/ ClearSecret
      <3>1. pc' = pc
        BY <2>1 DEF vars, ClearSecret, SetCleared, ZeroBytes, UnlinkSecret, ClearReturns, callVars
      <3> QED BY <3>1
    <2>2. ASSUME NEW g \in Callers, NEW b \in Batches, Start(g, b) PROVE FALSE
      BY <2>0, <2>2 DEF Start
    <2>3. ASSUME NEW g \in Callers, InCall(g) PROVE FALSE
      <3>1. \/ pc[g] \in Computing /\ \E p \in PCs : pc' = [pc EXCEPT ![g] = p]
            \/ \E p \in {"idle", "enter"} : pc' = [pc EXCEPT ![g] = p]
        <4>1. CASE RefuseCleared(g) \/ RefuseWindow(g)
          BY <4>1 DEF RefuseCleared, RefuseWindow, Return
        <4>2. CASE Begin(g)
          BY <4>2 DEF Begin
        <4>3. ASSUME NEW k, Computed(g, k)
              PROVE  \E p \in PCs : pc' = [pc EXCEPT ![g] = p]
          BY <4>3 DEF Computed, HOTPGenerated, TOTPGenerated, HOTPCompared, TOTPCompared,
                      Resynced, Return, Loop, PCs, Computing
        <4>4. CASE HasStaticSecret(g)
          BY <4>4 DEF HasStaticSecret, PCs, Computing
        <4>5. CASE Pooled(g) \/ NewMac(g) \/ ProviderSecret(g) \/ ProviderHMAC(g)
          BY <4>3, <4>5 DEF Pooled, NewMac, ProviderSecret, ProviderHMAC, Computing
        <4>6. CASE NewMacPanics(g) \/ NoSecret(g) \/ ProviderFails(g) \/ HMACFails(g)
          BY <4>6 DEF NewMacPanics, NoSecret, ProviderFails, HMACFails, Return, Unwind
        <4> QED BY <4>1, <4>2, <4>4, <4>5, <4>6, <2>3 DEF InCall
      <3> QED BY <2>0, <3>1 DEF Computing
    <2> QED BY <2>1, <2>2, <2>3 DEF Next
  <1>3. InstanceInv /\ [Next]_vars => (Refused => \A g \in Callers : pc[g] = "enter" => pc'[g] # "compute")
    BY <1>1, <1>2
  <1>4. InstanceInv /\ [Next]_vars =>
           [Refused => \A g \in Callers : pc[g] = "enter" => pc'[g] # "compute"]_vars
    BY <1>3
  <1> QED BY <1>4, InstanceInvariant, PTL DEF Spec, RefusalIsFinal

=============================================================================
