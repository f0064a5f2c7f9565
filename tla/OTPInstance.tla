----------------------------- MODULE OTPInstance -----------------------------
(***************************************************************************)
(* One HOTP or TOTP object of src/hotp.go and src/totp.go and its          *)
(* secretRuntime: callers that generate and verify, one code of the window *)
(* at a time, while the owner runs ClearSecret, which takes no lock.       *)
(* A caller makes one call, or the calls of a batch one after another.     *)
(*                                                                         *)
(* A code is identified with what it is computed from: the key, the        *)
(* counter and the bound context.  That two of these give the same digits  *)
(* is left out, so truncation and formatting do not appear.                *)
(*                                                                         *)
(* ClearSecret races with the readers of r.secret.  The two words of the   *)
(* slice header that matter are cleared in either order, and a key read    *)
(* while it is being overwritten is "mixed": what a racing build may see.  *)
(***************************************************************************)
EXTENDS Integers, Sequences

CONSTANTS
    Callers,        \* goroutines that use the object
    Batches,        \* what they ask for: a call is a batch of one
    Contexts,       \* encoded contexts that are not empty
    Period,         \* TOTP.period
    MaxWindow,      \* 1000 in TOTP.Verify, maxLookAhead in VerifyWithResync
    MaxUint,        \* largest uint64
    Arguments       \* what the constructor is called with

Uint64 == 0 .. MaxUint

Keys == {"key", "mixed", "zero"}

Errors == {"ErrInvalidSecret", "ErrInvalidTime", "ErrInvalidCounter",
           "ErrSecretProvider", "ErrHMACProvider"}

(* The secretRuntimes of an object; "none" is an empty secret or no provider. *)
Runtimes == {"static", "secretProvider", "hmacProvider"}

(* hashFuncFor knows no other algorithm. *)
Algorithms == {"SHA1", "SHA256", "SHA512"}

(* A nil or an empty context leaves the message unbound. *)
MessageContext(ctx) == IF ctx \in {"nil", "empty"} THEN "unbound" ELSE ctx

CodeType == [key : Keys, counter : Uint64, ctx : Contexts \cup {"unbound"}]

RequestType ==
    [type : {"HOTP", "TOTP"}, op : {"Generate", "Verify", "VerifyWithResync"},
     at : Uint64, window : Nat, ctx : Contexts \cup {"nil", "empty"}, code : CodeType]

ResultType ==
    [kind : {"panic"}] \cup [kind : {"error"}, error : Errors]
    \cup [kind : {"code"}, code : CodeType]
    \cup [kind : {"answer"}, ok : BOOLEAN]
    \cup [kind : {"resync"}, ok : BOOLEAN, counter : Uint64]

ASSUME InstanceAssumption ==
    /\ Period \in Nat \ {0}
    /\ MaxWindow \in Nat
    /\ MaxUint \in Nat
    /\ \A a \in Arguments : a.runtime \in Runtimes \cup {"none"} /\ a.period \in {0, Period}
    /\ Contexts \cap {"nil", "empty", "unbound"} = {}
    /\ Batches \subseteq Seq(RequestType) \ {<<>>}
    /\ \A b \in Batches : \A n \in DOMAIN b :
          /\ b[n].type = b[1].type
          /\ Len(b) > 1 => b[n].op = "Verify"
          /\ b[n].op = "Generate" => b[n].window = 0
          /\ b[n].op = "Verify" /\ b[n].type = "HOTP" => b[n].window = 0
          /\ b[n].op = "VerifyWithResync" => b[n].type = "HOTP"

VARIABLES
    object,     \* "HOTP" or "TOTP"
    runtime,    \* the kind of its secretRuntime
    cleared,    \* the atomic flag
    header,     \* r.secret: is its length not 0, its pointer not nil
    bytes,      \* the secret's bytes in memory
    pool,       \* keys of the macBufs that macPool may hand out
    clearing,   \* where the owner is in ClearSecret
    pc,         \* pc[g]: where g is in its call
    reqs,       \* reqs[g]: what g asks for, or asked for last
    i,          \* i[g]: g's loop variable
    matched,    \* matched[g]: g's accumulated comparison
    results     \* results[g]: what each of them returned so far

made == <<object, runtime>>
clearVars == <<cleared, header, bytes, clearing>>
vars == <<made, clearVars, pool, pc, reqs, i, matched, results>>

(* What newHOTPWithRuntime and newTOTPWithRuntime both ask of their          *)
(* arguments; an object that they refuse never exists.                      *)
Constructible(a) ==
    /\ a.digits \in 6 .. 8
    /\ a.runtime # "none"
    /\ a.algorithm \in Algorithms

NewHOTP ==
    /\ object = "HOTP"
    /\ \E a \in Arguments : Constructible(a) /\ runtime = a.runtime

NewTOTP ==
    /\ object = "TOTP"
    /\ \E a \in Arguments : Constructible(a) /\ a.period # 0 /\ runtime = a.runtime

(* Only a static runtime holds the secret's bytes. *)
NewSecretRuntime ==
    LET static == runtime = "static"
    IN  /\ header = [len |-> static, ptr |-> static]
        /\ bytes = IF static THEN "key" ELSE "zero"

Init ==
    /\ NewHOTP \/ NewTOTP
    /\ NewSecretRuntime
    /\ cleared = FALSE
    /\ pool = {}
    /\ clearing = "not"
    /\ pc = [g \in Callers |-> "idle"]
    /\ reqs = [g \in Callers |-> <<>>]
    /\ i = [g \in Callers |-> 0]
    /\ matched = [g \in Callers |-> FALSE]
    /\ results = [g \in Callers |-> <<>>]

-----------------------------------------------------------------------------
(* A call: the flag, the limit of the window, then the loop. *)

(* VerifyBatch and VerifyBoundBatch: Verify for each request in turn. *)
Start(g, b) ==
    /\ pc[g] = "idle"
    /\ b[1].type = object
    /\ reqs' = [reqs EXCEPT ![g] = b]
    /\ results' = [results EXCEPT ![g] = <<>>]
    /\ pc' = [pc EXCEPT ![g] = "enter"]
    /\ UNCHANGED <<made, clearVars, pool, i, matched>>

Req(g) == reqs[g][Len(results[g]) + 1]

Counter(r) == IF r.type = "TOTP" THEN r.at \div Period ELSE r.at

First(r) == IF r.type = "TOTP" THEN -r.window ELSE 0

(* Wraps around as unsigned arithmetic does. *)
TestCounter_Wraps(r, n) == (Counter(r) + n) % (MaxUint + 1)

(* addCounterSigned: a counter outside uint64 becomes 0. *)
TestCounter(r, n) == IF Counter(r) + n \in Uint64 THEN Counter(r) + n ELSE 0

Error(e) == [kind |-> "error", error |-> e]

(* The call's local variables go with it. *)
Return(g, answer) ==
    /\ pc' = [pc EXCEPT ![g] = IF Len(results[g]) + 1 = Len(reqs[g]) THEN "idle" ELSE "enter"]
    /\ results' = [results EXCEPT ![g] = Append(@, answer)]
    /\ i' = [i EXCEPT ![g] = 0]
    /\ matched' = [matched EXCEPT ![g] = FALSE]
    /\ UNCHANGED reqs

(* A panic also ends the batch; the answers before it stay on record. *)
Unwind(g) ==
    /\ pc' = [pc EXCEPT ![g] = "idle"]
    /\ results' = [results EXCEPT ![g] = Append(@, [kind |-> "panic"])]
    /\ i' = [i EXCEPT ![g] = 0]
    /\ matched' = [matched EXCEPT ![g] = FALSE]
    /\ UNCHANGED reqs

RefuseCleared(g) ==
    /\ pc[g] = "enter"
    /\ cleared
    /\ Return(g, Error("ErrInvalidSecret"))
    /\ UNCHANGED <<made, clearVars, pool>>

RefuseWindow(g) ==
    /\ pc[g] = "enter"
    /\ ~ cleared
    /\ Req(g).window > MaxWindow
    /\ Return(g, Error(IF object = "TOTP" THEN "ErrInvalidTime" ELSE "ErrInvalidCounter"))
    /\ UNCHANGED <<made, clearVars, pool>>

(* Forgets the limit of the window. *)
Begin_Unlimited(g) ==
    /\ pc[g] = "enter"
    /\ ~ cleared
    /\ pc' = [pc EXCEPT ![g] = "compute"]
    /\ i' = [i EXCEPT ![g] = First(Req(g))]
    /\ UNCHANGED <<made, clearVars, pool, reqs, matched, results>>

Begin(g) ==
    /\ pc[g] = "enter"
    /\ ~ cleared
    /\ Req(g).window <= MaxWindow
    /\ pc' = [pc EXCEPT ![g] = "compute"]
    /\ i' = [i EXCEPT ![g] = First(Req(g))]
    /\ UNCHANGED <<made, clearVars, pool, reqs, matched, results>>

(* Forgets i++. *)
Loop_Stuck(g) ==
    /\ pc' = [pc EXCEPT ![g] = "compute"]
    /\ UNCHANGED <<reqs, i, results>>

(* The next turn of the loop: i++. *)
Loop(g) ==
    /\ pc' = [pc EXCEPT ![g] = "compute"]
    /\ i' = [i EXCEPT ![g] = @ + 1]
    /\ UNCHANGED <<reqs, results>>

(* The code for the tested counter under key k. *)
Expected(g, k) ==
    [key |-> k, counter |-> TestCounter(Req(g), i[g]), ctx |-> MessageContext(Req(g).ctx)]

Equal(g, k) == Expected(g, k) = Req(g).code

(* Generate and GenBound return the code itself. *)
HOTPGenerated(g, k) ==
    /\ Req(g).op = "Generate" /\ Req(g).type = "HOTP"
    /\ Return(g, [kind |-> "code", code |-> Expected(g, k)])

TOTPGenerated(g, k) ==
    /\ Req(g).op = "Generate" /\ Req(g).type = "TOTP"
    /\ Return(g, [kind |-> "code", code |-> Expected(g, k)])

(* HOTP's Verify and VerifyBound compare with one code. *)
HOTPCompared(g, k) ==
    /\ Req(g).op = "Verify" /\ Req(g).type = "HOTP"
    /\ Return(g, [kind |-> "answer", ok |-> Equal(g, k)])

(* Assigns the comparison instead of accumulating it. *)
TOTPCompared_LastOnly(g, k) ==
    /\ Req(g).op = "Verify" /\ Req(g).type = "TOTP"
    /\ \/ /\ i[g] = Req(g).window
          /\ Return(g, [kind |-> "answer", ok |-> Equal(g, k)])
       \/ /\ i[g] < Req(g).window
          /\ matched' = [matched EXCEPT ![g] = Equal(g, k)]
          /\ Loop(g)

(* TOTP's compare with every code of the window. *)
TOTPCompared(g, k) ==
    LET found == matched[g] \/ Equal(g, k)
    IN  /\ Req(g).op = "Verify" /\ Req(g).type = "TOTP"
        /\ \/ /\ i[g] = Req(g).window
              /\ Return(g, [kind |-> "answer", ok |-> found])
           \/ /\ i[g] < Req(g).window
              /\ matched' = [matched EXCEPT ![g] = found]
              /\ Loop(g)

(* VerifyWithResync stops at the first match and where the counter wraps. *)
Resynced(g, k) ==
    /\ Req(g).op = "VerifyWithResync"
    /\ \/ /\ Equal(g, k)
          /\ Return(g, [kind |-> "resync", ok |-> TRUE, counter |-> Expected(g, k).counter])
       \/ /\ ~ Equal(g, k)
          /\ i[g] < Req(g).window /\ Counter(Req(g)) + i[g] < MaxUint
          /\ Loop(g) /\ UNCHANGED matched
       \/ /\ ~ Equal(g, k)
          /\ i[g] = Req(g).window \/ Counter(Req(g)) + i[g] = MaxUint
          /\ Return(g, [kind |-> "resync", ok |-> FALSE, counter |-> 0])

Computed(g, k) ==
    \/ HOTPGenerated(g, k) \/ TOTPGenerated(g, k)
    \/ HOTPCompared(g, k) \/ TOTPCompared(g, k)
    \/ Resynced(g, k)

-----------------------------------------------------------------------------
(* computeTruncated: where the key comes from. *)

(* hasStaticSecret reads the length of r.secret. *)
HasStaticSecret(g) ==
    /\ pc[g] = "compute"
    /\ pc' = [pc EXCEPT ![g] = IF header.len THEN "static" ELSE "dynamic"]
    /\ UNCHANGED <<made, clearVars, pool, reqs, i, matched, results>>

(* macPool.Get returns a macBuf that was put back, with the key it was made *)
(* with; sync.Pool may also have dropped every one of them.                 *)
Pooled(g) ==
    /\ pc[g] = "static"
    /\ \E k \in pool : Computed(g, k)
    /\ UNCHANGED <<made, clearVars, pool>>

(* macPool.New reads r.secret again. *)
NewMac(g) ==
    /\ pc[g] = "static"
    /\ header.len => header.ptr
    /\ LET k == IF header.len THEN bytes ELSE "zero"
       IN  Computed(g, k) /\ pool' = pool \cup {k}
    /\ UNCHANGED <<made, clearVars>>

(* It saw the header with a length and no pointer. *)
NewMacPanics(g) ==
    /\ pc[g] = "static"
    /\ header.len /\ ~ header.ptr
    /\ Unwind(g)
    /\ UNCHANGED <<made, clearVars, pool>>

(* withMAC without a provider. *)
NoSecret(g) ==
    /\ pc[g] = "dynamic"
    /\ runtime = "static"
    /\ Return(g, Error("ErrInvalidSecret"))
    /\ UNCHANGED <<made, clearVars, pool>>

(* The provider returns a copy of the secret, which withMAC zeroes. *)
ProviderSecret(g) ==
    /\ pc[g] = "dynamic"
    /\ runtime = "secretProvider"
    /\ Computed(g, "key")
    /\ UNCHANGED <<made, clearVars, pool>>

ProviderFails(g) ==
    /\ pc[g] = "dynamic"
    /\ runtime = "secretProvider"
    /\ \E e \in {"ErrSecretProvider", "ErrInvalidSecret"} : Return(g, Error(e))
    /\ UNCHANGED <<made, clearVars, pool>>

(* A sum of the algorithm's size. *)
ProviderHMAC(g) ==
    /\ pc[g] = "dynamic"
    /\ runtime = "hmacProvider"
    /\ Computed(g, "key")
    /\ UNCHANGED <<made, clearVars, pool>>

(* An error, or a sum of another size. *)
HMACFails(g) ==
    /\ pc[g] = "dynamic"
    /\ runtime = "hmacProvider"
    /\ Return(g, Error("ErrHMACProvider"))
    /\ UNCHANGED <<made, clearVars, pool>>

InCall(g) ==
    \/ RefuseCleared(g) \/ RefuseWindow(g) \/ Begin(g)
    \/ HasStaticSecret(g)
    \/ Pooled(g) \/ NewMac(g) \/ NewMacPanics(g)
    \/ NoSecret(g)
    \/ ProviderSecret(g) \/ ProviderFails(g)
    \/ ProviderHMAC(g) \/ HMACFails(g)

-----------------------------------------------------------------------------
(* ClearSecret: the flag, the bytes, the header. *)

callVars == <<made, pool, pc, reqs, i, matched, results>>

(* Leaves the flag to the end, which never comes. *)
SetCleared_Not ==
    /\ clearing = "not"
    /\ clearing' = IF header.len THEN "zeroing" ELSE "unlinking"
    /\ UNCHANGED <<callVars, cleared, header, bytes>>

SetCleared ==
    /\ clearing = "not"
    /\ cleared' = TRUE
    /\ clearing' = IF header.len THEN "zeroing" ELSE "unlinking"
    /\ UNCHANGED <<callVars, header, bytes>>

(* The loop over r.secret, seen half way and at its end. *)
ZeroBytes ==
    /\ clearing = "zeroing"
    /\ bytes' = IF bytes = "key" THEN "mixed" ELSE "zero"
    /\ clearing' = IF bytes = "key" THEN "zeroing" ELSE "unlinking"
    /\ UNCHANGED <<callVars, cleared, header>>

(* r.secret = nil, word by word. *)
UnlinkSecret ==
    /\ clearing = "unlinking"
    /\ \/ /\ header.len
          /\ header' = [header EXCEPT !.len = FALSE]
       \/ /\ header.ptr
          /\ header' = [header EXCEPT !.ptr = FALSE]
    /\ UNCHANGED <<callVars, cleared, bytes, clearing>>

ClearReturns ==
    /\ clearing = "unlinking"
    /\ ~ header.len /\ ~ header.ptr
    /\ clearing' = "done"
    /\ UNCHANGED <<callVars, cleared, header, bytes>>

ClearSecret == SetCleared \/ ZeroBytes \/ UnlinkSecret \/ ClearReturns

Next ==
    \/ \E g \in Callers : \E b \in Batches : Start(g, b)
    \/ \E g \in Callers : InCall(g)
    \/ ClearSecret

(* A goroutine inside a call keeps being scheduled, and providers answer. *)
Spec == Init /\ [][Next]_vars /\ \A g \in Callers : WF_vars(InCall(g))

-----------------------------------------------------------------------------
(* Properties. *)

(* Every variable has its type: in particular no loop of Verify or          *)
(* VerifyWithResync runs past the limit of the window.                      *)
TypeOK ==
    /\ object \in {"HOTP", "TOTP"}
    /\ runtime \in Runtimes
    /\ cleared \in BOOLEAN
    /\ header \in [len : BOOLEAN, ptr : BOOLEAN]
    /\ bytes \in Keys
    /\ pool \subseteq Keys
    /\ clearing \in {"not", "zeroing", "unlinking", "done"}
    /\ pc \in [Callers -> {"idle", "enter", "compute", "static", "dynamic"}]
    /\ reqs \in [Callers -> Batches \cup {<<>>}]
    /\ i \in [Callers -> -MaxWindow .. MaxWindow]
    /\ matched \in [Callers -> BOOLEAN]
    /\ results \in [Callers -> Seq(ResultType)]
    /\ \A g \in Callers : Len(results[g]) <= Len(reqs[g])

(* The counters a verification is meant to accept, as plain integers. *)
Window(r) ==
    IF r.type = "TOTP" THEN Counter(r) - r.window .. Counter(r) + r.window
                       ELSE Counter(r) .. Counter(r) + r.window

(* r's code is the token's code for a counter of the window, and its context. *)
InWindow(r) ==
    /\ r.code.key = "key"
    /\ r.code.counter \in Window(r)
    /\ r.code.ctx = MessageContext(r.ctx)

(* The calls that returned, with their requests. *)
Returned ==
    UNION {{[req |-> reqs[g][n], result |-> results[g][n]] : n \in DOMAIN results[g]} :
             g \in Callers}

Accepted(c) == c.result.kind \in {"answer", "resync"} /\ c.result.ok

Rejected(c) == c.result.kind \in {"answer", "resync"} /\ ~ c.result.ok

(* A code is accepted only for a counter of the window and for the context  *)
(* it was generated with, and under another key than the secret only by a   *)
(* call that ClearSecret overtook, whatever the race leaves in the pool and *)
(* whatever came before it in the batch; VerifyWithResync also reports that *)
(* very counter.  A TOTP window that reaches past the largest uint64 tests  *)
(* counter 0 as well.                                                       *)
AcceptsOnlyTheWindow ==
    \A c \in Returned : Accepted(c) =>
        /\ c.req.code.ctx = MessageContext(c.req.ctx)
        /\ c.req.code.key = "key" \/ cleared
        /\ c.result.kind = "resync" => c.result.counter = c.req.code.counter
        /\ \/ c.req.code.counter \in Window(c.req)
           \/ /\ c.req.type = "TOTP"
              /\ Counter(c.req) + c.req.window > MaxUint
              /\ c.req.code.counter = 0

(* A code of the window is rejected only by a call that ClearSecret         *)
(* overtook.  A failing provider makes an error of the call, never a        *)
(* rejection of the code, and leaves the rest of the batch alone.           *)
RejectsOnlyOutsideTheWindow ==
    \A c \in Returned : Rejected(c) /\ InWindow(c.req) => cleared

(* Generate and GenBound return the code of the key, the counter and the    *)
(* context, unless ClearSecret overtook the call.                           *)
GeneratesUnderTheKey ==
    \A c \in Returned :
        c.result.kind = "code" /\ ~ cleared =>
            c.result.code = [key |-> "key", counter |-> Counter(c.req),
                             ctx |-> MessageContext(c.req.ctx)]

(* Once a call on a static secret has failed with ErrInvalidSecret, no call *)
(* gets as far as computing a code again, be it the next one of the same    *)
(* batch: ClearSecret sets the flag before it touches the secret.           *)
RefusalIsFinal ==
    [][runtime = "static" /\ (\E c \in Returned : c.result = Error("ErrInvalidSecret")) =>
          \A g \in Callers : pc[g] = "enter" => pc'[g] # "compute"]_vars

(* Every call and every batch returns, also one that ClearSecret overtakes. *)
CallsReturn == \A g \in Callers : pc[g] # "idle" ~> pc[g] = "idle"

=============================================================================
