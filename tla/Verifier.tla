------------------------------ MODULE Verifier ------------------------------
(***************************************************************************)
(* Verifier of src/verifier.go: one-time acceptance of a code, and a limit *)
(* on failed attempts.  Several Verifiers (replicas of a service) share    *)
(* one ReplayStore, as docs/distributed_replay_protection.md describes.    *)
(*                                                                         *)
(* verifyInner takes the mutex several times and holds it neither while    *)
(* it compares nor during the store call, so a call is four steps: the     *)
(* gate, the comparison, the store's answer, and the bookkeeping.  The     *)
(* store is any store that keeps the promise of ReplayRegister;            *)
(* InMemoryReplayStore is proved to be one.  A remote store may also fail, *)
(* before or after it recorded the key.                                    *)
(*                                                                         *)
(* grant and accepted are history variables.                               *)
(***************************************************************************)
EXTENDS Integers, FiniteSets

CONSTANTS
    Goroutines,     \* concurrent callers
    Verifiers,      \* Verifier instances that share the store
    Keys,           \* replay keys: code and context
    TTL,            \* ttl of NewVerifierWithStore
    MaxAttempts,    \* maxAttempts
    Uint32Size,     \* 2^32 in the code: attempts is a uint32
    Full(_),        \* when the store may drop live promises, see ReplayRegister
    NoCall,         \* a goroutine that is not inside CheckAndRecord
    NoJob,          \* a goroutine that is not inside verifyInner
    NoGrant,        \* a goroutine whose store call recorded nothing
    MaxClock        \* bound on the clock

Jobs == [at : {"compare", "store"}, verifier : Verifiers, key : Keys, match : BOOLEAN]
Grants == [key : Keys, from : Nat, to : Nat, kept : BOOLEAN]
Calls == [key : Keys, now : Nat, ttl : {TTL}]

ASSUME ConstantsAssumption ==
    /\ IsFiniteSet(Goroutines) /\ Goroutines # {}
    /\ TTL \in Nat
    /\ MaxAttempts \in Nat
    /\ Uint32Size \in Nat
    /\ MaxAttempts - 1 + Cardinality(Goroutines) < Uint32Size

ASSUME NoneAssumption == NoCall \notin Calls /\ NoJob \notin Jobs /\ NoGrant \notin Grants

VARIABLES
    clock, call, reply, held, until,    \* the store, see ReplayRegister
    attempts,   \* attempts[v]: failed attempts counted by v
    job,        \* job[g]: the verifyInner g is inside of
    returned,   \* returned[g]: what g's last verifyInner returned
    grant,      \* history: the promise g's store call obtained
    accepted    \* history: promises whose holder was told true, by key

storeVars == <<clock, call, reply, held, until>>
jobVars == <<attempts, job, returned>>
vars == <<storeVars, jobVars, grant, accepted>>

Store == INSTANCE ReplayRegister WITH Threads <- Goroutines, TTLs <- {TTL}

Init ==
    /\ Store!Init
    /\ attempts = [v \in Verifiers |-> 0]
    /\ job = [g \in Goroutines |-> NoJob]
    /\ returned = [g \in Goroutines |-> "none"]
    /\ grant = [g \in Goroutines |-> NoGrant]
    /\ accepted = {}

Tick == Store!Tick /\ UNCHANGED <<jobVars, grant, accepted>>

-----------------------------------------------------------------------------
(* verifyInner, up to the store call. *)

(* Off by one: a verifier at its limit still lets a call in. *)
PassGate_AtLimit(g, v, k, match) ==
    /\ job[g] = NoJob
    /\ attempts[v] <= MaxAttempts
    /\ job' = [job EXCEPT ![g] = [at |-> "compare", verifier |-> v, key |-> k, match |-> match]]
    /\ returned' = [returned EXCEPT ![g] = "none"]
    /\ UNCHANGED <<storeVars, attempts, grant, accepted>>

(* The test at the top: passed under the mutex, which is then released. *)
PassGate(g, v, k, match) ==
    /\ job[g] = NoJob
    /\ attempts[v] < MaxAttempts
    /\ job' = [job EXCEPT ![g] = [at |-> "compare", verifier |-> v, key |-> k, match |-> match]]
    /\ returned' = [returned EXCEPT ![g] = "none"]
    /\ UNCHANGED <<storeVars, attempts, grant, accepted>>

(* Refused calls are counted too, until the uint32 wraps around. *)
RefuseAtGate_Counts(g, v) ==
    /\ job[g] = NoJob
    /\ attempts[v] >= MaxAttempts
    /\ attempts' = [attempts EXCEPT ![v] = (@ + 1) % Uint32Size]
    /\ returned' = [returned EXCEPT ![g] = "false"]
    /\ UNCHANGED <<storeVars, job, grant, accepted>>

RefuseAtGate(g, v) ==
    /\ job[g] = NoJob
    /\ attempts[v] >= MaxAttempts
    /\ returned' = [returned EXCEPT ![g] = "false"]
    /\ UNCHANGED <<storeVars, attempts, job, grant, accepted>>

Finish(g, r) ==
    /\ job' = [job EXCEPT ![g] = NoJob]
    /\ returned' = [returned EXCEPT ![g] = r]
    /\ grant' = [grant EXCEPT ![g] = NoGrant]

CountFailure(g) ==
    /\ attempts' = [attempts EXCEPT ![job[g].verifier] = (@ + 1) % Uint32Size]
    /\ Finish(g, "false")

(* Code or context differ: counted, the store is not asked. *)
Mismatch(g) ==
    /\ job[g] # NoJob
    /\ job[g].at = "compare"
    /\ ~ job[g].match
    /\ CountFailure(g)
    /\ UNCHANGED <<storeVars, accepted>>

CallStore(g) ==
    /\ job[g] # NoJob
    /\ job[g].at = "compare"
    /\ job[g].match
    /\ Store!Begin(g, job[g].key, TTL)
    /\ job' = [job EXCEPT ![g].at = "store"]
    /\ UNCHANGED <<attempts, returned, grant, accepted>>

-----------------------------------------------------------------------------
(* The store. *)

(* Promises for the keys S are given up: their history no longer counts. *)
AfterGivingUp(gr, S) ==
    [g \in Goroutines |-> IF gr[g] # NoGrant /\ gr[g].key \in S
                          THEN [gr[g] EXCEPT !.kept = FALSE] ELSE gr[g]]

StoreRecords(g) ==
    LET c == call[g]
        gone == {k \in Keys : until[k] # 0 /\ until'[k] = 0}
    IN  /\ Store!FirstSeen(g)
        /\ grant' = [AfterGivingUp(grant, gone) EXCEPT ![g] =
                        [key |-> c.key, from |-> clock, to |-> c.now + c.ttl, kept |-> TRUE]]
        /\ accepted' = {a \in accepted : a.key \notin gone}
        /\ UNCHANGED jobVars

StoreRejects(g) == Store!Replay(g) /\ UNCHANGED <<jobVars, grant, accepted>>

(* The store fails before it recorded anything. *)
StoreFails(g) ==
    /\ call[g] # NoCall
    /\ Store!Answer(g, "error")
    /\ UNCHANGED <<clock, held, until, jobVars, grant, accepted>>

(* The store did its work, but the caller gets an error instead of the reply. *)
ReplyLost(g) ==
    /\ job[g] # NoJob
    /\ job[g].at = "store"
    /\ reply[g] \in {"first", "replay"}
    /\ reply' = [reply EXCEPT ![g] = "error"]
    /\ UNCHANGED <<clock, call, held, until, jobVars, grant, accepted>>

-----------------------------------------------------------------------------
(* verifyInner, after the store call, and the other methods. *)

Answered(g) ==
    /\ job[g] # NoJob
    /\ job[g].at = "store"
    /\ call[g] = NoCall

(* An error and a replay both count as a failed attempt. *)
SettleFailure(g) ==
    /\ Answered(g)
    /\ reply[g] \in {"error", "replay"}
    /\ CountFailure(g)
    /\ UNCHANGED <<storeVars, accepted>>

(* Fails open: a store error passes for a first use. *)
SettleSuccess_OnError(g) ==
    /\ Answered(g)
    /\ reply[g] \in {"first", "error"}
    /\ attempts' = [attempts EXCEPT ![job[g].verifier] = 0]
    /\ Finish(g, "true")
    /\ accepted' = accepted \cup {gr \in {grant[g]} : gr # NoGrant /\ gr.kept}
    /\ UNCHANGED storeVars

(* A success takes back one failure instead of clearing the count. *)
SettleSuccess_Decrements(g) ==
    /\ Answered(g)
    /\ reply[g] = "first"
    /\ attempts' = [attempts EXCEPT ![job[g].verifier] = @ - 1]
    /\ Finish(g, "true")
    /\ accepted' = accepted \cup {gr \in {grant[g]} : gr # NoGrant /\ gr.kept}
    /\ UNCHANGED storeVars

SettleSuccess(g) ==
    /\ Answered(g)
    /\ reply[g] = "first"
    /\ attempts' = [attempts EXCEPT ![job[g].verifier] = 0]
    /\ Finish(g, "true")
    /\ accepted' = accepted \cup {gr \in {grant[g]} : gr # NoGrant /\ gr.kept}
    /\ UNCHANGED storeVars

ResetAttempts(v) ==
    /\ attempts' = [attempts EXCEPT ![v] = 0]
    /\ UNCHANGED <<storeVars, job, returned, grant, accepted>>

(* An error of the store's Reset is dropped, and then nothing happened. *)
ClearUsedCodes ==
    /\ Store!Reset
    /\ grant' = AfterGivingUp(grant, Keys)
    /\ accepted' = {}
    /\ UNCHANGED jobVars

(* Every step but that of the clock and of a call that enters. *)
Proceed ==
    \/ \E g \in Goroutines, v \in Verifiers : RefuseAtGate(g, v)
    \/ \E g \in Goroutines :
          \/ Mismatch(g)
          \/ CallStore(g)
          \/ StoreRecords(g)
          \/ StoreRejects(g)
          \/ StoreFails(g)
          \/ ReplyLost(g)
          \/ SettleFailure(g)
          \/ SettleSuccess(g)
    \/ \E v \in Verifiers : ResetAttempts(v)
    \/ ClearUsedCodes

Next ==
    \/ Tick
    \/ \E g \in Goroutines, v \in Verifiers, k \in Keys, match \in BOOLEAN :
          PassGate(g, v, k, match)
    \/ Proceed

Spec == Init /\ [][Next]_vars

-----------------------------------------------------------------------------
(* Properties. *)

(* The type of every variable; a goroutine calls the store only from        *)
(* verifyInner's store step.                                                *)
TypeOK ==
    /\ clock \in Nat
    /\ call \in [Goroutines -> Calls \cup {NoCall}]
    /\ reply \in [Goroutines -> {"none", "first", "replay", "error"}]
    /\ held \subseteq Keys
    /\ until \in [Keys -> Nat]
    /\ attempts \in [Verifiers -> 0 .. Uint32Size - 1]
    /\ job \in [Goroutines -> Jobs \cup {NoJob}]
    /\ returned \in [Goroutines -> {"none", "true", "false"}]
    /\ grant \in [Goroutines -> Grants \cup {NoGrant}]
    /\ accepted \subseteq Grants

InFlight(v) == {g \in Goroutines : job[g] # NoJob /\ job[g].verifier = v}

(* The gate is checked before the failure is counted, so calls that passed  *)
(* it together overshoot the limit; the overshoot is at most the number of  *)
(* concurrent callers less one, and the uint32 never wraps back below the   *)
(* limit.                                                                   *)
OvershootBounded ==
    \A v \in Verifiers :
        attempts[v] + Cardinality(InFlight(v)) <= MaxAttempts - 1 + Cardinality(Goroutines)

(* A locked-out Verifier lets no call in, with a right code or not, and     *)
(* only ResetAttempts or the success of a call that was past the gate       *)
(* before lifts the lockout: not time, not the store, not a call on another *)
(* replica, and not the failures that are still counted.                    *)
LockoutHolds ==
    [][\A v \in Verifiers : attempts[v] >= MaxAttempts =>
         /\ InFlight(v)' \subseteq InFlight(v)
         /\ \/ attempts'[v] >= MaxAttempts
            \/ ResetAttempts(v)
            \/ \E g \in InFlight(v) : returned'[g] = "true"
      ]_vars

Disjoint(a, b) == a.to <= b.from \/ b.to <= a.from

(* verifyInner returns true only to a caller for whom the store recorded    *)
(* the key, and while that promise runs no other caller, on any replica, is *)
(* told true for the key: with concurrent calls, store errors, lost replies *)
(* and calls that stall after their clock reading.  Given-up promises       *)
(* (ClearUsedCodes, a full store) are exempt.                               *)
AcceptedOnce ==
    [][\A g \in Goroutines :
         (returned[g] # "true" /\ returned'[g] = "true") =>
            /\ grant[g] # NoGrant
            /\ grant[g].kept => \A a \in accepted : a.key = grant[g].key => Disjoint(a, grant[g])
      ]_vars

=============================================================================
