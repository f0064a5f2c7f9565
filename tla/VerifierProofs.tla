--------------------------- MODULE VerifierProofs ---------------------------
(***************************************************************************)
(* Proofs about Verifier, for any number of goroutines, replicas and keys, *)
(* any limit and lifetime, and any store that keeps ReplayRegister's       *)
(* promise; and then about TotpReplay, which puts TOTP codes behind them.  *)
(* Only the second part uses TotpAssumption.                               *)
(***************************************************************************)
EXTENDS TotpReplay, FiniteSetTheorems, TLAPS

-----------------------------------------------------------------------------
(* Counting the calls past the gate. *)

(* The calls past the gate of a Verifier are finitely many. *)
LEMMA InFlightFinite ==
    ASSUME NEW v
    PROVE  /\ IsFiniteSet(InFlight(v))
           /\ Cardinality(InFlight(v)) \in Nat
           /\ Cardinality(Goroutines) \in Nat
           /\ Cardinality(InFlight(v)) <= Cardinality(Goroutines)
  <1>1. IsFiniteSet(Goroutines) /\ InFlight(v) \subseteq Goroutines
    BY ConstantsAssumption DEF ConstantsAssumption, InFlight
  <1> QED BY <1>1, FS_Subset, FS_CardinalityType

(* A call that returns leaves one call less past the gate. *)
LEMMA OneCallLess ==
    ASSUME NEW v, NEW g \in InFlight(v), InFlight(v)' = InFlight(v) \ {g}
    PROVE  Cardinality(InFlight(v)') = Cardinality(InFlight(v)) - 1
  BY InFlightFinite, FS_RemoveElement

(* Counting one failure more than there are does not wrap the uint32. *)
LEMMA NoWrap ==
    ASSUME NEW a \in Nat, a < Uint32Size
    PROVE  a % Uint32Size = a
  BY ConstantsAssumption DEF ConstantsAssumption

(* A uint32 stays a uint32. *)
LEMMA ModInRange ==
    ASSUME NEW a \in Nat
    PROVE  a % Uint32Size \in 0 .. Uint32Size - 1
  <1>1. Uint32Size \in Nat \ {0}
    <2>1. Cardinality(Goroutines) \in Nat
      BY FS_CardinalityType, ConstantsAssumption DEF ConstantsAssumption
    <2>2. Cardinality(Goroutines) # 0
      BY FS_EmptySet, ConstantsAssumption DEF ConstantsAssumption
    <2> QED BY <2>1, <2>2, ConstantsAssumption DEF ConstantsAssumption
  <1> QED BY <1>1

-----------------------------------------------------------------------------
(* Types. *)

(* A step of the store on its own keeps the types of the store. *)
StoreTypeOK ==
    /\ clock \in Nat
    /\ call \in [Goroutines -> Calls \cup {NoCall}]
    /\ reply \in [Goroutines -> {"none", "first", "replay", "error"}]
    /\ held \subseteq Keys
    /\ until \in [Keys -> Nat]

(* What a successful CheckAndRecord records has the right type. *)
LEMMA FirstSeenType ==
    ASSUME StoreTypeOK, NEW g \in Goroutines, Store!FirstSeen(g)
    PROVE  StoreTypeOK' /\ call[g] \in Calls
  <1> DEFINE c == call[g]
  <1>1. c \in Calls /\ c.key \in Keys /\ c.now + c.ttl \in Nat
    <2>1. c \in Calls
      BY DEF StoreTypeOK, Store!FirstSeen
    <2>2. c.key \in Keys /\ c.now \in Nat /\ c.ttl = TTL
      BY <2>1 DEF Calls
    <2> QED BY <2>1, <2>2, ConstantsAssumption DEF ConstantsAssumption
  <1>2. PICK expired \in SUBSET held, lost \in SUBSET held :
           /\ held' = (held \ (expired \cup lost)) \cup {c.key}
           /\ until' = [k \in Keys |-> IF k = c.key THEN c.now + c.ttl
                                       ELSE IF k \in lost THEN 0 ELSE until[k]]
    BY DEF Store!FirstSeen
  <1>3. held' \subseteq Keys /\ until' \in [Keys -> Nat]
    BY <1>1, <1>2 DEF StoreTypeOK
  <1>4. Store!Answer(g, "first") /\ UNCHANGED clock
    BY DEF Store!FirstSeen
  <1> QED BY <1>1, <1>3, <1>4 DEF StoreTypeOK, Store!Answer

(* Giving up promises keeps the type of the history. *)
LEMMA AfterGivingUpType ==
    ASSUME grant \in [Goroutines -> Grants \cup {NoGrant}], NEW S
    PROVE  AfterGivingUp(grant, S) \in [Goroutines -> Grants \cup {NoGrant}]
  <1>1. ASSUME NEW g \in Goroutines, grant[g] # NoGrant
        PROVE  [grant[g] EXCEPT !.kept = FALSE] \in Grants
    <2>1. grant[g] \in Grants
      BY <1>1
    <2> QED BY <2>1 DEF Grants
  <1> QED BY <1>1 DEF AfterGivingUp

(* Every step keeps the types. *)
LEMMA NextTypeOK == TypeOK /\ [Next]_vars => TypeOK'
  <1> SUFFICES ASSUME TypeOK, [Next]_vars PROVE TypeOK'
    OBVIOUS
  <1> USE DEF TypeOK
  <1>0. StoreTypeOK
    BY DEF StoreTypeOK
  <1>a. ASSUME NEW g \in Goroutines, job[g] # NoJob, CountFailure(g)
        PROVE  /\ attempts' \in [Verifiers -> 0 .. Uint32Size - 1]
               /\ job' \in [Goroutines -> Jobs \cup {NoJob}]
               /\ returned' \in [Goroutines -> {"none", "true", "false"}]
               /\ grant' \in [Goroutines -> Grants \cup {NoGrant}]
    <2> DEFINE v == job[g].verifier
    <2>1. v \in Verifiers
      BY <1>a DEF Jobs
    <2>2. attempts[v] + 1 \in Nat
      BY <2>1
    <2>3. (attempts[v] + 1) % Uint32Size \in 0 .. Uint32Size - 1
      BY <2>2, ModInRange
    <2>4. attempts' = [attempts EXCEPT ![v] = (attempts[v] + 1) % Uint32Size]
      BY <1>a DEF CountFailure
    <2>5. attempts' \in [Verifiers -> 0 .. Uint32Size - 1]
      <3> HIDE DEF v
      <3> QED BY <2>1, <2>3, <2>4
    <2> QED BY <1>a, <2>5 DEF CountFailure, Finish
  <1>1. CASE Tick
    BY <1>1 DEF Tick, Store!Tick, jobVars
  <1>2. ASSUME NEW g \in Goroutines, NEW v \in Verifiers, NEW k \in Keys, NEW match \in BOOLEAN,
               PassGate(g, v, k, match)
        PROVE  TypeOK'
    <2>1. [at |-> "compare", verifier |-> v, key |-> k, match |-> match] \in Jobs
      BY DEF Jobs
    <2> QED BY <1>2, <2>1 DEF PassGate, storeVars
  <1>3. ASSUME NEW g \in Goroutines, NEW v \in Verifiers, RefuseAtGate(g, v)
        PROVE  TypeOK'
    BY <1>3 DEF RefuseAtGate, storeVars
  <1>4. ASSUME NEW g \in Goroutines, Mismatch(g)
        PROVE  TypeOK'
    BY <1>4, <1>a DEF Mismatch, storeVars
  <1>5. ASSUME NEW g \in Goroutines, CallStore(g)
        PROVE  TypeOK'
    <2>1. job[g] \in Jobs
      BY <1>5 DEF CallStore
    <2>2. [job[g] EXCEPT !.at = "store"] \in Jobs /\ job[g].key \in Keys
      BY <2>1 DEF Jobs
    <2>3. job' \in [Goroutines -> Jobs \cup {NoJob}]
      BY <1>5, <2>2 DEF CallStore
    <2>4. [key |-> job[g].key, now |-> clock, ttl |-> TTL] \in Calls
      BY <2>2 DEF Calls
    <2>5. StoreTypeOK'
      BY <1>0, <1>5, <2>4 DEF CallStore, Store!Begin, StoreTypeOK
    <2> QED BY <1>5, <2>3, <2>5 DEF CallStore, StoreTypeOK
  <1>6. ASSUME NEW g \in Goroutines, StoreRecords(g)
        PROVE  TypeOK'
    <2> DEFINE gone == {k \in Keys : until[k] # 0 /\ until'[k] = 0}
               c == call[g]
               new == [key |-> c.key, from |-> clock, to |-> c.now + c.ttl, kept |-> TRUE]
    <2>1. StoreTypeOK' /\ c \in Calls
      BY <1>0, <1>6, FirstSeenType DEF StoreRecords
    <2>2. new \in Grants
      <3>1. c.key \in Keys /\ c.now \in Nat /\ c.ttl = TTL
        BY <2>1 DEF Calls
      <3> QED BY <3>1, ConstantsAssumption DEF ConstantsAssumption, Grants
    <2>3. grant' \in [Goroutines -> Grants \cup {NoGrant}]
      <3>1. grant' = [AfterGivingUp(grant, gone) EXCEPT ![g] = new]
        BY <1>6 DEF StoreRecords
      <3> HIDE DEF new, gone
      <3> QED BY <2>2, <3>1, AfterGivingUpType
    <2>4. accepted' \subseteq Grants
      BY <1>6 DEF StoreRecords
    <2> QED BY <1>6, <2>1, <2>3, <2>4 DEF StoreRecords, StoreTypeOK, jobVars
  <1>7. ASSUME NEW g \in Goroutines, StoreRejects(g)
        PROVE  TypeOK'
    BY <1>7 DEF StoreRejects, Store!Replay, Store!Answer, jobVars
  <1>8. ASSUME NEW g \in Goroutines, StoreFails(g)
        PROVE  TypeOK'
    BY <1>8 DEF StoreFails, Store!Answer, jobVars
  <1>9. ASSUME NEW g \in Goroutines, ReplyLost(g)
        PROVE  TypeOK'
    BY <1>9 DEF ReplyLost, jobVars
  <1>10. ASSUME NEW g \in Goroutines, SettleFailure(g)
         PROVE  TypeOK'
    BY <1>10, <1>a DEF SettleFailure, Answered, storeVars
  <1>11. ASSUME NEW g \in Goroutines, SettleSuccess(g)
         PROVE  TypeOK'
    <2>1. Uint32Size \in Nat \ {0} /\ 0 \in 0 .. Uint32Size - 1
      BY ModInRange, ConstantsAssumption DEF ConstantsAssumption
    <2>2. job[g].verifier \in Verifiers
      BY <1>11 DEF SettleSuccess, Answered, Jobs
    <2>3. accepted' \subseteq Grants
      BY <1>11 DEF SettleSuccess
    <2> QED BY <1>11, <2>1, <2>2, <2>3 DEF SettleSuccess, Finish, storeVars
  <1>12. ASSUME NEW v \in Verifiers, ResetAttempts(v)
         PROVE  TypeOK'
    <2>1. Uint32Size \in Nat \ {0} /\ 0 \in 0 .. Uint32Size - 1
      BY ModInRange, ConstantsAssumption DEF ConstantsAssumption
    <2> QED BY <1>12, <2>1 DEF ResetAttempts, storeVars
  <1>13. CASE ClearUsedCodes
    <2>1. grant' \in [Goroutines -> Grants \cup {NoGrant}]
      BY <1>13, AfterGivingUpType DEF ClearUsedCodes
    <2> QED BY <1>13, <2>1 DEF ClearUsedCodes, Store!Reset, jobVars
  <1>14. CASE UNCHANGED vars
    BY <1>14 DEF vars, storeVars, jobVars
  <1> QED BY <1>1, <1>2, <1>3, <1>4, <1>5, <1>6, <1>7, <1>8, <1>9, <1>10, <1>11,
             <1>12, <1>13, <1>14 DEF Next, Proceed

(* A fresh Verifier on a fresh store is well typed. *)
LEMMA InitTypeOK == Init => TypeOK
  <1>1. 0 \in 0 .. Uint32Size - 1
    BY ModInRange, ConstantsAssumption DEF ConstantsAssumption
  <1> QED BY <1>1 DEF Init, Store!Init, TypeOK

(* Every variable keeps its type, attempts as a uint32 included. *)
THEOREM TypeCorrect == Spec => []TypeOK
  BY InitTypeOK, NextTypeOK, PTL DEF Spec

-----------------------------------------------------------------------------
(* The limit on failed attempts. *)

(* A failure is counted without wrapping the uint32. *)
LEMMA FailureCounts ==
    ASSUME TypeOK, OvershootBounded, NEW g \in Goroutines, job[g] # NoJob, CountFailure(g),
           NEW w \in Verifiers, w = job[g].verifier
    PROVE  attempts'[w] = attempts[w] + 1
  <1> DEFINE N == Cardinality(Goroutines)
             n == Cardinality(InFlight(w))
             a == attempts[w]
  <1>1. g \in InFlight(w)
    BY DEF InFlight
  <1>2. a + n <= MaxAttempts - 1 + N
    BY DEF OvershootBounded
  <1>3. /\ n \in Nat /\ n # 0 /\ N \in Nat /\ MaxAttempts \in Nat
        /\ MaxAttempts - 1 + N < Uint32Size /\ Uint32Size \in Nat /\ a \in Nat
    BY <1>1, InFlightFinite, FS_EmptySet, ConstantsAssumption DEF ConstantsAssumption, TypeOK
  <1>4. attempts'[w] = (a + 1) % Uint32Size
    BY DEF CountFailure, TypeOK
  <1> HIDE DEF n, a, N
  <1>5. a + 1 \in Nat /\ a + 1 < Uint32Size
    BY <1>2, <1>3
  <1> QED BY <1>4, <1>5, NoWrap DEF a

(* A call past the gate that returns a failure trades its place in flight   *)
(* for one counted attempt, so the sum OvershootBounded bounds is the same. *)
LEMMA FailureKeepsBound ==
    ASSUME TypeOK, OvershootBounded, NEW g \in Goroutines, job[g] # NoJob, CountFailure(g)
    PROVE  OvershootBounded'
  <1> DEFINE N == Cardinality(Goroutines)
  <1>1. PICK w \in Verifiers : w = job[g].verifier
    BY DEF TypeOK, Jobs
  <1>2. g \in InFlight(w) /\ InFlight(w)' = InFlight(w) \ {g}
    BY <1>1 DEF InFlight, CountFailure, Finish, TypeOK
  <1>3. Cardinality(InFlight(w)') = Cardinality(InFlight(w)) - 1
    BY <1>2, OneCallLess
  <1>4. attempts[w] + Cardinality(InFlight(w)) <= MaxAttempts - 1 + N
    BY <1>1 DEF OvershootBounded
  <1>5. Cardinality(InFlight(w)) \in Nat /\ N \in Nat /\ MaxAttempts \in Nat /\ attempts[w] \in Nat
    BY <1>1, InFlightFinite, ConstantsAssumption DEF ConstantsAssumption, TypeOK
  <1>6. attempts'[w] = attempts[w] + 1
    BY <1>1, FailureCounts
  <1>7. ASSUME NEW v \in Verifiers, v # w
        PROVE  attempts'[v] = attempts[v] /\ InFlight(v)' = InFlight(v)
    BY <1>1, <1>7 DEF CountFailure, Finish, InFlight, TypeOK
  <1>8. ASSUME NEW v \in Verifiers
        PROVE  attempts'[v] + Cardinality(InFlight(v)') <= MaxAttempts - 1 + N
    <2>1. CASE v = w
      <3> HIDE DEF N
      <3> QED BY <2>1, <1>3, <1>4, <1>5, <1>6
    <2>2. CASE v # w
      BY <2>2, <1>7 DEF OvershootBounded
    <2> QED BY <2>1, <2>2
  <1> QED BY <1>8 DEF OvershootBounded

(* A call that is accepted leaves, and the count starts again from zero. *)
LEMMA SuccessKeepsBound ==
    ASSUME TypeOK, OvershootBounded, NEW g \in Goroutines, SettleSuccess(g)
    PROVE  OvershootBounded'
  <1> DEFINE N == Cardinality(Goroutines)
  <1>1. PICK w \in Verifiers : w = job[g].verifier
    BY DEF SettleSuccess, Answered, TypeOK, Jobs
  <1>2. g \in InFlight(w) /\ InFlight(w)' = InFlight(w) \ {g}
    BY <1>1 DEF InFlight, SettleSuccess, Answered, Finish, TypeOK
  <1>3. Cardinality(InFlight(w)') = Cardinality(InFlight(w)) - 1
    BY <1>2, OneCallLess
  <1>4. /\ Cardinality(InFlight(w)) \in Nat /\ Cardinality(InFlight(w)) <= N
        /\ N \in Nat /\ MaxAttempts \in Nat
    BY InFlightFinite, ConstantsAssumption DEF ConstantsAssumption
  <1>5. attempts'[w] = 0
    BY <1>1 DEF SettleSuccess, TypeOK
  <1>6. ASSUME NEW v \in Verifiers, v # w
        PROVE  attempts'[v] = attempts[v] /\ InFlight(v)' = InFlight(v)
    BY <1>1, <1>6 DEF SettleSuccess, Finish, InFlight, TypeOK
  <1>7. ASSUME NEW v \in Verifiers
        PROVE  attempts'[v] + Cardinality(InFlight(v)') <= MaxAttempts - 1 + N
    <2>1. CASE v = w
      <3> HIDE DEF N
      <3> QED BY <2>1, <1>3, <1>4, <1>5
    <2>2. CASE v # w
      BY <2>2, <1>6 DEF OvershootBounded
    <2> QED BY <2>1, <2>2
  <1> QED BY <1>7 DEF OvershootBounded

(* Every step keeps the bound. *)
LEMMA NextOvershootBounded ==
    TypeOK /\ OvershootBounded /\ [Next]_vars => OvershootBounded'
  <1> SUFFICES ASSUME TypeOK, OvershootBounded, [Next]_vars PROVE OvershootBounded'
    OBVIOUS
  <1> DEFINE N == Cardinality(Goroutines)
  <1>a. ASSUME UNCHANGED attempts, \A v \in Verifiers : InFlight(v)' = InFlight(v)
        PROVE  OvershootBounded'
    BY <1>a DEF OvershootBounded
  <1>b. ASSUME UNCHANGED <<attempts, job>> PROVE OvershootBounded'
    BY <1>a, <1>b DEF InFlight
  <1>1. CASE Tick
    BY <1>1, <1>b DEF Tick, jobVars
  <1>2. ASSUME NEW g \in Goroutines, NEW w \in Verifiers, NEW k \in Keys, NEW match \in BOOLEAN,
               PassGate(g, w, k, match)
        PROVE  OvershootBounded'
    <2>1. UNCHANGED attempts /\ attempts[w] < MaxAttempts
      BY <1>2 DEF PassGate
    <2>2. ASSUME NEW v \in Verifiers, v # w PROVE InFlight(v)' = InFlight(v)
      BY <1>2, <2>2 DEF PassGate, InFlight, TypeOK
    <2>3. Cardinality(InFlight(w)') <= N /\ Cardinality(InFlight(w)') \in Nat /\ N \in Nat
      <3>1. InFlight(w)' \subseteq Goroutines
        BY DEF InFlight
      <3> QED BY <3>1, FS_Subset, FS_CardinalityType, ConstantsAssumption DEF ConstantsAssumption
    <2>4. attempts'[w] + Cardinality(InFlight(w)') <= MaxAttempts - 1 + N
      BY <2>1, <2>3, ConstantsAssumption DEF ConstantsAssumption, TypeOK
    <2> QED BY <2>1, <2>2, <2>4 DEF OvershootBounded
  <1>3. ASSUME NEW g \in Goroutines, NEW v \in Verifiers, RefuseAtGate(g, v)
        PROVE  OvershootBounded'
    BY <1>3, <1>b DEF RefuseAtGate
  <1>4. ASSUME NEW g \in Goroutines, Mismatch(g)
        PROVE  OvershootBounded'
    BY <1>4, FailureKeepsBound DEF Mismatch
  <1>5. ASSUME NEW g \in Goroutines, CallStore(g)
        PROVE  OvershootBounded'
    <2>1. job[g] \in Jobs /\ [job[g] EXCEPT !.at = "store"] \in Jobs
      BY <1>5 DEF CallStore, TypeOK, Jobs
    <2>2. \A v \in Verifiers : InFlight(v)' = InFlight(v)
      BY <1>5, <2>1, NoneAssumption DEF NoneAssumption, CallStore, InFlight, TypeOK, Jobs
    <2> QED BY <1>5, <2>2, <1>a DEF CallStore
  <1>6. ASSUME NEW g \in Goroutines, StoreRecords(g) \/ StoreRejects(g) \/ StoreFails(g) \/ ReplyLost(g)
        PROVE  OvershootBounded'
    BY <1>6, <1>b DEF StoreRecords, StoreRejects, StoreFails, ReplyLost, jobVars
  <1>7. ASSUME NEW g \in Goroutines, SettleFailure(g)
        PROVE  OvershootBounded'
    BY <1>7, FailureKeepsBound DEF SettleFailure, Answered
  <1>8. ASSUME NEW g \in Goroutines, SettleSuccess(g)
        PROVE  OvershootBounded'
    BY <1>8, SuccessKeepsBound
  <1>9. ASSUME NEW w \in Verifiers, ResetAttempts(w)
        PROVE  OvershootBounded'
    <2>1. ASSUME NEW v \in Verifiers
          PROVE  attempts'[v] + Cardinality(InFlight(v)') <= MaxAttempts - 1 + N
      <3>1. InFlight(v)' = InFlight(v) /\ attempts'[v] <= attempts[v] /\ attempts'[v] \in Nat
        BY <1>9 DEF ResetAttempts, InFlight, TypeOK
      <3>2. Cardinality(InFlight(v)) \in Nat /\ N \in Nat /\ MaxAttempts \in Nat
        BY InFlightFinite, ConstantsAssumption DEF ConstantsAssumption
      <3>3. attempts[v] + Cardinality(InFlight(v)) <= MaxAttempts - 1 + N /\ attempts[v] \in Nat
        BY DEF OvershootBounded, TypeOK
      <3> HIDE DEF N
      <3> QED BY <3>1, <3>2, <3>3
    <2> QED BY <2>1 DEF OvershootBounded
  <1>10. CASE ClearUsedCodes
    BY <1>10, <1>b DEF ClearUsedCodes, jobVars
  <1>11. CASE UNCHANGED vars
    BY <1>11, <1>b DEF vars, jobVars
  <1> QED BY <1>1, <1>2, <1>3, <1>4, <1>5, <1>6, <1>7, <1>8, <1>9, <1>10, <1>11 DEF Next, Proceed

(* The count of failed attempts exceeds the limit by less than the number   *)
(* of concurrent callers, and never wraps, for any limit and any number of  *)
(* callers that a uint32 can hold.                                          *)
THEOREM OvershootIsBounded == Spec => []OvershootBounded
  <1>1. Init => OvershootBounded
    <2> SUFFICES ASSUME Init PROVE OvershootBounded
      OBVIOUS
    <2>1. ASSUME NEW v \in Verifiers
          PROVE  attempts[v] = 0 /\ Cardinality(InFlight(v)) = 0
      <3>1. InFlight(v) = {}
        BY DEF Init, InFlight
      <3> QED BY <3>1, FS_EmptySet DEF Init
    <2>2. Cardinality(Goroutines) \in Nat /\ Cardinality(Goroutines) # 0 /\ MaxAttempts \in Nat
      BY FS_EmptySet, FS_CardinalityType, ConstantsAssumption DEF ConstantsAssumption
    <2> QED BY <2>1, <2>2 DEF OvershootBounded
  <1> QED BY <1>1, TypeCorrect, NextOvershootBounded, PTL DEF Spec

(* A lockout lets no call in, and ends only by ResetAttempts or by the      *)
(* success of a call that was past the gate before it: counting failures    *)
(* never wraps the uint32 back below the limit.                             *)
THEOREM LockoutIsHeld == Spec => LockoutHolds
  <1> DEFINE Ends(v) == \/ attempts'[v] >= MaxAttempts
                        \/ ResetAttempts(v)
                        \/ \E g \in InFlight(v) : returned'[g] = "true"
             Stays(v) == attempts[v] >= MaxAttempts => /\ InFlight(v)' \subseteq InFlight(v)
                                                       /\ Ends(v)
  <1>1. TypeOK /\ OvershootBounded /\ [Next]_vars => [\A v \in Verifiers : Stays(v)]_vars
    <2> SUFFICES ASSUME TypeOK, OvershootBounded, Next, NEW v \in Verifiers, attempts[v] >= MaxAttempts
                 PROVE  InFlight(v)' \subseteq InFlight(v) /\ Ends(v)
      OBVIOUS
    <2>0. attempts[v] \in Nat /\ MaxAttempts \in Nat
      BY ConstantsAssumption DEF ConstantsAssumption, TypeOK
    <2>a. ASSUME UNCHANGED <<attempts, job>> PROVE InFlight(v)' \subseteq InFlight(v) /\ Ends(v)
      BY <2>a DEF InFlight
    <2>1. ASSUME NEW g \in Goroutines, NEW w \in Verifiers, NEW k \in Keys, NEW match \in BOOLEAN,
                 PassGate(g, w, k, match)
          PROVE  InFlight(v)' \subseteq InFlight(v) /\ Ends(v)
      <3>1. w # v /\ attempts' = attempts
        BY <2>0, <2>1 DEF PassGate
      <3>2. job' = [job EXCEPT ![g] = [at |-> "compare", verifier |-> w, key |-> k, match |-> match]]
        BY <2>1 DEF PassGate
      <3>3. InFlight(v)' \subseteq InFlight(v)
        BY <3>1, <3>2 DEF InFlight, TypeOK
      <3> QED BY <3>1, <3>3
    <2>2. ASSUME NEW g \in Goroutines, job[g] # NoJob, CountFailure(g)
          PROVE  InFlight(v)' \subseteq InFlight(v) /\ Ends(v)
      <3>1. PICK w \in Verifiers : w = job[g].verifier
        BY <2>2 DEF TypeOK, Jobs
      <3>2. attempts'[w] = attempts[w] + 1
        BY <2>2, <3>1, FailureCounts
      <3>3. v # w => attempts'[v] = attempts[v]
        BY <2>2, <3>1 DEF CountFailure, TypeOK
      <3>4. attempts'[v] >= MaxAttempts
        BY <2>0, <3>2, <3>3
      <3>5. InFlight(v)' \subseteq InFlight(v)
        BY <2>2 DEF InFlight, CountFailure, Finish, TypeOK
      <3> QED BY <3>4, <3>5
    <2>3. ASSUME NEW g \in Goroutines, SettleSuccess(g)
          PROVE  InFlight(v)' \subseteq InFlight(v) /\ Ends(v)
      <3>1. returned'[g] = "true" /\ (g \in InFlight(v) \/ job[g].verifier # v)
        BY <2>3 DEF SettleSuccess, Answered, Finish, InFlight, TypeOK
      <3>2. job[g].verifier # v => attempts'[v] = attempts[v]
        BY <2>3 DEF SettleSuccess, TypeOK
      <3>3. InFlight(v)' \subseteq InFlight(v)
        BY <2>3 DEF InFlight, SettleSuccess, Finish, TypeOK
      <3> QED BY <3>1, <3>2, <3>3
    <2>4. ASSUME NEW w \in Verifiers, ResetAttempts(w)
          PROVE  InFlight(v)' \subseteq InFlight(v) /\ Ends(v)
      <3>1. w = v \/ attempts'[v] = attempts[v]
        BY <2>4 DEF ResetAttempts, TypeOK
      <3>2. InFlight(v)' = InFlight(v)
        BY <2>4 DEF ResetAttempts, InFlight
      <3> QED BY <2>4, <3>1, <3>2
    <2>5. ASSUME NEW g \in Goroutines, CallStore(g)
          PROVE  InFlight(v)' \subseteq InFlight(v) /\ Ends(v)
      <3>1. attempts' = attempts /\ job' = [job EXCEPT ![g].at = "store"] /\ job[g] # NoJob
        BY <2>5 DEF CallStore
      <3>2. \A h \in Goroutines : job[h] = NoJob => job'[h] = NoJob
        BY <3>1 DEF TypeOK
      <3>3. \A h \in Goroutines : job[h] # NoJob => job'[h].verifier = job[h].verifier
        <4>1. \A j \in Jobs : [j EXCEPT !.at = "store"].verifier = j.verifier
          BY DEF Jobs
        <4> QED BY <3>1, <4>1 DEF TypeOK
      <3>4. InFlight(v)' \subseteq InFlight(v)
        BY <3>2, <3>3 DEF InFlight
      <3> QED BY <3>1, <3>4
    <2> HIDE DEF Ends
    <2> QED BY <2>a, <2>1, <2>2, <2>3, <2>4, <2>5 DEF Next, Proceed, Tick, RefuseAtGate, Mismatch,
         StoreRecords, StoreRejects, StoreFails, ReplyLost, SettleFailure, Answered,
         ClearUsedCodes, jobVars
  <1> QED BY <1>1, TypeCorrect, OvershootIsBounded, PTL DEF Spec, LockoutHolds

-----------------------------------------------------------------------------
(* One acceptance per promise. *)

(* The caller g holds a promise that has not been given up. *)
Holds(g) == grant[g] # NoGrant /\ grant[g].kept

(* A promise made so far has run out, or is the one the store enforces. *)
Enforced(a) == a.from <= clock /\ (a.to <= clock \/ a.to = until[a.key])

(* AcceptedOnce compares promises whose holders were already told true with *)
(* one whose holder is about to be.  Inductively, ALL promises in flight or *)
(* accepted are disjoint; a new one is, because the others have run out or  *)
(* are the one the store enforces, and the store waits for that one's end.  *)
GrantsInv ==
    /\ \A a \in accepted : Enforced(a)
    /\ \A g \in Goroutines : Holds(g) => Enforced(grant[g])
    /\ \A g, h \in Goroutines :
          g # h /\ Holds(g) /\ Holds(h) /\ grant[g].key = grant[h].key
             => Disjoint(grant[g], grant[h])
    /\ \A g \in Goroutines, a \in accepted :
          Holds(g) /\ a.key = grant[g].key => Disjoint(a, grant[g])
    /\ \A g \in Goroutines :
          job[g] # NoJob /\ job[g].at = "store" /\ reply[g] = "first" => grant[g] # NoGrant

(* Finishing a call without acceptance only forgets a promise. *)
LEMMA FinishKeepsGrants ==
    ASSUME TypeOK, GrantsInv, NEW g \in Goroutines, NEW r, Finish(g, r),
           UNCHANGED <<storeVars, accepted>>
    PROVE  GrantsInv'
  <1>1. \A h \in Goroutines : h # g => grant'[h] = grant[h] /\ job'[h] = job[h]
    BY DEF Finish, TypeOK
  <1>2. grant'[g] = NoGrant /\ job'[g] = NoJob
    BY DEF Finish, TypeOK
  <1> QED BY <1>1, <1>2 DEF GrantsInv, Holds, Enforced, Disjoint, storeVars

(* A new promise is disjoint from every other one that still counts. *)
LEMMA RecordKeepsGrants ==
    ASSUME TypeOK, GrantsInv, NEW g \in Goroutines, StoreRecords(g)
    PROVE  GrantsInv'
  <1> DEFINE c == call[g]
             gone == {k \in Keys : until[k] # 0 /\ until'[k] = 0}
             new == [key |-> c.key, from |-> clock, to |-> c.now + c.ttl, kept |-> TRUE]
             old == AfterGivingUp(grant, gone)
  <1>1. c \in Calls /\ c.key \in Keys /\ c.now + c.ttl \in Nat /\ new \in Grants
    <2>1. c \in Calls
      BY DEF TypeOK, StoreRecords, Store!FirstSeen
    <2>2. c.key \in Keys /\ c.now \in Nat /\ c.ttl = TTL
      BY <2>1 DEF Calls
    <2> QED BY <2>1, <2>2, ConstantsAssumption DEF ConstantsAssumption, Grants, TypeOK
  <1>2. /\ until[c.key] <= clock /\ clock' = clock
        /\ until'[c.key] = c.now + c.ttl
        /\ \A k \in Keys : k # c.key => until'[k] = until[k] \/ until'[k] = 0
    BY <1>1 DEF StoreRecords, Store!FirstSeen, TypeOK
  <1>3. /\ grant' = [old EXCEPT ![g] = new]
        /\ accepted' = {a \in accepted : a.key \notin gone}
        /\ UNCHANGED jobVars
        /\ Store!Answer(g, "first")
    BY DEF StoreRecords, Store!FirstSeen
  <1>4. old \in [Goroutines -> Grants \cup {NoGrant}]
    BY AfterGivingUpType DEF TypeOK
  <1>5. grant'[g] = new /\ \A h \in Goroutines : h # g => grant'[h] = old[h]
    <2> HIDE DEF old, new
    <2> QED BY <1>3, <1>4
  <1>6. ASSUME NEW h \in Goroutines, h # g, Holds(h)'
        PROVE  Holds(h) /\ grant'[h] = grant[h] /\ grant[h].key \notin gone /\ grant[h] \in Grants
    <2>1. grant'[h] = old[h]
      BY <1>5, <1>6
    <2>2. old[h] # NoGrant /\ old[h].kept
      BY <1>6, <2>1 DEF Holds
    <2>3. CASE grant[h] # NoGrant /\ grant[h].key \in gone
      <3>1. grant[h] \in Grants
        BY <2>3 DEF TypeOK
      <3>2. old[h] = [grant[h] EXCEPT !.kept = FALSE]
        BY <2>3 DEF AfterGivingUp
      <3>3. old[h].kept = FALSE
        BY <3>1, <3>2 DEF Grants
      <3> QED BY <2>2, <3>3
    <2>4. CASE ~ (grant[h] # NoGrant /\ grant[h].key \in gone)
      <3>1. old[h] = grant[h]
        BY <2>4 DEF AfterGivingUp
      <3> QED BY <2>1, <2>2, <2>4, <3>1 DEF Holds, TypeOK
    <2> QED BY <2>3, <2>4
  <1>7. ASSUME NEW a \in Grants, Enforced(a), a.key \notin gone
        PROVE  Enforced(a)' /\ (a.key = c.key => a.to <= clock)
    <2>0. a.key \in Keys /\ a.from \in Nat /\ a.to \in Nat
      BY DEF Grants
    <2>1. CASE a.key = c.key
      BY <2>0, <2>1, <1>2, <1>7 DEF Enforced, TypeOK
    <2>2. CASE a.key # c.key
      <3>1. until'[a.key] = until[a.key]
        BY <2>0, <2>2, <1>2, <1>7
      <3> QED BY <2>2, <3>1, <1>2, <1>7 DEF Enforced
    <2> QED BY <2>1, <2>2
  <1> HIDE DEF gone, old
  <1>9. \A a \in accepted' : a \in accepted /\ a \in Grants /\ a.key \notin gone /\ Enforced(a)
    BY <1>3 DEF GrantsInv, TypeOK
  <1>10. \A a \in accepted' : Enforced(a)'
    BY <1>7, <1>9
  <1>11. ASSUME NEW h \in Goroutines, Holds(h)' PROVE Enforced(grant[h])'
    <2>1. CASE h = g
      <3>1. Enforced(grant[h])' <=> (grant'[h].from <= clock' /\ (grant'[h].to <= clock' \/ grant'[h].to = until'[grant'[h].key]))
        BY DEF Enforced
      <3> QED BY <2>1, <1>5, <1>1, <1>2, <3>1 DEF TypeOK
    <2>2. CASE h # g
      <3>1. grant'[h] = grant[h] /\ grant[h] \in Grants /\ Enforced(grant[h]) /\ grant[h].key \notin gone
        BY <1>6, <1>11, <2>2 DEF GrantsInv
      <3>2. PICK a \in Grants : a = grant[h]
        BY <3>1
      <3>3. Enforced(a)'
        BY <1>7, <3>1, <3>2
      <3> QED BY <3>1, <3>2, <3>3 DEF Enforced
    <2> QED BY <2>1, <2>2
  <1>12. ASSUME NEW h \in Goroutines, h # g, Holds(h)', grant'[h].key = c.key
         PROVE  grant'[h].to <= clock
    <2>1. grant'[h] = grant[h] /\ grant[h] \in Grants /\ Enforced(grant[h]) /\ grant[h].key \notin gone
      BY <1>6, <1>12 DEF GrantsInv
    <2>2. PICK a \in Grants : a = grant[h]
      BY <2>1
    <2> QED BY <1>7, <1>12, <2>1, <2>2
  <1>13. ASSUME NEW h \in Goroutines, NEW i \in Goroutines, h # i, Holds(h)', Holds(i)',
                grant'[h].key = grant'[i].key
         PROVE  Disjoint(grant'[h], grant'[i])
    <2>1. CASE h = g
      BY <1>5, <1>12, <1>13, <2>1 DEF Disjoint
    <2>2. CASE i = g
      BY <1>5, <1>12, <1>13, <2>2 DEF Disjoint
    <2>3. CASE h # g /\ i # g
      BY <1>6, <1>13, <2>3 DEF GrantsInv
    <2> QED BY <2>1, <2>2, <2>3
  <1>14. ASSUME NEW h \in Goroutines, NEW a \in accepted', Holds(h)', a.key = grant'[h].key
         PROVE  Disjoint(a, grant'[h])
    <2>1. CASE h = g
      BY <1>5, <1>7, <1>9, <1>14, <2>1 DEF Disjoint
    <2>2. CASE h # g
      BY <1>6, <1>9, <1>14, <2>2 DEF GrantsInv
    <2> QED BY <2>1, <2>2
  <1>15. ASSUME NEW h \in Goroutines, job'[h] # NoJob, job'[h].at = "store", reply'[h] = "first"
         PROVE  grant'[h] # NoGrant
    <2>1. CASE h = g
      BY <2>1, <1>1, <1>5, NoneAssumption DEF NoneAssumption
    <2>2. CASE h # g
      <3>1. grant[h] # NoGrant
        BY <1>3, <1>15, <2>2 DEF GrantsInv, jobVars, Store!Answer, TypeOK
      <3>2. grant[h] \in Grants
        BY <3>1 DEF TypeOK
      <3>3. old[h] \in Grants
        BY <3>1, <3>2 DEF old, AfterGivingUp, Grants
      <3> QED BY <2>2, <1>5, <3>3, NoneAssumption DEF NoneAssumption
    <2> QED BY <2>1, <2>2
  <1> HIDE DEF new, c
  <1> QED BY <1>10, <1>11, <1>13, <1>14, <1>15 DEF GrantsInv

(* Every step keeps the promises disjoint. *)
LEMMA NextGrantsInv == TypeOK /\ GrantsInv /\ [Next]_vars => GrantsInv'
  <1> SUFFICES ASSUME TypeOK, GrantsInv, [Next]_vars PROVE GrantsInv'
    OBVIOUS
  <1>1. CASE Tick
    <2>1. clock' = clock + 1 /\ UNCHANGED <<until, reply, job, grant, accepted>>
      BY <1>1 DEF Tick, Store!Tick, jobVars
    <2>2. ASSUME NEW a \in Grants, Enforced(a) PROVE Enforced(a)'
      BY <2>1, <2>2 DEF Enforced, TypeOK, Grants
    <2>3. \A a \in accepted' : Enforced(a)'
      BY <2>1, <2>2 DEF GrantsInv, TypeOK
    <2>4. ASSUME NEW g \in Goroutines, Holds(g)' PROVE Enforced(grant[g])'
      <3>1. grant[g] \in Grants /\ Enforced(grant[g])
        BY <2>1, <2>4 DEF GrantsInv, Holds, TypeOK
      <3>2. PICK a \in Grants : a = grant[g]
        BY <3>1
      <3> QED BY <2>1, <2>2, <3>1, <3>2 DEF Enforced
    <2> QED BY <2>1, <2>3, <2>4 DEF GrantsInv, Holds
  <1>2. ASSUME NEW g \in Goroutines, NEW v \in Verifiers, NEW k \in Keys, NEW match \in BOOLEAN,
               PassGate(g, v, k, match)
        PROVE  GrantsInv'
    BY <1>2 DEF PassGate, GrantsInv, Holds, Enforced, Disjoint, storeVars, TypeOK
  <1>3. ASSUME NEW g \in Goroutines, NEW v \in Verifiers, RefuseAtGate(g, v)
        PROVE  GrantsInv'
    BY <1>3 DEF RefuseAtGate, GrantsInv, Holds, Enforced, Disjoint, storeVars
  <1>4. ASSUME NEW g \in Goroutines, Mismatch(g)
        PROVE  GrantsInv'
    BY <1>4, FinishKeepsGrants DEF Mismatch, CountFailure
  <1>5. ASSUME NEW g \in Goroutines, CallStore(g)
        PROVE  GrantsInv'
    <2>1. /\ UNCHANGED <<clock, until, grant, accepted>>
          /\ reply' = [reply EXCEPT ![g] = "none"]
          /\ \A h \in Goroutines : h # g => job'[h] = job[h]
      BY <1>5 DEF CallStore, Store!Begin, TypeOK
    <2> QED BY <2>1 DEF GrantsInv, Holds, Enforced, Disjoint, TypeOK
  <1>6. ASSUME NEW g \in Goroutines, StoreRecords(g)
        PROVE  GrantsInv'
    BY <1>6, RecordKeepsGrants
  <1>7. ASSUME NEW g \in Goroutines, StoreRejects(g) \/ StoreFails(g) \/ ReplyLost(g)
        PROVE  GrantsInv'
    <2>1. /\ UNCHANGED <<clock, until, grant, accepted, job>>
          /\ \A h \in Goroutines : reply'[h] = "first" => reply[h] = "first"
      BY <1>7 DEF StoreRejects, StoreFails, ReplyLost, Store!Replay, Store!Answer, jobVars, TypeOK
    <2> QED BY <2>1 DEF GrantsInv, Holds, Enforced, Disjoint
  <1>8. ASSUME NEW g \in Goroutines, SettleFailure(g)
        PROVE  GrantsInv'
    BY <1>8, FinishKeepsGrants DEF SettleFailure, CountFailure
  <1>9. ASSUME NEW g \in Goroutines, SettleSuccess(g)
        PROVE  GrantsInv'
    <2>1. \A h \in Goroutines : h # g => grant'[h] = grant[h] /\ job'[h] = job[h]
      BY <1>9 DEF SettleSuccess, Finish, TypeOK
    <2>2. grant'[g] = NoGrant /\ job'[g] = NoJob /\ UNCHANGED <<clock, until, reply>>
      BY <1>9 DEF SettleSuccess, Finish, TypeOK, storeVars
    <2>3. \A a \in accepted' : a \in accepted \/ (a = grant[g] /\ Holds(g))
      BY <1>9 DEF SettleSuccess, Holds
    <2>4. \A a \in accepted' : Enforced(a)'
      BY <2>2, <2>3 DEF GrantsInv, Enforced
    <2>5. \A h \in Goroutines : Holds(h)' => h # g /\ Holds(h) /\ grant'[h] = grant[h]
      BY <2>1, <2>2 DEF Holds
    <2>6. \A h \in Goroutines : Holds(h)' => Enforced(grant[h])'
      BY <2>2, <2>5 DEF GrantsInv, Enforced
    <2>7. \A h, i \in Goroutines : h # i /\ Holds(h)' /\ Holds(i)' /\ grant'[h].key = grant'[i].key
             => Disjoint(grant'[h], grant'[i])
      BY <2>5 DEF GrantsInv
    <2>8. \A h \in Goroutines, a \in accepted' : Holds(h)' /\ a.key = grant'[h].key
             => Disjoint(a, grant'[h])
      BY <2>3, <2>5 DEF GrantsInv
    <2>9. \A h \in Goroutines : job'[h] # NoJob /\ job'[h].at = "store" /\ reply'[h] = "first"
             => grant'[h] # NoGrant
      BY <2>1, <2>2 DEF GrantsInv
    <2> QED BY <2>4, <2>6, <2>7, <2>8, <2>9 DEF GrantsInv
  <1>10. ASSUME NEW v \in Verifiers, ResetAttempts(v)
         PROVE  GrantsInv'
    BY <1>10 DEF ResetAttempts, GrantsInv, Holds, Enforced, Disjoint, storeVars
  <1>11. CASE ClearUsedCodes
    <2>1. accepted' = {} /\ UNCHANGED <<job, reply>>
      BY <1>11 DEF ClearUsedCodes, jobVars, Store!Reset
    <2>2. \A g \in Goroutines : grant[g] # NoGrant =>
             grant'[g] = [grant[g] EXCEPT !.kept = FALSE] /\ grant[g] \in Grants
      BY <1>11 DEF ClearUsedCodes, AfterGivingUp, TypeOK, Grants
    <2>3. \A g \in Goroutines : grant[g] = NoGrant => grant'[g] = NoGrant
      BY <1>11 DEF ClearUsedCodes, AfterGivingUp
    <2>4. \A g \in Goroutines : ~ Holds(g)'
      BY <2>2, <2>3 DEF Holds, Grants
    <2>5. \A g \in Goroutines : grant[g] # NoGrant => grant'[g] # NoGrant
      <3>1. \A x \in Grants : [x EXCEPT !.kept = FALSE] \in Grants
        BY DEF Grants
      <3> QED BY <2>2, <3>1, NoneAssumption DEF NoneAssumption
    <2> QED BY <2>1, <2>4, <2>5 DEF GrantsInv
  <1>12. CASE UNCHANGED vars
    BY <1>12 DEF vars, storeVars, jobVars, GrantsInv, Holds, Enforced, Disjoint
  <1> QED BY <1>1, <1>2, <1>3, <1>4, <1>5, <1>6, <1>7, <1>8, <1>9, <1>10, <1>11, <1>12 DEF Next, Proceed

(* Only the last step of verifyInner returns true, and only to the holder   *)
(* of a promise.                                                            *)
LEMMA TrueOnlyOnSuccess ==
    ASSUME TypeOK, Next, NEW g \in Goroutines, returned[g] # "true", returned'[g] = "true"
    PROVE  SettleSuccess(g)
  <1>1. ASSUME NEW h \in Goroutines, NEW r, Finish(h, r) PROVE h = g /\ r = "true"
    BY <1>1 DEF Finish, TypeOK
  <1>2. ASSUME NEW h \in Goroutines, CountFailure(h) PROVE FALSE
    BY <1>1, <1>2 DEF CountFailure
  <1>3. ASSUME NEW h \in Goroutines, SettleSuccess(h) PROVE SettleSuccess(g)
    BY <1>1, <1>3 DEF SettleSuccess
  <1>4. ASSUME NEW h \in Goroutines, NEW v \in Verifiers, RefuseAtGate(h, v) PROVE FALSE
    BY <1>4 DEF RefuseAtGate, TypeOK
  <1>5. ASSUME NEW h \in Goroutines, NEW v \in Verifiers, NEW k \in Keys, NEW match \in BOOLEAN,
               PassGate(h, v, k, match)
        PROVE  FALSE
    BY <1>5 DEF PassGate, TypeOK
  <1> QED BY <1>2, <1>3, <1>4, <1>5 DEF Next, Proceed, Tick, Mismatch, CallStore, StoreRecords,
             StoreRejects, StoreFails, ReplyLost, SettleFailure, ResetAttempts,
             ClearUsedCodes, jobVars

(* While a promise runs, its key is accepted once: for any number of        *)
(* replicas and callers on a store that keeps ReplayRegister's promise, with *)
(* store errors, lost replies, stalled calls and a store that drops keys.   *)
THEOREM AcceptedAtMostOnce == Spec => AcceptedOnce
  <1> DEFINE Once(g) == (returned[g] # "true" /\ returned'[g] = "true") =>
                           /\ grant[g] # NoGrant
                           /\ grant[g].kept => \A a \in accepted :
                                 a.key = grant[g].key => Disjoint(a, grant[g])
  <1>1. Init => GrantsInv
    BY DEF Init, GrantsInv, Holds
  <1>2. TypeOK /\ GrantsInv /\ [Next]_vars => [\A g \in Goroutines : Once(g)]_vars
    <2> SUFFICES ASSUME TypeOK, GrantsInv, Next, NEW g \in Goroutines,
                        returned[g] # "true", returned'[g] = "true"
                 PROVE  /\ grant[g] # NoGrant
                        /\ grant[g].kept => \A a \in accepted :
                              a.key = grant[g].key => Disjoint(a, grant[g])
      OBVIOUS
    <2>1. SettleSuccess(g)
      BY TrueOnlyOnSuccess
    <2> QED BY <2>1 DEF SettleSuccess, Answered, GrantsInv, Holds
  <1> QED BY <1>1, <1>2, NextGrantsInv, TypeCorrect, PTL DEF Spec, AcceptedOnce

-----------------------------------------------------------------------------
(* TotpReplay: a TOTP code is accepted once, for any period, window, delay, *)
(* number of replicas and callers.                                          *)

(* The times between which code k is right. *)
Opens(k) == (k - Window) * Period
Closes(k) == (k + Window + 1) * Period

(* A code is right from its opening to its closing time only. *)
LEMMA ExpectedWhileOpen ==
    ASSUME NEW t \in Nat, NEW k \in Expected(t)
    PROVE  /\ Opens(k) \in Int /\ Closes(k) \in Int
           /\ Opens(k) <= t /\ t < Closes(k)
  <1>1. PICK q \in Int : q = t \div Period
    BY TotpAssumption DEF TotpAssumption
  <1>2. /\ k \in Nat /\ Window \in Nat /\ Period \in Nat /\ Period > 0
        /\ k - Window <= q /\ q <= k + Window
    BY <1>1, TotpAssumption DEF TotpAssumption, Expected
  <1>3. q * Period <= t /\ t < (q + 1) * Period
    BY <1>1, <1>2
  <1>4. \A a, b \in Int : a <= b => a * Period <= b * Period
    BY <1>2
  <1>5. (k - Window) * Period <= q * Period /\ (q + 1) * Period <= (k + Window + 1) * Period
    BY <1>2, <1>4
  <1>6. /\ (k - Window) * Period \in Int /\ (k + Window + 1) * Period \in Int
        /\ q * Period \in Int /\ (q + 1) * Period \in Int
    BY <1>2
  <1> QED BY <1>3, <1>5, <1>6 DEF Opens, Closes

(* The store's promise outlives every call that found the code right. *)
LEMMA PromiseOutlivesCode ==
    ASSUME NEW k \in Keys
    PROVE  /\ Opens(k) \in Int /\ Closes(k) \in Int
           /\ Closes(k) + MaxDelay <= Opens(k) + TTL
  <1>1. k \in Nat /\ Window \in Nat /\ Period \in Nat /\ MaxDelay \in Nat /\ TTL \in Nat
        /\ TTL >= (2 * Window + 1) * Period + MaxDelay
    BY TotpAssumption, ConstantsAssumption DEF TotpAssumption, ConstantsAssumption
  <1>2. Closes(k) = Opens(k) + (2 * Window + 1) * Period
    BY <1>1 DEF Opens, Closes
  <1>3. Opens(k) \in Int /\ Closes(k) \in Int /\ (2 * Window + 1) * Period \in Int
    BY <1>1 DEF Opens, Closes
  <1> QED BY <1>1, <1>2, <1>3

-----------------------------------------------------------------------------
(* When promises are made. *)

(* Promise a was made while its code was right, or at most MaxDelay later. *)
WithinLife(a) == a.from < Closes(a.key) + MaxDelay /\ Opens(a.key) + TTL <= a.to

(* A call that the store has not decided on found its code right, not long  *)
(* ago; the store's own reading of the clock came after that; and so every  *)
(* promise lies within the life of its code.                                *)
OnTime(g) ==
    /\ Undecided(g) => /\ job[g].key \in Expected(readAt[g])
                       /\ readAt[g] <= clock /\ clock <= readAt[g] + MaxDelay
    /\ call[g] # NoCall => /\ Undecided(g) /\ job[g].at = "store"
                           /\ call[g].key = job[g].key /\ readAt[g] <= call[g].now
    /\ Holds(g) => WithinLife(grant[g])

OnTimeInv ==
    /\ readAt \in [Goroutines -> Nat]
    /\ \A g \in Goroutines : OnTime(g)
    /\ \A a \in accepted : WithinLife(a)

(* The composition is a Verifier: it only restricts when calls are made. *)
LEMMA StepIsVerifierStep == [ReplayNext]_replayVars => [Next]_vars
  BY DEF ReplayNext, TimelyTick, Submit, ReplayProceed, Next, vars, replayVars

(* Everything proved of the Verifier holds here. *)
LEMMA ImplementsVerifier == ReplaySpec => Spec
  <1>1. ReplayInit => Init
    BY DEF ReplayInit
  <1> QED BY <1>1, StepIsVerifierStep, PTL DEF ReplaySpec, Spec

(* A caller that a step does not concern stays on time. *)
LEMMA OthersOnTime ==
    ASSUME NEW h \in Goroutines, OnTime(h), clock' = clock,
           job'[h] = job[h], call'[h] = call[h],
           job[h] # NoJob => readAt'[h] = readAt[h],
           Holds(h)' => Holds(h) /\ grant'[h] = grant[h]
    PROVE  OnTime(h)'
  <1>1. Undecided(h)' <=> Undecided(h)
    BY DEF Undecided
  <1>2. Undecided(h) => readAt'[h] = readAt[h]
    BY DEF Undecided
  <1>3. ASSUME Holds(h)' PROVE WithinLife(grant[h])'
    BY <1>3 DEF OnTime, WithinLife, Opens, Closes
  <1> QED BY <1>1, <1>2, <1>3 DEF OnTime, Expected

(* Giving up promises leaves those that still count as they were. *)
LEMMA GivingUpKeeps ==
    ASSUME TypeOK, NEW S, NEW h \in Goroutines, grant'[h] = AfterGivingUp(grant, S)[h], Holds(h)'
    PROVE  Holds(h) /\ grant'[h] = grant[h]
  <1>1. CASE grant[h] # NoGrant /\ grant[h].key \in S
    <2>1. grant[h] \in Grants /\ grant'[h] = [grant[h] EXCEPT !.kept = FALSE]
      BY <1>1 DEF AfterGivingUp, TypeOK
    <2>2. grant'[h].kept = FALSE
      BY <2>1 DEF Grants
    <2> QED BY <2>2 DEF Holds
  <1>2. CASE ~ (grant[h] # NoGrant /\ grant[h].key \in S)
    BY <1>2 DEF AfterGivingUp, Holds
  <1> QED BY <1>1, <1>2

(* A step of verifyInner or of the store keeps every call on time. *)
LEMMA ProceedOnTime ==
    ASSUME TypeOK, OnTimeInv, ReplayProceed
    PROVE  OnTimeInv'
  <1>a. readAt' \in [Goroutines -> Nat]
    BY DEF ReplayProceed, OnTimeInv
  <1>b. ASSUME NEW h \in Goroutines, job'[h] # NoJob PROVE readAt'[h] = readAt[h]
    BY <1>b DEF ReplayProceed
  <1>c. ASSUME NEW h \in Goroutines, clock' = clock, job'[h] = job[h], call'[h] = call[h],
               Holds(h)' => Holds(h) /\ grant'[h] = grant[h]
        PROVE  OnTime(h)'
    BY <1>b, <1>c, OthersOnTime DEF OnTimeInv
  <1>d. ASSUME NEW h \in Goroutines, job'[h] = NoJob, call'[h] = NoCall, grant'[h] = NoGrant
        PROVE  OnTime(h)'
    BY <1>d DEF OnTime, Undecided, Holds
  <1>e. \A a \in accepted : WithinLife(a)' <=> WithinLife(a)
    BY DEF WithinLife, Opens, Closes
  <1>1. ASSUME UNCHANGED <<storeVars, job, grant, accepted>> PROVE OnTimeInv'
    <2>1. \A h \in Goroutines : OnTime(h)'
      BY <1>1, <1>c DEF storeVars, Holds
    <2> QED BY <1>1, <1>a, <1>e, <2>1 DEF OnTimeInv
  <1>2. ASSUME NEW g \in Goroutines, NEW r, Finish(g, r), UNCHANGED storeVars, call[g] = NoCall,
               \A a \in accepted' : a \in accepted \/ (Holds(g) /\ a = grant[g])
        PROVE  OnTimeInv'
    <2>1. job'[g] = NoJob /\ grant'[g] = NoGrant /\ call'[g] = NoCall /\ clock' = clock
      BY <1>2 DEF Finish, TypeOK, storeVars
    <2>2. ASSUME NEW h \in Goroutines, h # g
          PROVE  job'[h] = job[h] /\ grant'[h] = grant[h] /\ call'[h] = call[h]
      BY <1>2, <2>2 DEF Finish, TypeOK, storeVars
    <2>3. \A h \in Goroutines : OnTime(h)'
      BY <2>1, <2>2, <1>c, <1>d DEF Holds
    <2>4. \A a \in accepted' : WithinLife(a)'
      BY <1>2 DEF OnTimeInv, OnTime, WithinLife, Opens, Closes
    <2> QED BY <1>a, <2>3, <2>4 DEF OnTimeInv
  <1>3. ASSUME NEW g \in Goroutines, Mismatch(g) PROVE OnTimeInv'
    <2>1. call[g] = NoCall
      BY <1>3 DEF Mismatch, OnTimeInv, OnTime
    <2> QED BY <1>2, <1>3, <2>1 DEF Mismatch, CountFailure
  <1>4. ASSUME NEW g \in Goroutines, SettleFailure(g) PROVE OnTimeInv'
    BY <1>2, <1>4 DEF SettleFailure, CountFailure, Answered
  <1>5. ASSUME NEW g \in Goroutines, SettleSuccess(g) PROVE OnTimeInv'
    <2>1. \A a \in accepted' : a \in accepted \/ (Holds(g) /\ a = grant[g])
      BY <1>5 DEF SettleSuccess, Holds
    <2> QED BY <1>2, <1>5, <2>1 DEF SettleSuccess, Answered
  <1>6. ASSUME NEW g \in Goroutines, CallStore(g) PROVE OnTimeInv'
    <2>1. job[g] \in Jobs /\ job[g].at = "compare" /\ job[g].match /\ Undecided(g)
      BY <1>6 DEF CallStore, TypeOK, Undecided
    <2>2. /\ job'[g] = [job[g] EXCEPT !.at = "store"]
          /\ call'[g] = [key |-> job[g].key, now |-> clock, ttl |-> TTL]
          /\ UNCHANGED <<clock, grant, accepted>>
          /\ \A h \in Goroutines : h # g => job'[h] = job[h] /\ call'[h] = call[h]
      BY <1>6 DEF CallStore, Store!Begin, TypeOK
    <2>3. /\ job'[g] \in Jobs /\ job'[g] # NoJob /\ job'[g].match /\ job'[g].at = "store"
          /\ job'[g].key = job[g].key /\ call'[g] \in Calls /\ call'[g] # NoCall
      BY <2>1, <2>2, NoneAssumption DEF NoneAssumption, Jobs, Calls, TypeOK,
         ConstantsAssumption
    <2>4. Undecided(g)' /\ readAt'[g] = readAt[g]
      BY <2>3, <1>b DEF Undecided
    <2>5. OnTime(g)
      BY DEF OnTimeInv
    <2>6. OnTime(g)'
      <3>1. /\ job'[g].key \in Expected(readAt'[g])
            /\ readAt'[g] <= clock' /\ clock' <= readAt'[g] + MaxDelay
        BY <2>1, <2>2, <2>3, <2>4, <2>5 DEF OnTime
      <3>2. call'[g].key = job'[g].key /\ readAt'[g] <= call'[g].now
        BY <3>1, <2>2, <2>3
      <3>3. Holds(g)' => WithinLife(grant[g])'
        BY <2>2, <2>5 DEF OnTime, Holds, WithinLife, Opens, Closes
      <3> QED BY <2>3, <2>4, <3>1, <3>2, <3>3 DEF OnTime, Expected
    <2>7. \A h \in Goroutines : OnTime(h)'
      BY <2>2, <2>6, <1>c DEF Holds
    <2> QED BY <1>a, <1>e, <2>2, <2>7 DEF OnTimeInv
  <1>7. ASSUME NEW g \in Goroutines, StoreRejects(g) \/ StoreFails(g) \/ ReplyLost(g)
        PROVE  OnTimeInv'
    <2>1. /\ UNCHANGED <<clock, job, grant, accepted>>
          /\ \A h \in Goroutines : call'[h] = call[h] \/ call'[h] = NoCall
      BY <1>7 DEF StoreRejects, StoreFails, ReplyLost, Store!Replay, Store!Answer, jobVars, TypeOK
    <2>2. ASSUME NEW h \in Goroutines, call'[h] = NoCall PROVE OnTime(h)'
      <3>1. Undecided(h)' => Undecided(h) /\ readAt'[h] = readAt[h]
        BY <2>1, <2>2, <1>b DEF Undecided
      <3>2. Holds(h)' => WithinLife(grant[h])'
        BY <2>1 DEF OnTimeInv, OnTime, Holds, WithinLife, Opens, Closes
      <3> QED BY <2>1, <2>2, <3>1, <3>2 DEF OnTimeInv, OnTime, Expected
    <2>3. \A h \in Goroutines : OnTime(h)'
      BY <2>1, <2>2, <1>c DEF Holds
    <2> QED BY <1>a, <1>e, <2>1, <2>3 DEF OnTimeInv
  <1>8. ASSUME NEW g \in Goroutines, StoreRecords(g) PROVE OnTimeInv'
    <2> DEFINE c == call[g]
               gone == {k \in Keys : until[k] # 0 /\ until'[k] = 0}
               new == [key |-> c.key, from |-> clock, to |-> c.now + c.ttl, kept |-> TRUE]
    <2>1. c \in Calls /\ c # NoCall /\ c.key \in Keys /\ c.now \in Nat /\ c.ttl = TTL
      BY <1>8 DEF TypeOK, StoreRecords, Store!FirstSeen, Calls
    <2>2. /\ grant' = [AfterGivingUp(grant, gone) EXCEPT ![g] = new]
          /\ accepted' = {a \in accepted : a.key \notin gone}
          /\ UNCHANGED <<clock, job>> /\ Store!Answer(g, "first")
      BY <1>8 DEF StoreRecords, Store!FirstSeen, jobVars
    <2>3. /\ Undecided(g) /\ job[g].at = "store" /\ c.key = job[g].key /\ readAt[g] <= c.now
          /\ c.key \in Expected(readAt[g]) /\ clock <= readAt[g] + MaxDelay
          /\ readAt[g] \in Nat
      BY <2>1 DEF OnTimeInv, OnTime
    <2>4. WithinLife(new)
      <3>1. /\ Opens(c.key) \in Int /\ Closes(c.key) \in Int
            /\ Opens(c.key) <= readAt[g] /\ readAt[g] < Closes(c.key)
        BY <2>3, ExpectedWhileOpen
      <3>2. clock \in Nat /\ MaxDelay \in Nat /\ TTL \in Nat
        BY TotpAssumption, ConstantsAssumption DEF TotpAssumption, ConstantsAssumption, TypeOK
      <3>3. clock < Closes(c.key) + MaxDelay /\ Opens(c.key) + TTL <= c.now + c.ttl
        BY <2>1, <2>3, <3>1, <3>2
      <3> QED BY <3>3 DEF WithinLife
    <2>5. AfterGivingUp(grant, gone) \in [Goroutines -> Grants \cup {NoGrant}]
      BY AfterGivingUpType DEF TypeOK
    <2>6. /\ grant'[g] = new /\ call'[g] = NoCall
          /\ \A h \in Goroutines : h # g => /\ grant'[h] = AfterGivingUp(grant, gone)[h]
                                           /\ call'[h] = call[h]
      <3> HIDE DEF new, gone
      <3> QED BY <2>2, <2>5 DEF Store!Answer, TypeOK
    <2>7. OnTime(g)'
      <3>1. ~ Undecided(g)'
        BY <2>2, <2>3, <2>6 DEF Undecided
      <3>2. WithinLife(grant[g])'
        BY <2>4, <2>6 DEF WithinLife, Opens, Closes
      <3> QED BY <2>6, <3>1, <3>2 DEF OnTime
    <2>8. ASSUME NEW h \in Goroutines, h # g PROVE OnTime(h)'
      <3>1. Holds(h)' => Holds(h) /\ grant'[h] = grant[h]
        BY <2>6, <2>8, GivingUpKeeps
      <3> QED BY <2>2, <2>6, <2>8, <3>1, <1>c
    <2>9. \A a \in accepted' : WithinLife(a)'
      BY <2>2, <1>e DEF OnTimeInv
    <2> QED BY <1>a, <2>7, <2>8, <2>9 DEF OnTimeInv
  <1>9. CASE ClearUsedCodes
    <2>1. UNCHANGED <<clock, job, call>> /\ grant' = AfterGivingUp(grant, Keys) /\ accepted' = {}
      BY <1>9 DEF ClearUsedCodes, Store!Reset, jobVars
    <2>2. \A h \in Goroutines : Holds(h)' => Holds(h) /\ grant'[h] = grant[h]
      BY <2>1, GivingUpKeeps
    <2>3. \A h \in Goroutines : OnTime(h)'
      BY <2>1, <2>2, <1>c
    <2> QED BY <1>a, <2>1, <2>3 DEF OnTimeInv
  <1>10. ASSUME NEW g \in Goroutines, NEW v \in Verifiers, RefuseAtGate(g, v) PROVE OnTimeInv'
    BY <1>1, <1>10 DEF RefuseAtGate
  <1>11. ASSUME NEW v \in Verifiers, ResetAttempts(v) PROVE OnTimeInv'
    BY <1>1, <1>11 DEF ResetAttempts
  <1> QED BY <1>3, <1>4, <1>5, <1>6, <1>7, <1>8, <1>9, <1>10, <1>11 DEF ReplayProceed, Proceed

(* Every step keeps every call on time. *)
LEMMA NextOnTime == TypeOK /\ OnTimeInv /\ [ReplayNext]_replayVars => OnTimeInv'
  <1> SUFFICES ASSUME TypeOK, OnTimeInv, [ReplayNext]_replayVars PROVE OnTimeInv'
    OBVIOUS
  <1>1. CASE TimelyTick
    <2>1. clock' = clock + 1 /\ UNCHANGED <<call, job, grant, accepted, readAt>>
      BY <1>1 DEF TimelyTick, Tick, Store!Tick, jobVars
    <2>2. ASSUME NEW h \in Goroutines PROVE OnTime(h)'
      <3>1. Undecided(h)' <=> Undecided(h)
        BY <2>1 DEF Undecided
      <3>2. Undecided(h) => readAt[h] <= clock + 1 /\ clock + 1 <= readAt[h] + MaxDelay
        BY <1>1, TotpAssumption DEF TimelyTick, TotpAssumption, OnTimeInv, OnTime, TypeOK
      <3>3. Holds(h)' => WithinLife(grant[h])'
        BY <2>1 DEF OnTimeInv, OnTime, Holds, WithinLife, Opens, Closes
      <3> QED BY <2>1, <3>1, <3>2, <3>3 DEF OnTimeInv, OnTime, Expected
    <2> QED BY <2>1, <2>2 DEF OnTimeInv, WithinLife, Opens, Closes
  <1>2. ASSUME NEW g \in Goroutines, NEW v \in Verifiers, NEW k \in Keys, NEW match \in BOOLEAN,
               Submit(g, v, k, match)
        PROVE  OnTimeInv'
    <2> DEFINE new == [at |-> "compare", verifier |-> v, key |-> k, match |-> match]
    <2>1. /\ job[g] = NoJob /\ job'[g] = new
          /\ UNCHANGED <<clock, call, grant, accepted>>
          /\ \A h \in Goroutines : h # g => job'[h] = job[h]
      BY <1>2 DEF Submit, PassGate, storeVars, TypeOK
    <2>2. /\ readAt' \in [Goroutines -> Nat]
          /\ \A h \in Goroutines : h # g => readAt'[h] = readAt[h]
          /\ match => /\ k \in Expected(readAt'[g])
                      /\ readAt'[g] <= clock /\ clock <= readAt'[g] + MaxDelay
      BY <1>2 DEF Submit, OnTimeInv, TypeOK
    <2>3. ASSUME NEW h \in Goroutines, h # g PROVE OnTime(h)'
      BY <2>1, <2>2, <2>3, OthersOnTime DEF OnTimeInv, Holds
    <2>4. OnTime(g)'
      <3>1. call'[g] = NoCall
        BY <2>1 DEF OnTimeInv, OnTime, Undecided
      <3>2. Holds(g)' => WithinLife(grant[g])'
        BY <2>1 DEF OnTimeInv, OnTime, Holds, WithinLife, Opens, Closes
      <3> QED BY <2>1, <2>2, <3>1, <3>2 DEF OnTime, Undecided, Expected
    <2> QED BY <2>1, <2>2, <2>3, <2>4 DEF OnTimeInv, WithinLife, Opens, Closes
  <1>3. CASE ReplayProceed
    BY <1>3, ProceedOnTime
  <1>4. CASE UNCHANGED replayVars
    BY <1>4 DEF replayVars, vars, storeVars, jobVars, OnTimeInv, OnTime, Undecided, Holds,
       WithinLife, Opens, Closes, Expected
  <1> QED BY <1>1, <1>2, <1>3, <1>4 DEF ReplayNext

(* Two promises within the life of one code are never disjoint. *)
LEMMA NotDisjoint ==
    ASSUME NEW a \in Grants, NEW b \in Grants, a.key = b.key, WithinLife(a), WithinLife(b)
    PROVE  ~ Disjoint(a, b)
  <1>1. a.key \in Keys /\ a.from \in Nat /\ a.to \in Nat /\ b.from \in Nat /\ b.to \in Nat
    BY DEF Grants
  <1>2. /\ Opens(a.key) \in Int /\ Closes(a.key) \in Int
        /\ Closes(a.key) + MaxDelay <= Opens(a.key) + TTL
        /\ MaxDelay \in Nat /\ TTL \in Nat
    BY <1>1, PromiseOutlivesCode, TotpAssumption, ConstantsAssumption
       DEF TotpAssumption, ConstantsAssumption
  <1>3. /\ a.from < Closes(a.key) + MaxDelay /\ Opens(a.key) + TTL <= a.to
        /\ b.from < Closes(a.key) + MaxDelay /\ Opens(a.key) + TTL <= b.to
    BY DEF WithinLife
  <1> QED BY <1>1, <1>2, <1>3 DEF Disjoint

(* A TOTP code is accepted once, on all replicas together, for any period,  *)
(* window and delay for which the TTL leaves room: verifier.go's promise of *)
(* one use, on top of totp.go's window of time.                             *)
THEOREM AcceptedOncePerCodeHolds == ReplaySpec => AcceptedOncePerCode
  <1> DEFINE Once(g) ==
        (returned[g] # "true" /\ returned'[g] = "true" /\ grant[g] # NoGrant /\ grant[g].kept) =>
            \A a \in accepted : a.key # grant[g].key
  <1>1. ReplayInit => OnTimeInv
    BY DEF ReplayInit, Init, Store!Init, OnTimeInv, OnTime, Undecided, Holds
  <1>2. Init => GrantsInv
    BY DEF Init, GrantsInv, Holds
  <1>3. TypeOK /\ GrantsInv /\ OnTimeInv => [\A g \in Goroutines : Once(g)]_replayVars
    <2> SUFFICES ASSUME TypeOK, GrantsInv, OnTimeInv, NEW g \in Goroutines,
                        grant[g] # NoGrant, grant[g].kept,
                        NEW a \in accepted, a.key = grant[g].key
                 PROVE  FALSE
      OBVIOUS
    <2>1. a \in Grants /\ grant[g] \in Grants
      BY DEF TypeOK
    <2>2. WithinLife(a) /\ WithinLife(grant[g])
      BY DEF OnTimeInv, OnTime, Holds
    <2>3. Disjoint(a, grant[g])
      BY DEF GrantsInv, Holds
    <2> QED BY <2>1, <2>2, <2>3, NotDisjoint
  <1>4. Spec => [](TypeOK /\ GrantsInv)
    BY <1>2, TypeCorrect, NextGrantsInv, PTL DEF Spec
  <1> QED BY <1>1, <1>3, <1>4, NextOnTime, ImplementsVerifier, PTL
           DEF ReplaySpec, AcceptedOncePerCode

=============================================================================
