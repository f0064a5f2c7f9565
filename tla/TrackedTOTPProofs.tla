-------------------------- MODULE TrackedTOTPProofs --------------------------
(***************************************************************************)
(* Proofs about TrackedTOTP: the loop between VerifyTracking and the       *)
(* detector, for any window, any clock error and any number of goroutines. *)
(* P is the detector with what is proved about it.                         *)
(***************************************************************************)
EXTENDS TrackedTOTP, FiniteSetTheorems, TLAPS

P == INSTANCE ClockSkewDetectorProofs WITH Samples <- -Window .. Window, Windows <- {Window}

(* The detector's assumptions hold for the window's offsets. *)
LEMMA DetectorAssumptions == P!ConstantsAssumption
  <1>1. Window \in Nat /\ -Window \in Int
    BY TrackedAssumption DEF TrackedAssumption
  <1>2. IsFiniteSet(-Window .. Window)
    BY <1>1, FS_Interval
  <1>3. -Window .. Window \subseteq Int /\ {Window} \subseteq Nat
    BY <1>1
  <1>4. P!IsFiniteSet(-Window .. Window)
    BY <1>2 DEF IsFiniteSet, P!IsFiniteSet
  <1> QED BY <1>3, <1>4, TrackedAssumption DEF P!ConstantsAssumption, TrackedAssumption

(* Detector and P are the same machine: every step of one is the other's. *)
LEMMA SameInit == Detector!Init => P!Init
  BY DEF Detector!Init, P!Init, Detector!EmptyState, P!EmptyState

(* Record, called by VerifyTracking, is the detector's Record. *)
LEMMA SameRecord ==
    ASSUME NEW t \in Threads, NEW m, NEW w, Detector!Record(t, m, w)
    PROVE  P!Record(t, m, w)
  BY DEF Detector!Record, P!Record, Detector!Push, P!Push, Detector!NextIdx, P!NextIdx,
         Detector!NonZero, P!NonZero, Detector!Goto, P!Goto, Detector!atomics, P!atomics,
         Detector!ClampedWindow, P!ClampedWindow

(* The atomic accesses of Record are those of the detector. *)
LEMMA SameUpdate ==
    ASSUME NEW t \in Threads, Detector!RecordSteps(t)
    PROVE  P!RecordSteps(t)
  <1>1. CASE Detector!LoadSmoothed(t)
    BY <1>1 DEF Detector!LoadSmoothed, P!RecordSteps, P!LoadSmoothed, Detector!Goto, P!Goto,
                Detector!atomics, P!atomics
  <1>2. CASE Detector!StoreSmoothed(t)
    <2>1. Detector!NewSmoothedScaled(state, prev[t]) = P!NewSmoothedScaled(state, prev[t])
      BY DEF Detector!NewSmoothedScaled, P!NewSmoothedScaled, Detector!Rounded, P!Rounded,
             Detector!SmoothedNum, P!SmoothedNum, Detector!AbsVal, P!AbsVal
    <2> QED BY <1>2, <2>1 DEF Detector!StoreSmoothed, P!RecordSteps, P!StoreSmoothed,
                              Detector!Goto, P!Goto
  <1>3. CASE Detector!StoreOffset(t)
    <2>1. Detector!NewOffset(state, prev[t]) = P!NewOffset(state, prev[t])
      BY DEF Detector!NewOffset, P!NewOffset, Detector!Rounded, P!Rounded,
             Detector!SmoothedNum, P!SmoothedNum, Detector!AbsVal, P!AbsVal
    <2> QED BY <1>3, <2>1 DEF Detector!StoreOffset, P!RecordSteps, P!StoreOffset,
                              Detector!Goto, P!Goto
  <1> QED BY <1>1, <1>2, <1>3 DEF Detector!RecordSteps

(* The other operations are those of the detector. *)
LEMMA SameOperate ==
    ASSUME NEW t \in Threads,
           \/ Detector!EnableAutoAdjust(t) \/ Detector!DisableAuto(t)
           \/ Detector!DisableSteps(t) \/ Detector!Reset(t)
    PROVE  P!EnableAutoAdjust(t) \/ P!DisableAuto(t) \/ P!DisableSteps(t) \/ P!Reset(t)
  <1>1. CASE Detector!EnableAutoAdjust(t)
    BY <1>1 DEF Detector!EnableAutoAdjust, P!EnableAutoAdjust, Detector!local, P!local
  <1>2. CASE Detector!DisableAuto(t)
    BY <1>2 DEF Detector!DisableAuto, P!DisableAuto, Detector!Goto, P!Goto
  <1>3. CASE Detector!DisableSteps(t)
    BY <1>3 DEF Detector!DisableSteps, P!DisableSteps, Detector!ClearOffset, P!ClearOffset,
                Detector!ClearSmoothed, P!ClearSmoothed, Detector!Goto, P!Goto
  <1>4. CASE Detector!Reset(t)
    BY <1>4 DEF Detector!Reset, P!Reset, Detector!EmptyState, P!EmptyState, Detector!local, P!local
  <1> QED BY <1>1, <1>2, <1>3, <1>4

-----------------------------------------------------------------------------
(* The inductive invariant: the error that is left when a code matches, and *)
(* so every sample and every average, lies between none and the token's.    *)

Lowest == IF drift < 0 THEN drift ELSE 0
Highest == IF drift < 0 THEN 0 ELSE drift

MatchesTyped ==
    /\ drift \in Drifts
    /\ matched \in [Threads -> (-Window .. Window) \cup {NoMatch}]
    /\ verdict \in [Threads -> {"none", "true", "false", "error"}]

MatchesBetween ==
    \A t \in Threads : matched[t] # NoMatch => Lowest <= matched[t] /\ matched[t] <= Highest

TrackedInv ==
    /\ P!DetectorInv
    /\ MatchesTyped
    /\ MatchesBetween
    /\ P!Between(Lowest, Highest)
    /\ NeverRejected

(* The corrected counter is never out of range, and the code is found at    *)
(* the error that is left.                                                  *)
LEMMA LeftError ==
    ASSUME TrackedInv
    PROVE  /\ drift \in Int /\ offset \in Int
           /\ Lowest \in Int /\ Highest \in Int /\ Lowest <= 0 /\ 0 <= Highest
           /\ Lowest <= drift - offset /\ drift - offset <= Highest
           /\ Matches = {drift - offset} \cap (-Window .. Window)
  <1>1. drift \in Int /\ BaseCounter + drift \in 0 .. MaxCounter /\ drift \in Drifts
    BY TrackedAssumption DEF TrackedInv, MatchesTyped, TrackedAssumption
  <1>2. BaseCounter \in 0 .. MaxCounter /\ MaxCounter \in Nat /\ Window \in Nat
    BY TrackedAssumption DEF TrackedAssumption
  <1>3. offset \in Int
    BY DEF TrackedInv, P!DetectorInv, P!AtomicsTyped
  <1>4. Lowest <= offset /\ offset <= Highest
    BY DEF TrackedInv, P!Between
  <1>5. Lowest \in Int /\ Highest \in Int /\ Lowest <= 0 /\ 0 <= Highest
        /\ Lowest <= drift - offset /\ drift - offset <= Highest
    BY <1>1, <1>3, <1>4 DEF Lowest, Highest
  <1>6. BaseCounter + offset \in 0 .. MaxCounter
    BY <1>1, <1>2, <1>3, <1>4 DEF Lowest, Highest
  <1>7. AdjustedCounter = BaseCounter + offset
    BY <1>6 DEF AdjustedCounter, IsCounter
  <1>8. Matches = {drift - offset} \cap (-Window .. Window)
    BY <1>1, <1>2, <1>3, <1>7 DEF Matches, IsCounter
  <1> QED BY <1>1, <1>3, <1>5, <1>8

(* No call is under way and the detector is new. *)
LEMMA InitTracked == Init => TrackedInv
  <1> SUFFICES ASSUME Init PROVE TrackedInv
    OBVIOUS
  <1>1. P!DetectorInv
    BY DetectorAssumptions, SameInit, P!InitDetector DEF Init
  <1>2. MatchesTyped /\ MatchesBetween /\ NeverRejected
    BY DEF Init, MatchesTyped, MatchesBetween, NeverRejected
  <1>3. Lowest \in Int /\ Highest \in Int /\ Lowest <= 0 /\ 0 <= Highest
    BY TrackedAssumption DEF Init, Lowest, Highest, TrackedAssumption
  <1>4. P!Between(Lowest, Highest)
    BY <1>3, DetectorAssumptions, SameInit, P!InitBetween DEF Init
  <1> QED BY <1>1, <1>2, <1>4 DEF TrackedInv

(* The detector's part of the invariant, over its own steps. *)
LEMMA DetectorStep ==
    ASSUME TrackedInv, NEW t \in Threads, UNCHANGED drift,
           \/ Detector!RecordSteps(t)
           \/ Detector!EnableAutoAdjust(t) \/ Detector!DisableAuto(t)
           \/ Detector!DisableSteps(t) \/ Detector!Reset(t)
    PROVE  P!DetectorInv' /\ P!Between(Lowest, Highest)'
  <1>1. PICK lo \in Int, hi \in Int : lo = Lowest /\ hi = Highest /\ lo <= 0 /\ 0 <= hi
    BY LeftError
  <1>2. P!DetectorInv /\ P!Between(lo, hi)
    BY <1>1 DEF TrackedInv
  <1>3. lo = Lowest' /\ hi = Highest'
    BY <1>1 DEF Lowest, Highest
  <1>4. CASE Detector!RecordSteps(t)
    <2>1. P!DetectorInv'
      BY <1>2, <1>4, DetectorAssumptions, SameUpdate, P!UpdateKeepsInv
    <2>2. P!Between(lo, hi)'
      BY <1>1, <1>2, <1>4, DetectorAssumptions, SameUpdate, P!UpdateKeepsBetween
    <2> QED BY <1>3, <2>1, <2>2 DEF P!Between
  <1>5. CASE \/ Detector!EnableAutoAdjust(t) \/ Detector!DisableAuto(t)
             \/ Detector!DisableSteps(t) \/ Detector!Reset(t)
    <2>1. P!DetectorInv'
      BY <1>2, <1>5, DetectorAssumptions, SameOperate, P!OperateKeepsInv
    <2>2. P!Between(lo, hi)'
      BY <1>1, <1>2, <1>5, DetectorAssumptions, SameOperate, P!OperateKeepsBetween
    <2> QED BY <1>3, <2>1, <2>2 DEF P!Between
  <1> QED BY <1>4, <1>5

(* VerifyTracking up to its result: the match is the error that is left. *)
LEMMA MatchKeepsInv ==
    ASSUME TrackedInv, NEW t \in Threads, Match(t) \/ NoCodeMatches(t) \/ Fails(t)
    PROVE  TrackedInv'
  <1>1. UNCHANGED <<detectorVars, drift>>
    BY DEF Match, NoCodeMatches, Fails
  <1>2. P!DetectorInv' /\ P!Between(Lowest, Highest)'
    BY <1>1 DEF TrackedInv, detectorVars, P!DetectorInv, P!AtomicsTyped, P!UpdatesUnderLock,
                P!NoLostUpdate, P!Between, Lowest, Highest
  <1>3. MatchesTyped /\ MatchesBetween /\ NeverRejected
    BY DEF TrackedInv
  <1>4. Lowest' = Lowest /\ Highest' = Highest
    BY <1>1 DEF Lowest, Highest
  <1>5. CASE Match(t)
    <2>1. PICK i \in Matches : matched' = [matched EXCEPT ![t] = i]
      BY <1>5 DEF Match
    <2>2. verdict' = [verdict EXCEPT ![t] = "true"]
      BY <1>5 DEF Match
    <2>3. i \in -Window .. Window /\ Lowest <= i /\ i <= Highest
      BY <2>1, LeftError
    <2>4. MatchesTyped'
      BY <1>1, <1>3, <2>1, <2>2, <2>3 DEF MatchesTyped
    <2>5. MatchesBetween'
      BY <1>3, <1>4, <2>1, <2>3 DEF MatchesBetween, MatchesTyped
    <2>6. NeverRejected'
      BY <1>1, <1>3, <2>2 DEF NeverRejected, MatchesTyped
    <2> QED BY <1>2, <2>4, <2>5, <2>6 DEF TrackedInv
  <1>6. CASE NoCodeMatches(t)
    <2>1. Matches = {} /\ verdict' = [verdict EXCEPT ![t] = "false"] /\ UNCHANGED matched
      BY <1>6 DEF NoCodeMatches
    <2>2. drift \notin -Window .. Window
      <3>1. Window \in Nat
        BY TrackedAssumption DEF TrackedAssumption
      <3>2. drift - offset \notin -Window .. Window
        BY <2>1, LeftError
      <3> QED BY <3>1, <3>2, LeftError DEF Lowest, Highest
    <2>3. MatchesTyped' /\ MatchesBetween'
      BY <1>1, <1>3, <1>4, <2>1 DEF MatchesTyped, MatchesBetween
    <2>4. NeverRejected'
      BY <1>1, <2>2 DEF NeverRejected
    <2> QED BY <1>2, <2>3, <2>4 DEF TrackedInv
  <1>7. CASE Fails(t)
    <2>1. verdict' = [verdict EXCEPT ![t] = "error"] /\ UNCHANGED matched
      BY <1>7 DEF Fails
    <2>2. MatchesTyped' /\ MatchesBetween'
      BY <1>1, <1>3, <1>4, <2>1 DEF MatchesTyped, MatchesBetween
    <2>3. NeverRejected'
      BY <1>1, <1>3, <2>1 DEF NeverRejected, MatchesTyped
    <2> QED BY <1>2, <2>2, <2>3 DEF TrackedInv
  <1> QED BY <1>5, <1>6, <1>7

(* The Record of a match. *)
LEMMA RecordMatchKeepsInv ==
    ASSUME TrackedInv, NEW t \in Threads, RecordMatch(t)
    PROVE  TrackedInv'
  <1>1. PICK lo \in Int, hi \in Int : lo = Lowest /\ hi = Highest
    BY LeftError
  <1>2. P!DetectorInv /\ P!Between(lo, hi) /\ MatchesTyped /\ MatchesBetween /\ NeverRejected
    BY <1>1 DEF TrackedInv
  <1>3. /\ matched[t] # NoMatch /\ Detector!Record(t, matched[t], Window)
        /\ matched' = [matched EXCEPT ![t] = NoMatch]
        /\ UNCHANGED <<drift, verdict>>
    BY DEF RecordMatch, RecordedOffset
  <1>4. PICK m \in -Window .. Window : m = matched[t]
    BY <1>2, <1>3 DEF MatchesTyped
  <1>5. P!Record(t, m, Window) /\ lo <= m /\ m <= hi /\ Window \in {Window}
    BY <1>1, <1>2, <1>3, <1>4, SameRecord DEF MatchesBetween
  <1>6. P!DetectorInv'
    BY <1>2, <1>5, DetectorAssumptions, P!RecordKeepsInv
  <1>7. P!Between(lo, hi)'
    BY <1>2, <1>5, DetectorAssumptions, P!RecordKeepsBetween
  <1>8. lo = Lowest' /\ hi = Highest'
    BY <1>1, <1>3 DEF Lowest, Highest
  <1>9. P!Between(Lowest, Highest)'
    BY <1>7, <1>8 DEF P!Between
  <1>10. MatchesTyped' /\ MatchesBetween' /\ NeverRejected'
    BY <1>1, <1>2, <1>3, <1>8 DEF MatchesTyped, MatchesBetween, NeverRejected
  <1> QED BY <1>6, <1>9, <1>10 DEF TrackedInv

(* Every step of VerifyTracking and of the detector keeps the invariant. *)
LEMMA NextTracked == TrackedInv /\ [Next]_vars => TrackedInv'
  <1> SUFFICES ASSUME TrackedInv, [Next]_vars PROVE TrackedInv'
    OBVIOUS
  <1>1. CASE UNCHANGED vars
    BY <1>1 DEF vars, detectorVars, TrackedInv, MatchesTyped, MatchesBetween, NeverRejected,
                P!DetectorInv, P!AtomicsTyped, P!UpdatesUnderLock, P!NoLostUpdate, P!Between,
                Lowest, Highest
  <1>2. ASSUME NEW t \in Threads, UNCHANGED <<drift, matched, verdict>>,
               \/ Detector!RecordSteps(t)
               \/ Detector!EnableAutoAdjust(t) \/ Detector!DisableAuto(t)
               \/ Detector!DisableSteps(t) \/ Detector!Reset(t)
        PROVE  TrackedInv'
    <2>1. P!DetectorInv' /\ P!Between(Lowest, Highest)'
      BY <1>2, DetectorStep
    <2>2. MatchesTyped' /\ MatchesBetween' /\ NeverRejected'
      BY <1>2 DEF TrackedInv, MatchesTyped, MatchesBetween, NeverRejected, Lowest, Highest
    <2> QED BY <2>1, <2>2 DEF TrackedInv
  <1>3. ASSUME NEW t \in Threads, VerifyTracking(t) PROVE TrackedInv'
    BY <1>2, <1>3, MatchKeepsInv, RecordMatchKeepsInv DEF VerifyTracking, Compares
  <1>4. ASSUME NEW t \in Threads, Operate(t) PROVE TrackedInv'
    BY <1>2, <1>4 DEF Operate
  <1> QED BY <1>1, <1>3, <1>4 DEF Next

-----------------------------------------------------------------------------
(* The theorems. *)

(* The samples, the averages and the correction stay between none and the   *)
(* token's clock error, and no match lies outside (VerifyTracking, Record). *)
THEOREM TrackedInvariant == Spec => []TrackedInv
  BY InitTracked, NextTracked, PTL DEF Spec

(* The correction never overshoots the token's error nor points away from   *)
(* its clock, however verifications race with each other and with the       *)
(* operator's Enable, Disable and Reset.                                    *)
THEOREM CorrectsTowardsDrift == Spec => []CorrectionTowardsDrift
  <1>1. TrackedInv => CorrectionTowardsDrift
    <2> SUFFICES ASSUME TrackedInv PROVE CorrectionTowardsDrift
      OBVIOUS
    <2>1. Lowest <= offset /\ offset <= Highest
      BY DEF TrackedInv, P!Between
    <2>2. drift \in Int /\ offset \in Int
      BY LeftError
    <2> QED BY <2>1, <2>2 DEF CorrectionTowardsDrift, Lowest, Highest
  <1> QED BY <1>1, TrackedInvariant, PTL

(* A token whose error is inside the window is never turned away because    *)
(* of the correction (VerifyTracking).                                      *)
THEOREM TokenIsNeverRejected == Spec => []NeverRejected
  <1>1. TrackedInv => NeverRejected
    BY DEF TrackedInv
  <1> QED BY <1>1, TrackedInvariant, PTL

=============================================================================
