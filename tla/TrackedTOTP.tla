----------------------------- MODULE TrackedTOTP -----------------------------
(***************************************************************************)
(* TOTP.VerifyTracking of src/totp.go composed with ClockSkewDetector: the *)
(* loop from matched offsets to the correction of the counter, and back.   *)
(*                                                                         *)
(* One token, whose clock is a constant number of periods off, presents    *)
(* its current code again and again.  A code is identified with the        *)
(* counter it was generated from: that two counters give the same digits   *)
(* is left out.                                                            *)
(***************************************************************************)
EXTENDS Integers

CONSTANTS
    Threads,        \* goroutines that verify
    Capacity, MinSamples, MinReport, MaxInt64, EmaScale, NoOne,   \* the detector's
    Drifts,         \* possible clock errors of the token, in periods
    Window,         \* window of VerifyTracking
    BaseCounter,    \* the server's counter, current / period
    MaxCounter,     \* largest uint64
    NoMatch         \* a goroutine that is not between match and Record

(* A window above 1000 is refused (src/totp.go:184). *)
ASSUME TrackedAssumption ==
    /\ Capacity \in Nat \ {0}
    /\ MinSamples \in Nat \ {0} /\ MinReport \in Nat \ {0}
    /\ MaxInt64 \in Nat
    /\ EmaScale \in Nat \ {0}
    /\ NoOne \notin Threads
    /\ Window \in 0 .. 1000
    /\ MaxCounter \in Nat
    /\ Drifts \subseteq Int
    /\ BaseCounter \in 0 .. MaxCounter
    /\ \A d \in Drifts : BaseCounter + d \in 0 .. MaxCounter
    /\ NoMatch \notin -Window .. Window

VARIABLES
    state, autoAdjust, offset, smoothedScaled, lastWindowUsed, mu, pc, prev, recent,
    drift,      \* the token's clock error
    matched,    \* matched[t]: the i at which t's code matched, before Record
    verdict     \* verdict[t]: result of t's last VerifyTracking

detectorVars == <<state, autoAdjust, offset, smoothedScaled, lastWindowUsed, mu, pc, prev, recent>>
vars == <<detectorVars, drift, matched, verdict>>

Detector == INSTANCE ClockSkewDetector WITH Samples <- -Window .. Window, Windows <- {Window}

Init ==
    /\ Detector!Init
    /\ drift \in Drifts
    /\ matched = [t \in Threads |-> NoMatch]
    /\ verdict = [t \in Threads |-> "none"]

-----------------------------------------------------------------------------

IsCounter(c) == c \in 0 .. MaxCounter

(* Corrects in the wrong direction. *)
AdjustedCounter_Minus == IF IsCounter(BaseCounter - offset) THEN BaseCounter - offset ELSE BaseCounter

(* checkedAddSigned, falling back to the uncorrected counter. *)
AdjustedCounter == IF IsCounter(BaseCounter + offset) THEN BaseCounter + offset ELSE BaseCounter

(* The loop stops one short. *)
Matches_Short ==
    {i \in -Window .. Window - 1 : IsCounter(AdjustedCounter + i)
                                   /\ AdjustedCounter + i = BaseCounter + drift}

(* The i of the window whose counter is the one the code was generated from. *)
Matches ==
    {i \in -Window .. Window : IsCounter(AdjustedCounter + i)
                               /\ AdjustedCounter + i = BaseCounter + drift}

Busy(t) == matched[t] # NoMatch \/ pc[t] # "idle"

(* VerifyTracking up to the match: reads the detector's offset once. *)
Match(t) ==
    /\ ~ Busy(t)
    /\ \E i \in Matches : matched' = [matched EXCEPT ![t] = i]
    /\ verdict' = [verdict EXCEPT ![t] = "true"]
    /\ UNCHANGED <<detectorVars, drift>>

NoCodeMatches(t) ==
    /\ ~ Busy(t)
    /\ Matches = {}
    /\ verdict' = [verdict EXCEPT ![t] = "false"]
    /\ UNCHANGED <<detectorVars, drift, matched>>

(* Records the offset from the counter the matched i counts from. *)
RecordedOffset_FromBase(i) == i + offset

RecordedOffset(i) == i

(* detector.Record: the offset is relative to the counter already adjusted. *)
RecordMatch(t) ==
    /\ matched[t] # NoMatch
    /\ Detector!Record(t, RecordedOffset(matched[t]), Window)
    /\ matched' = [matched EXCEPT ![t] = NoMatch]
    /\ UNCHANGED <<drift, verdict>>

(* A call that ends in an error, with nothing recorded: the object is       *)
(* cleared, the window is above the limit, or the secret provider fails on  *)
(* a counter of the window.                                                 *)
Fails(t) ==
    /\ ~ Busy(t)
    /\ verdict' = [verdict EXCEPT ![t] = "error"]
    /\ UNCHANGED <<detectorVars, drift, matched>>

(* The steps of a call that gets to compare the code. *)
Compares(t) ==
    \/ Match(t)
    \/ NoCodeMatches(t)
    \/ RecordMatch(t)
    \/ Detector!RecordSteps(t) /\ UNCHANGED <<drift, matched, verdict>>

VerifyTracking(t) == Fails(t) \/ Compares(t)

(* The application switches the correction on and off, or starts afresh. *)
Operate(t) ==
    /\ matched[t] = NoMatch
    /\ \/ Detector!EnableAutoAdjust(t)
       \/ Detector!DisableAuto(t)
       \/ Detector!DisableSteps(t)
       \/ Detector!Reset(t)
    /\ UNCHANGED <<drift, matched, verdict>>

Next == \E t \in Threads : VerifyTracking(t) \/ Operate(t)

Spec == Init /\ [][Next]_vars

(* As in docs/usage.md:557-564: auto-adjust is enabled first, and stays     *)
(* enabled while the token is verified for ever.  Fairness: a goroutine     *)
(* inside VerifyTracking is eventually scheduled, and users keep logging in *)
(* with calls that do not all fail.                                         *)
Enable(t) ==
    /\ matched[t] = NoMatch
    /\ Detector!EnableAutoAdjust(t)
    /\ UNCHANGED <<drift, matched, verdict>>

VerifyEnabled(t) == autoAdjust /\ VerifyTracking(t)
ComparesEnabled(t) == autoAdjust /\ Compares(t)

AdjustNext == \E t \in Threads : Enable(t) \/ VerifyEnabled(t)

AdjustSpec ==
    /\ Init
    /\ [][AdjustNext]_vars
    /\ \A t \in Threads : WF_vars(Enable(t)) /\ WF_vars(ComparesEnabled(t))

-----------------------------------------------------------------------------
(* Properties. *)

(* The correction stays between none and the token's true error, however    *)
(* verifications race with each other and with the operator: it never       *)
(* overshoots and never points away from the token's clock.                 *)
CorrectionTowardsDrift ==
    IF drift >= 0 THEN offset \in 0 .. drift ELSE offset \in drift .. 0

(* A token whose error is inside the window is never turned away because    *)
(* of the correction.                                                       *)
NeverRejected ==
    drift \in -Window .. Window => \A t \in Threads : verdict[t] # "false"

(* The correction ends up at half of the token's error, within half a step, *)
(* because matches are recorded relative to the corrected counter: what is  *)
(* averaged is the error that is left, not the error.                       *)
SettlesAtHalf == <>[](2 * offset - drift \in -1 .. 1)

(* docs/usage.md:563: "After enough samples (>= 16), the detector           *)
(* automatically compensates".                                              *)
Compensates == <>[](offset = drift)

=============================================================================
