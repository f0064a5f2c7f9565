------------------------- MODULE ClockSkewDetector -------------------------
(***************************************************************************)
(* ClockSkewDetector of src/skew.go: a ring of the offsets at which codes  *)
(* matched, running aggregates over it, and an exponential moving average  *)
(* that drives the offset VerifyTracking adds to the counter.              *)
(*                                                                         *)
(* The ring and its aggregates are behind the mutex.  autoAdjust, offset   *)
(* and smoothedScaled are atomics that DisableAutoAdjust writes without    *)
(* the mutex, so Record's update of them is a step per atomic access.      *)
(*                                                                         *)
(* The code computes in float64.  The model computes exactly and, where    *)
(* the exact value lies half way between two integers, allows both: no     *)
(* other value is close enough to a half for float64 to round it wrongly.  *)
(*                                                                         *)
(* recent is a history variable.                                           *)
(***************************************************************************)
EXTENDS Integers, FiniteSets, SequencesExt

CONSTANTS
    Threads,        \* goroutines sharing the detector
    Capacity,       \* capacity of NewClockSkewDetector
    Samples,        \* offsets that Record is called with
    Windows,        \* windows that Record is called with
    MaxInt64,       \* math.MaxInt64
    MinSamples,     \* 16 in the code: samples before the offset is adjusted
    MinReport,      \* 8 in the code: samples before Report recommends
    EmaScale,       \* emaScale: 1000 in the code
    NoOne           \* the mutex is free

(* A capacity of 0 makes Record divide by zero (src/skew.go:95). *)
ASSUME ConstantsAssumption ==
    /\ Capacity \in Nat \ {0}
    /\ Samples \subseteq Int /\ IsFiniteSet(Samples)
    /\ Windows \subseteq Nat
    /\ MaxInt64 \in Nat
    /\ MinSamples \in Nat \ {0}
    /\ MinReport \in Nat \ {0}
    /\ EmaScale \in Nat \ {0}
    /\ NoOne \notin Threads

VARIABLES
    state,          \* the skewState: ring, next index, length, aggregates
    autoAdjust,     \* atomic: adjust the offset?
    offset,         \* atomic: offset added to the counter
    smoothedScaled, \* atomic: moving average, times EmaScale
    lastWindowUsed, \* atomic: window of the last Record
    mu,             \* owner of the mutex
    pc,             \* pc[t]: where t is inside Record or DisableAutoAdjust
    prev,           \* prev[t]: Record's prevScaled
    recent          \* history: the last Capacity samples, oldest first

atomics == <<autoAdjust, offset, smoothedScaled>>
local == <<mu, pc, prev>>
vars == <<state, atomics, lastWindowUsed, local, recent>>

EmptyState == [buffer |-> <<>>, writeIdx |-> 0, length |-> 0, sum |-> 0, nonZeroCount |-> 0]

Init ==
    /\ state = EmptyState
    /\ autoAdjust = FALSE
    /\ offset = 0
    /\ smoothedScaled = 0
    /\ lastWindowUsed = 0
    /\ mu = NoOne
    /\ pc = [t \in Threads |-> "idle"]
    /\ prev = [t \in Threads |-> 0]
    /\ recent = <<>>

-----------------------------------------------------------------------------
(* The computations. *)

AbsVal(x) == IF x < 0 THEN -x ELSE x
NonZero(x) == IF x # 0 THEN 1 ELSE 0

(* Forgets to advance. *)
NextIdx_Stays(i) == i % Capacity

(* Forgets to wrap around. *)
NextIdx_NoWrap(i) == i + 1

NextIdx(i) == (i + 1) % Capacity

(* Enters a sample; a full ring overwrites its oldest one. *)
Push(s, m) ==
    IF s.length < Capacity
    THEN [buffer |-> Append(s.buffer, m),
          writeIdx |-> NextIdx(s.length),
          length |-> s.length + 1,
          sum |-> s.sum + m,
          nonZeroCount |-> s.nonZeroCount + NonZero(m)]
    ELSE LET old == s.buffer[s.writeIdx + 1]
         IN  [buffer |-> [s.buffer EXCEPT ![s.writeIdx + 1] = m],
              writeIdx |-> NextIdx(s.writeIdx),
              length |-> s.length,
              sum |-> s.sum - old + m,
              nonZeroCount |-> s.nonZeroCount - NonZero(old) + NonZero(m)]

(* A uint64 window as the int64 that Record stores. *)
ClampedWindow(w) == IF w > MaxInt64 THEN MaxInt64 ELSE w

(* math.Round of num / den: the nearest integers, two when it is a tie. *)
Rounded(num, den) ==
    {r \in {num \div den, num \div den + 1} : AbsVal(2 * (num - r * den)) <= den}

(* 0.2 * mean + 0.8 * prevScaled/EmaScale, times 5 * EmaScale * length. *)
SmoothedNum(s, prevScaled) == EmaScale * s.sum + 4 * s.length * prevScaled

NewSmoothedScaled(s, prevScaled) == Rounded(SmoothedNum(s, prevScaled), 5 * s.length)

(* Weighs the mean and the previous average with 1 each instead of 0.2, 0.8. *)
NewOffset_Unweighted(s, prevScaled) ==
    Rounded(EmaScale * s.sum + s.length * prevScaled, EmaScale * s.length)

(* The average rounded; one below a half in size rounds to 0. *)
NewOffset(s, prevScaled) == Rounded(SmoothedNum(s, prevScaled), 5 * EmaScale * s.length)

(* Report: a mean or a ratio over n samples is its numerator here. *)
Recommend(n, sum, edgeHits) ==
    CASE n < MinReport        -> "InsufficientData"
      [] n >= MinReport /\ 5 * edgeHits >= n -> "WidenWindowOrCheckNtp"
      [] n >= MinReport /\ 5 * edgeHits < n /\ 2 * AbsVal(sum) >= n -> "ConsistentDrift"
      [] OTHER -> "NoActionNeeded"

EdgeHits(buf, w) == Cardinality({i \in DOMAIN buf : w > 0 /\ AbsVal(buf[i]) = w})

Report(s, w) ==
    [SampleCount  |-> s.length,
     MeanOffset   |-> IF s.length < MinReport THEN 0 ELSE s.sum,
     NonZeroCount |-> s.nonZeroCount,
     EdgeHitRatio |-> IF s.length < MinReport THEN 0 ELSE EdgeHits(s.buffer, w),
     Recommend    |-> Recommend(s.length, s.sum, EdgeHits(s.buffer, w))]

-----------------------------------------------------------------------------
(* Record. *)

Goto(t, label) == pc' = [pc EXCEPT ![t] = label]

(* Does not wait for the mutex. *)
Record_Unlocked(t, m, w) ==
    LET s == Push(state, m)
        adjust == autoAdjust /\ s.length >= MinSamples
    IN  /\ pc[t] = "idle"
        /\ state' = s
        /\ lastWindowUsed' = ClampedWindow(w)
        /\ mu' = IF adjust THEN t ELSE NoOne
        /\ Goto(t, IF adjust THEN "load" ELSE "idle")
        /\ recent' = IF Len(recent) < Capacity THEN Append(recent, m)
                     ELSE Append(Tail(recent), m)
        /\ UNCHANGED <<atomics, prev>>

(* The ring, and the test of autoAdjust: one step, as the ring is private   *)
(* to the mutex.  The mutex is kept only when the average is updated too.   *)
Record(t, m, w) ==
    LET s == Push(state, m)
        adjust == autoAdjust /\ s.length >= MinSamples
    IN  /\ pc[t] = "idle"
        /\ mu = NoOne
        /\ state' = s
        /\ lastWindowUsed' = ClampedWindow(w)
        /\ mu' = IF adjust THEN t ELSE NoOne
        /\ Goto(t, IF adjust THEN "load" ELSE "idle")
        /\ recent' = IF Len(recent) < Capacity THEN Append(recent, m)
                     ELSE Append(Tail(recent), m)
        /\ UNCHANGED <<atomics, prev>>

LoadSmoothed(t) ==
    /\ pc[t] = "load"
    /\ prev' = [prev EXCEPT ![t] = smoothedScaled]
    /\ Goto(t, "storeSmoothed")
    /\ UNCHANGED <<state, atomics, lastWindowUsed, mu, recent>>

StoreSmoothed(t) ==
    /\ pc[t] = "storeSmoothed"
    /\ smoothedScaled' \in NewSmoothedScaled(state, prev[t])
    /\ Goto(t, "storeOffset")
    /\ UNCHANGED <<state, autoAdjust, offset, lastWindowUsed, mu, prev, recent>>

(* The last store of Record, and the Unlock. *)
StoreOffset(t) ==
    /\ pc[t] = "storeOffset"
    /\ offset' \in NewOffset(state, prev[t])
    /\ mu' = NoOne
    /\ prev' = [prev EXCEPT ![t] = 0]
    /\ Goto(t, "idle")
    /\ UNCHANGED <<state, autoAdjust, smoothedScaled, lastWindowUsed, recent>>

-----------------------------------------------------------------------------
(* The other methods. *)

EnableAutoAdjust(t) ==
    /\ pc[t] = "idle"
    /\ autoAdjust' = TRUE
    /\ UNCHANGED <<state, offset, smoothedScaled, lastWindowUsed, local, recent>>

(* DisableAutoAdjust: three atomic stores, without the mutex. *)
DisableAuto(t) ==
    /\ pc[t] = "idle"
    /\ autoAdjust' = FALSE
    /\ Goto(t, "clearOffset")
    /\ UNCHANGED <<state, offset, smoothedScaled, lastWindowUsed, mu, prev, recent>>

ClearOffset(t) ==
    /\ pc[t] = "clearOffset"
    /\ offset' = 0
    /\ Goto(t, "clearSmoothed")
    /\ UNCHANGED <<state, autoAdjust, smoothedScaled, lastWindowUsed, mu, prev, recent>>

ClearSmoothed(t) ==
    /\ pc[t] = "clearSmoothed"
    /\ smoothedScaled' = 0
    /\ Goto(t, "idle")
    /\ UNCHANGED <<state, autoAdjust, offset, lastWindowUsed, mu, prev, recent>>

(* Under the mutex.  Its two atomic stores are one step: others write only  *)
(* zeros meanwhile, and CurrentOffset reads one of them.  The window of the *)
(* last Record stays.                                                       *)
Reset(t) ==
    /\ pc[t] = "idle"
    /\ mu = NoOne
    /\ state' = EmptyState
    /\ offset' = 0
    /\ smoothedScaled' = 0
    /\ recent' = <<>>
    /\ UNCHANGED <<autoAdjust, lastWindowUsed, local>>

RecordSteps(t) == LoadSmoothed(t) \/ StoreSmoothed(t) \/ StoreOffset(t)
DisableSteps(t) == ClearOffset(t) \/ ClearSmoothed(t)

Next ==
    \E t \in Threads :
        \/ \E m \in Samples, w \in Windows : Record(t, m, w)
        \/ RecordSteps(t)
        \/ EnableAutoAdjust(t)
        \/ DisableAuto(t)
        \/ DisableSteps(t)
        \/ Reset(t)

Spec == Init /\ [][Next]_vars

-----------------------------------------------------------------------------
(* Properties. *)

MaxSample == Max({AbsVal(m) : m \in Samples} \cup {0})

(* The types; the ring never outgrows its capacity, and the next index is   *)
(* inside it.                                                               *)
TypeOK ==
    /\ state.buffer \in BoundedSeq(Samples, Capacity)
    /\ state.length = Len(state.buffer)
    /\ state.writeIdx \in 0 .. Capacity - 1
    /\ state.sum \in Int
    /\ state.nonZeroCount \in 0 .. Capacity
    /\ autoAdjust \in BOOLEAN
    /\ offset \in Int
    /\ smoothedScaled \in Int
    /\ lastWindowUsed \in 0 .. MaxInt64
    /\ mu \in Threads \cup {NoOne}
    /\ pc \in [Threads -> {"idle", "load", "storeSmoothed", "storeOffset",
                           "clearOffset", "clearSmoothed"}]
    /\ prev \in [Threads -> Int]

(* The sum of a sequence of numbers. *)
SumOf(s) ==
    LET upTo[n \in 0 .. Len(s)] == IF n = 0 THEN 0 ELSE upTo[n - 1] + s[n]
    IN  upTo[Len(s)]

(* What Report says, from aggregates kept up to date sample by sample while *)
(* the ring wraps, is what follows from the last Capacity samples recorded  *)
(* since the last Reset (Record, Report, Reset).                            *)
ReportIsOfLastSamples ==
    LET n   == Len(recent)
        sum == SumOf(recent)
    IN  Report(state, lastWindowUsed) =
            [SampleCount  |-> n,
             MeanOffset   |-> IF n < MinReport THEN 0 ELSE sum,
             NonZeroCount |-> Cardinality({i \in 1 .. n : recent[i] # 0}),
             EdgeHitRatio |-> IF n < MinReport THEN 0 ELSE EdgeHits(recent, lastWindowUsed),
             Recommend    |-> Recommend(n, sum, EdgeHits(recent, lastWindowUsed))]

(* The correction never exceeds the largest offset ever matched, so it      *)
(* cannot run away from the clock, whatever races with DisableAutoAdjust.   *)
OffsetWithinSamples ==
    /\ AbsVal(offset) <= MaxSample
    /\ AbsVal(smoothedScaled) <= EmaScale * MaxSample

(* src/skew.go:104-105: the update of the average "must stay under lock".   *)
(* Between Record's load and its store of smoothedScaled nothing but the    *)
(* zero of DisableAutoAdjust comes in: no other Record's update is lost.    *)
NoLostUpdate ==
    \A t \in Threads : pc[t] = "storeSmoothed" => smoothedScaled \in {prev[t], 0}

(* tests/skew_test.go:160 says: "Offset should be 0 after disable". *)
DisabledOffsetIsZero ==
    (~ autoAdjust /\ \A t \in Threads : pc[t] = "idle") => offset = 0

=============================================================================
