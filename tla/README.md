# Verification of genotp-go

TLA+ models of the one-time-password library in this repository, the TLC runs
that check them on small instances, and TLAPS proofs of their main properties
for every value of the constants. Paths are relative to the repository; line
numbers are those of the commit the models were written from.

    tlc -workers 2 -config MCTotpReplay.cfg MCTotpReplay
    tlapm EncodingsProofs.tla

`PROJECT.json` lists components, runs, mutants, the definition-to-source map,
findings, hazards and theorems.

## 1. Inventory

| Component | State | Operations | Hard part |
|---|---|---|---|
| `ReplayStore`, `InMemoryReplayStore` (replay_store.go) | map key -> expiry, slice with insertion order, time of the next sweep, one mutex | CheckAndRecord, Reset, Size | the clock is read before the mutex; sweep, eviction and re-recording keep two structures in step |
| `Verifier` (verifier.go) | failed attempts (uint32), mutex, a store | VerifyWithReplayProtection, VerifyWithContext, IsRateLimited, ResetAttempts, ClearUsedCodes | the mutex is released between the test of the limit, the store call and the bookkeeping; replicas share a store that may fail |
| `ClockSkewDetector` (skew.go) | ring of matched offsets with running sum, three atomics | Record, CurrentOffset, Enable/DisableAutoAdjust, Reset, Report | the atomics are written with and without the mutex |
| `TOTP`, `HOTP` (totp.go, hotp.go) | secret, cleared flag, pool of keyed MACs | Generate, Verify, VerifyWithResync, VerifyTracking, GenBound, VerifyBound, ClearSecret | ClearSecret races with readers of the secret; windows at the ends of uint64; feedback from VerifyTracking to the detector |
| `secretRuntime`, providers (secret_runtime.go, provider.go) | static secret or a provider | withMAC, computeHMAC | a provider fails in the middle of a window |
| Batches (batch.go) | none | VerifyBatch, VerifyBoundBatch | ClearSecret between two items |
| Contexts (context.go) | fields of a builder | seven setters, Custom, Build | different fields must never give the same bytes |
| Codecs (base32.go, migration.go, provisioning.go) | none | encode, decode | round trips, malformed input |
| Constant-time comparison (constant_time.go) | none | equality | bit arithmetic instead of a test |
| Configuration, builders, keys, helpers, errors, algorithms | none to speak of | setters, length checks | - |
| Metrics (metrics.go) | five atomic counters | increment, read, Reset | Reset is not one step |
| WASM bindings (wasm/main.go) | two global buffers | alloc, generate, verify, new_secret, build_context, result_ptr, result_len | who owns the buffers between two exports; two readings of the clock |

How they interact: an application asks `TOTP`/`HOTP` for the expected code (or
lets them verify), and may pass code and expected code to a `Verifier`, which
asks its `ReplayStore` once per matching code. The clock is read by the
application, by TOTP and by the store, each at its own time. `VerifyTracking`
reads the detector's offset, searches the window, and reports the match to the
detector, which computes the next offset. Contexts enter the message of a code
and the replay key as bytes. Secrets enter as Base32, through provisioning URIs
and migration payloads. The WASM instance wraps TOTP and contexts for a host
that shares its memory. Every object may be shared by goroutines; no lock spans
two objects.

What makes each part correct: a store keeps every promise until it ends, it is
reset or it is full; a verifier accepts a code at most once per promise and
stops after the allowed failures, and promises outlive codes; the detector
describes the last samples and corrects towards the token's clock; an OTP object
answers for exactly its window, context and key, also while it is being cleared;
an encoding reads back as what was written, and never as something else; a WASM
host reads the answer to its own request.

## 2. Modules

`ReplayRegister` is the abstract contract of `ReplayStore`: a call reads the
clock (`Begin`) and takes effect later in one step. `FirstSeen` makes a promise
until the *caller's reading* plus ttl; `Replay` needs a promise that ran at the
caller's reading. Promises are given up by `Reset` or when `Full` allows it.

`InMemoryReplayStore` models replay_store.go. `ReadClock` is line 32-34;
`RejectReplay` and `RecordFirst` are the two ways through the critical section,
with lazy sweep, check, sweep when full, batch eviction, removal of an old
position and append in the order of the code. `until` (the promise last made for
a key) and `newer` (what was recorded after it) are history variables.
`ImplementsRegister` instantiates `ReplayRegister` with `held <- DOMAIN entries`.

`Verifier` models verifier.go on top of `ReplayRegister` (not of one store), so
what is shown holds for every store that keeps the contract. A call is
`PassGate`/`RefuseAtGate`, `Mismatch`/`CallStore`, the store's answer, and
`SettleFailure`/`SettleSuccess`. `StoreFails` and `ReplyLost` are the errors of a
remote store, before and after it recorded the key. `grant` and `accepted` are
history: the promise a call obtained, and the promises whose holder was told
true. A promise that the store gave up is taken out of the history.

`ClockSkewDetector` models skew.go. `Record` is the ring and the test of
`autoAdjust`; `LoadSmoothed`, `StoreSmoothed`, `StoreOffset` are its atomic
accesses; `DisableAuto`, `ClearOffset`, `ClearSmoothed` are the three stores of
DisableAutoAdjust. `ClampedWindow` is the clamp of the window at the largest
int64, a parameter; EdgeHitRatio is a pair of numbers. float64 is replaced by exact arithmetic that allows both
neighbours at a tie.

`TrackedTOTP` composes VerifyTracking with the detector for one token whose
clock is a fixed number of periods off. `Fails` is every way in which a call ends
in an error (a cleared object, a window above 1000, a failing provider) and
records nothing; `Compares` is the rest of it. `AdjustSpec` is the documented use:
auto-adjust is enabled and the token keeps being verified.

`OTPInstance` models one HOTP or TOTP object, built from any `Arguments` that the
constructors let pass (`Constructible`: digits, secret or provider, algorithm, and
for TOTP the period). A call checks the flag (`Begin`),
then, for each counter of its window, tests for a static secret
(`HasStaticSecret`) and gets a key from the pool, from `r.secret` or from a
provider, compares, and loops. `ClearSecret` sets the flag, overwrites the bytes
and drops the slice header, with callers in between. A code is identified with
its key, counter and context; two of these giving the same digits is left out.
The data race on `r.secret` is a choice over what a reader may see: the key,
a half overwritten key, zeros, an empty slice, or a header with a length and no
pointer (a panic).

A call is a batch of one: VerifyBatch and VerifyBoundBatch (batch.go) are a
sequence of requests, each of which tests the flag anew and appends its result; a
panic ends the whole batch (`Unwind`).

`TotpReplay` composes `Verifier` (and so the store's contract) with the time for
which a TOTP code is right. A service reads the clock (`readAt`), finds the code
in `Expected` of that time, and calls; `TimelyTick` lets at most `MaxDelay` pass
until the store has decided. `TotpAssumption` demands a ttl of the width of the
window plus that delay.

`Text`, `Base32`, `Provisioning`, `Migration`, `OtpContext` and `ConstantTime` are
operators on sequences of bytes, one per function of base32.go, provisioning.go,
migration.go, context.go, replayKey and constant_time.go. Names the library itself writes
(`issuer`, `x-`) are single symbols above 255. Loops are recursive functions of
the number of turns, so that the proofs can follow them. `Migration` keeps tags,
varints, lengths and base64 digits as they are; the ranges of the integers
(`MaxUint64`, `MaxInt`, `MaxInt32`, `MaxVarintBytes`) are parameters, because TLC's
integers are 32 bits wide, and `WidthsAssumption` says how they are related;
`IntAssumption` is that of a 64-bit platform, where int(tag >> 3) loses nothing.
`Unbroken` is what Go's base64 does with line breaks: it skips them.
`NextField` is one turn of the loop over the fields of a message, for a payload
and for an account. `Provisioning` ends with a reader of URIs, which is not part
of the repository: it splits at the reserved characters and decodes the parts. In
`ConstantTime` a machine word is the set of its bits that are 1. What the standard
library does (strings, base64, base32, sort) is modelled as far as ASCII goes.

`Encodings` is a caller that takes up one input after another; its properties
relate the input to what the encoders and decoders make of it. Its constants are
the inputs, and its assumptions say what they are: a text spells its secret, the
secret texts of URIs and accounts are ASCII (normalizeBase32Secret also drops
Unicode blanks and replaces invalid UTF-8), setters are called with any names and
values, what is exported has lengths that fit an int, and what a newer exporter adds (`NewNumbers`, `NewStrings`) is a field the
code does not know.

`WasmBindings` models wasm/main.go. A host goes through `Alloc`, `Write`, one of
the calls and `Leave`, or asks again through the buffer it has (`Reuse`), or calls
new_secret without one (`SkipAlloc`); the instance is two buffers. A call takes the first
`inputLen` bytes of whatever buffer was allocated last, so two hosts can come
between each other, and a length past the end is a trap that ends the instance.
`GenerateCode` and `GenerateReturns` are the two readings of the clock, and
`crossed` counts the steps that ended between them. Requests are records with the
length of their JSON text; a text parses when exactly its length is passed.
`EqBytes` is a parameter: the run gives it the bit arithmetic of `ConstantTime`,
and TLC evaluates the assumption that it is equality on the contexts of the
requests; `ComparisonsAreEquality` checks the same on all short strings.

`MC*` modules give the constants their values; each `.cfg` is one run.

## 3. Runs

| Run | What it shows | Instance | Distinct states |
|---|---|---|---|
| store_race | no running promise is lost or shortened by a stale reading; slice and map list the same keys once, within maxSize; eviction takes the oldest; refinement of ReplayRegister | 2 goroutines, 5 keys, maxSize 4, batches of 2, ttl 1 or 2, clock to 3 | 450,000 |
| totp_replay | a code is accepted once while any service finds it right, and once per promise, with lost answers and a full store; failures exceed the limit only by calls in flight; a locked-out verifier lets no call in, and only ResetAttempts or a success past the gate unlocks it | 2 verifiers, 2 goroutines, 2 codes, period 1, window 1, delay 1, ttl 4, limit 1, clock to 5 | 1,800,000 |
| skew_race | aggregates, bound of the correction, no lost update | 2 goroutines, ring of 3, offsets -1, 0, 2, windows on both sides of the largest int64 | 197,000 |
| skew_disable_race | *violation*: a correction survives DisableAutoAdjust | 2 goroutines | |
| tracked_race | the correction never overshoots and never costs a valid login | 2 goroutines, errors -3..3, window 2, calls that fail | 134,000 |
| tracked_settles | the correction settles at half of the error | ring 64, 16 samples, emaScale 1000, window 3 | 82,000 |
| tracked_compensates | *violation*: it never reaches the error | ring 16, error 2 | |
| instance_windows | calls and batches answer for exactly their window and context | 1 goroutine, all calls, counters 0..3, window to 1, all runtimes | 160,000 |
| instance_clear | a cleared key is used only by calls ClearSecret overtook; refusals are final, within a batch too; every call ends | 2 goroutines, all runtimes, single calls and batches of two | 83,000 |
| encodings | what was written reads back: secrets, URIs, payloads whole, cut short, broken into lines or from other exporters; plain contexts and replay keys differ when their parts do; origins; comparisons | the inputs of `MCEncodings`; integers of 22 bits, int32 of 11, words of 10 | 6,700 |
| base32_charset | *violation*: characters that are not Base32 are accepted | texts of up to 3 characters | |
| wasm | a host reads the answer to its own request; a code verifies until its expiry, in its context only; traps | 2 hosts, clock to `MaxTime`, calls that span a step, buffers used again | 621,000 |

Bounds. `MaxClock` lets a promise start, end and be made again. Two goroutines
reach every pairwise race. The store's capacity is below the number of keys, so
it fills, and a batch is larger than one key. In totp_replay the lives of the two
codes overlap, and the clock passes the end of both; with a window one wider than
the ttl allows for, the run fails. The ring of the detector wraps several times.
The counters of `OTPInstance` are small enough that windows touch both ends.
`skew_race` and `tracked_race` scale thresholds and precision down;
`tracked_settles` uses the code's. The inputs of `encodings` are all short strings
over the characters that the encoding tells apart: separators, escape character,
spaces, NUL, bytes above 127, letters of both cases, and lengths on both sides of
every limit and of every alignment of digits and bytes.

Deadlock is checked in every run but `wasm`, where a trap ends the instance.

Fairness. `AdjustSpec` and `OTPInstance!Spec` assume weak fairness of the
steps inside a call: the Go scheduler preempts, no step waits for another call
except for the short critical sections of the detector, and providers return.
`AdjustSpec` also assumes that the token keeps being verified, without which
nothing is promised. No other property needs fairness.

## 4. Findings

- `InvalidCharactersRefused`: README.md:278 has DecodeBase32 return
  ErrInvalidSecret for invalid characters; the table of base32.go:8 leaves the
  upper 128 bytes at 0, so each of them is read as the digit 0 ('A').
- `DisabledOffsetIsZero`: tests/skew_test.go:160 expects offset 0 after
  DisableAutoAdjust; a Record in flight stores its offset afterwards and nothing
  clears it (skew.go:106-119).
- `Compensates`: docs/usage.md:563 says the detector compensates; matches are
  recorded relative to the corrected counter (totp.go:202), so the correction
  settles at half of the error. `SettlesAtHalf` is what holds.

Seen while modelling, without a run of their own:

- The gate and the count of failures are separate critical sections
  (verifier.go:69-83), so callers that pass together exceed the "max 5 failed
  attempts" of docs/usage.md:480; `OvershootBounded` is what holds.
- docs/distributed_replay_protection.md:156 computes the ttl from the window
  alone. `AcceptedOncePerCode` needs the delay between the service's reading and
  the store's decision on top, and `defaultReplayTTL` (90s) is not tied to the
  period: it is too short for periods above 30s with a window of 1.
- addCounterSigned maps a counter past the top of uint64 to 0 (totp.go:268-274),
  so Verify accepts the code of counter 0 there, which VerifyTracking would skip
  (`AcceptsOnlyTheWindow` names the case; only times near 2^64 reach it).
- A SecretProvider that returns its own buffer finds it zeroed
  (secret_runtime.go:62-64; provider_adapters.md:45 asks for a copy); objects
  built from one slice share it, so clearing one clears all; two concurrent
  ClearSecret calls may index a slice that is already nil.
- Migration: a label that begins with its own issuer and a colon loses that
  prefix; without an issuer, a label with a colon gains one; the period is not
  part of a payload; negative batch numbers are exported but refused on import
  (`Separable` and the last conjunct of `ImportsWhatWasExported` name the cases).
- Contexts: setField and Custom (context.go:100-105, 164-168) accept a value that
  holds NUL and a custom name that holds '=', and these can give the bytes of other
  fields: `Device("a\x00ip=1")` and `Device("a").IP("1")` build the same context,
  though README.md:236 says that different contexts produce different codes. What
  holds is `ContextsEncodeApart`, of contexts without them (`Plain`). A value that is
  too long is dropped without a word, so the context is that of the other fields.
- WASM: `expires_at` may be late by the steps that end during the call
  (`crossed`); hosts that interleave get each other's answers.

## 5. Proofs

All theorems hold for every value of the constants that the named assumptions
allow. Every invariant and every action property of a passing run is a theorem;
the two liveness properties are checked by TLC only.

| Module | Theorem | Property | Rests on |
|---|---|---|---|
| InMemoryReplayStoreProofs | TypeCorrect, LivePromisesSurvive | TypeOK, LivePromiseRecorded | StoreInv |
| | StoreImplementsRegister | ImplementsRegister | StoreInv |
| | SliceListsMap, MapIsBounded, OldestAreEvicted | OrderListsEntries, SizeBounded, EvictsOldestOnly | OrderInv |
| VerifierProofs | TypeCorrect, OvershootIsBounded, LockoutIsHeld | TypeOK, OvershootBounded, LockoutHolds | TypeOK, the count of calls |
| | AcceptedAtMostOnce | AcceptedOnce | GrantsInv |
| | AcceptedOncePerCodeHolds | AcceptedOncePerCode | OnTimeInv |
| ClockSkewDetectorProofs | DetectorTypeCorrect, ReportIsRight, NoUpdateIsLost | TypeOK, ReportIsOfLastSamples, NoLostUpdate | DetectorInv |
| | OffsetIsBounded | OffsetWithinSamples | Between |
| TrackedTOTPProofs | CorrectsTowardsDrift, TokenIsNeverRejected | CorrectionTowardsDrift, NeverRejected | TrackedInv |
| OTPInstanceProofs | InstanceTypeCorrect, OnlyTheWindowIsAccepted, TheWindowIsAccepted, GeneratedUnderTheKey, RefusalsAreFinal | TypeOK, AcceptsOnlyTheWindow, RejectsOnlyOutsideTheWindow, GeneratesUnderTheKey, RefusalIsFinal | InstanceInv |
| WasmBindingsProofs | OwnRequestIsAnswered, CodesLastUntilExpiry, CodesStayInContext, NoTrapWithinBounds | AnswersOwnRequest, AcceptedUntilExpiry, ValidInItsContextOnly, TrapsOnlyPastTheEnd | WasmInv |
| EncodingsProofs | SecretsReadBack | SecretReadsBack | JobInv, SpelledIsDecoded |
| | URIsReadBack | URIReadsBack | JobInv, EncodedDecodes, PairsUnion |
| | ImportsYieldExports, OthersAreRead | ImportsWhatWasExported, OtherExportersAreRead | JobInv, ExportAlso, AccountReadBack |
| | CutPayloadsYieldPrefixes | CutPayloadYieldsPrefix | JobInv, PayloadTurnCut |
| | ContextsStayApart | ContextsEncodeApart | JobInv, FieldsReadBack |
| | OriginsNormalize | OriginIsSchemeAndHost | JobInv, SiteWithScheme |
| | ReplayKeysStayApart | ReplayKeysApart | JobInv, SplitAtFirst |
| | ComparisonsDecideEquality | ComparisonsAreEquality | JobInv, BitsInjective |

`InMemoryReplayStoreProofs` (assumes `ConstantsAssumption`, `NoCallAssumption`):

- `LivePromiseRecorded` alone is not inductive: a call may sweep with any reading.
  `StoreInv` adds that readings are not in the future (`ReadingsArePast`) and that
  the map holds each promise with its expiry until the clock passes it
  (`MapHoldsPromises`). A sweep by a reading in the past then removes only what
  has ended.
- `StoreImplementsRegister`: initial states map to initial states, and
  `RecordFirst` maps to `FirstSeen` with the swept keys as `expired` and the
  evicted ones as `lost`; the other actions map to the action of the same role.
- `OrderInv` adds to `OrderListsEntries` that the slice is no longer than maxSize
  and that a key at a later position was recorded after every key before it
  (`LaterIsNewer`). Sweep, eviction and removal yield the slice with some
  positions left out (`Thinned`), which keeps all of this; the loop of the sweep
  (`KeptOf`) is followed round by round. The first positions of the slice are
  then the oldest recordings, which is what eviction takes.

`VerifierProofs` (assumes `ConstantsAssumption`, `NoneAssumption`; a finite set of
goroutines that cannot carry the counter past uint32):

- `OvershootIsBounded`, by counting the calls past the gate: each failure moves
  one of them into the count; `LockoutIsHeld`, from the type invariant, action by
  action: only `PassGate` lets a call in, and only below the limit.
- `AcceptedAtMostOnce`, from `GrantsInv`: kept grants and accepted promises of one
  key never overlap, and each ends no later than `until` of its key. A new grant
  is made only when `until` is not after the clock, so it starts after all others.

Its second part is about `TotpReplay` (assumes those and `TotpAssumption`):

- `ImplementsVerifier`: every behaviour of the composition is one of `Verifier`,
  so all of the above holds in it.
- `AcceptedOncePerCodeHolds`. `GrantsInv` says that two promises for one code are
  disjoint in time; what is missing is that they cannot be. `OnTimeInv` adds when
  promises are made: a call the store has not decided on found its code right at
  `readAt`, at most `MaxDelay` ago, and the store's reading is not before that.
  A promise therefore starts before `Closes(k) + MaxDelay` and ends no earlier
  than `Opens(k) + TTL` (`WithinLife`). `PromiseOutlivesCode` is the arithmetic:
  the second is not before the first, so two such promises overlap.

`ClockSkewDetectorProofs` (assumes `ConstantsAssumption`: a positive capacity,
thresholds and scale, finitely many possible samples):

- `DetectorInv`: the ring holds the last samples from the slot that is written
  next, around the end, and its running sum and count are theirs (`RingHolds`);
  who updates the average holds the mutex and has put a sample in
  (`UpdatesUnderLock`), without which `NoLostUpdate` is not inductive.
- `Between(lo, hi)`, for any lo <= 0 <= hi: if all samples are in between, so are
  the offset, the average and what a Record in flight has loaded. Rounding, the
  weighted mean and the division by the number of samples each keep it
  (`RoundedWithin`, `SmoothedNumWithin`, `AverageWithin`).

`TrackedTOTPProofs` (assumes `TrackedAssumption`; from it, that of the detector):
takes both invariants of the detector over, the second with 0 and the drift as
bounds. A match is the drift less the offset that was read (`LeftError`), so it
is between 0 and the drift if that offset is: the feedback keeps the samples, and
they keep the correction, in bounds. A code within the window is then always
found.

`OTPInstanceProofs` (assumes `InstanceAssumption`): `InstanceInv` says for every
caller what its loop has found so far (`Scan`: a match has been seen, or no
counter tested so far is that of the code), for every answer of its batch that it
is right (`AnswerSound`), and that a key other than the secret is met only after
the flag was set (`SecretSafe`: until then the bytes, the header and every pooled
key are whole). `RefusalsAreFinal` follows from it as an action property.

`WasmBindingsProofs` (assumes `WasmAssumption`: the shape of requests, and that
`EqBytes` is equality on their contexts): `WasmInv` adds that the buffer belongs
to a host that no other came between, and holds what it wrote or nothing
(`OwnsBuffer`); that generate, between its readings, works on the request in the
buffer (`Generating`); and that a code is that of its request, made in a step that
has begun, with `expires_at` no later than the end of the step of the second
reading (`Genuine`). A fresh code is then exactly `crossed` steps behind
(`FreshMatches`).

`EncodingsProofs` (assumes what section 2 says of the inputs, `WidthsAssumption`,
`IntAssumption`, `WordAssumption`, `ContextAssumption`). The state is only the input at hand
(`JobInv`); the work is in the operators, for inputs of any length:

- Loops. `LoopExists` says that a recursive function that is defined turn by turn
  is what its turns leave; an invariant of the loop is then proved by induction on
  the number of turns.
- Secrets. The invariant (`Reading`) is that after k digits the decoder holds the
  first 5k \div 8 bytes of the secret, and in `buffer` the bits that are left.
  `DigitShifts` is one turn, for each number of bits that may be left;
  `SpelledIsDecoded` carries it over texts with separators and of either case.
- URIs. `EncodedDecodes`: what PercentEncode writes reads back, since an encoded
  byte is one plain character or a complete escape. `PairsUnion`: the pairs of a
  query in two parts are those of the parts, provided the second one starts at a
  separator, and no value contains one.
- Payloads cut short. A turn over the cut data is the turn over the whole data, or
  an error, or it ends there (`PayloadTurnCut`); the accounts read so far only
  grow (`PayloadGrows`), so what was read is a beginning of the whole.
- Round trips of payloads. A varint and a string of bytes read back from wherever
  they lie in the data (`VarintReadsBack`, `BytesReadBack`), and so does a field.
  `LoopFollows` then runs the loop along the fields that were written.
  `AccountReadBack` is that for an account, with or without unknown fields
  in front of it and behind it; for a payload, `Yields` says what the data so far is read as, and
  `Also` that the same is read behind an unknown field, and both are kept by
  appending a field. The result is an exact account of what an import yields and
  why it may fail (`ExportAlso`), from which both theorems follow.
  Base64 is the same per group of three bytes, in both alphabets (`TextReadsBack`,
  `StdReadsBack`), and a line break that was put in is cut out again
  (`BrokenText`).
- Contexts. The names are sorted in one way (`SortStringsLists`); in a plain
  context no name has an `=` and no value a NUL, so the string is split at the
  first of each (`FieldsReadBack`, `PlainFields`). `ContextsStayApart` is about
  every sequence of setter calls, and promises something of those that leave both
  contexts plain: of the others it would be false.
- Origins. What is trimmed and cut off at `#`, `?` and `/` is what `after` begins
  with; with a scheme, the first `/` behind it ends the host.
- Comparisons. Numbers of a word with the same bits are equal (`BitsInjective`),
  and the sign bit of w | -w is set unless w is 0 (`NonzeroIsSign`).

`DataFacts` holds what the proofs need to know of data: induction stated for a
*set* of numbers rather than for a predicate (`InductionOnSet`), which the provers
can instantiate; that a loop has a value after every turn (`LoopExists`); largest
and smallest elements; sequences that are put together and taken apart; and the
arithmetic of digits of five bits.

Only model-checked: liveness (`SettlesAtHalf`, `CallsReturn`), which is out of the
prover's reach.

## 6. Not modelled

- Hashing, truncation and the formatting of digits: a code is identified with
  what it is computed from, so two inputs never share a code by chance.
- Configuration, builders, helpers, errors: setters and wrappers without state;
  key generation: two length checks around crypto/rand; metrics: counters that
  nothing in the library reads.
- Timing: that the comparisons take constant time is not visible in a model.
- Unicode: white space and case outside ASCII, and invalid UTF-8. `TrimSpace`,
  `ToLower` and `NormalizeBase32Secret` are those of ASCII texts.
- A 32-bit int, on which the field number of a tag may be cut off.
- net/url and encoding/json: a URI is its scheme and data parameter, a JSON text
  is a record and its length.
- The pooled buffers of `Verifier` and DecodeBase32: they matter only to a store
  that keeps the slice. Overflow of `now + ttl` is outside any documented ttl.
- Objects that share a secret's slice, providers that return their own buffer,
  and concurrent ClearSecret calls (see section 4).

## 7. Plan

What is left: objects that share a secret and providers that return their buffer,
as a second object in `OTPInstance`; a proof of the two liveness properties once
the prover supports fairness.
