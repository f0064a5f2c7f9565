------------------------ MODULE InMemoryReplayStore ------------------------
(***************************************************************************)
(* InMemoryReplayStore of src/replay_store.go: the expiry of every         *)
(* recorded key in a map, the insertion order in a slice, a lazy sweep of  *)
(* expired keys and batch eviction when the map is full.                   *)
(*                                                                         *)
(* CheckAndRecord reads the clock BEFORE it takes the mutex, so the        *)
(* reading and the critical section are two steps: other calls, sweeps and *)
(* any amount of time may come between them.  The critical section itself  *)
(* is one step, because everything it touches is behind the mutex.         *)
(*                                                                         *)
(* until and newer are history variables: they are never read by the       *)
(* store's actions.                                                        *)
(***************************************************************************)
EXTENDS Integers, FiniteSets, SequencesExt

CONSTANTS
    Threads,        \* goroutines sharing the store
    Keys,           \* replay keys
    TTLs,           \* lifetimes callers ask for
    MaxSize,        \* maxSize of NewInMemoryReplayStore
    SweepEvery,     \* sweepEvery, 30s in the code
    EvictDivisor,   \* 10 in the code: a batch is a tenth of the map
    NoCall,         \* a thread that is not inside CheckAndRecord
    MaxClock        \* bound on the clock

Calls == [key : Keys, now : Nat, ttl : TTLs]

ASSUME ConstantsAssumption ==
    /\ TTLs \subseteq Nat
    /\ MaxSize \in Nat
    /\ SweepEvery \in Nat
    /\ EvictDivisor \in Nat \ {0}
    /\ MaxClock \in Nat

ASSUME NoCallAssumption == NoCall \notin Calls

VARIABLES
    clock,      \* real time, the one time.Now() reads
    call,       \* call[t]: key, ttl and clock reading of t's CheckAndRecord
    reply,      \* reply[t]: what t's last CheckAndRecord returned
    entries,    \* the map: recorded key -> expiry
    order,      \* the slice: keys in insertion order
    nextSweep,  \* time after which a call sweeps first
    until,      \* history: end of the last promise for a key, 0 if given up
    newer       \* history: keys recorded after the last recording of a key

storeVars == <<entries, order, nextSweep>>
vars == <<clock, call, reply, storeVars, until, newer>>

(* time.Time{}: every reading is after it. *)
ZeroTime == -1

Init ==
    /\ clock = 1
    /\ call  = [t \in Threads |-> NoCall]
    /\ reply = [t \in Threads |-> "none"]
    /\ entries = <<>>
    /\ order = <<>>
    /\ nextSweep = ZeroTime
    /\ until = [k \in Keys |-> 0]
    /\ newer = [k \in Keys |-> {}]

Tick ==
    /\ clock < MaxClock
    /\ clock' = clock + 1
    /\ UNCHANGED <<call, reply, storeVars, until, newer>>

-----------------------------------------------------------------------------
(* The helpers that run under the mutex.  A store is its map and its slice. *)

Without(f, S) == Restrict(f, DOMAIN f \ S)

Size(s) == Cardinality(DOMAIN s.entries)

(* The loop that rebuilds the slice: the keys of S, in the order of list. *)
KeptOf(list, S) ==
    LET newOrder[n \in 0 .. Len(list)] ==
            IF n = 0 THEN <<>>
            ELSE IF list[n] \in S THEN Append(newOrder[n - 1], list[n]) ELSE newOrder[n - 1]
    IN  newOrder[Len(list)]

(* Off by one: an entry is swept one tick before its promise ends. *)
SweepExpired_Early(s, now) ==
    LET dead == {k \in Range(s.order) \cap DOMAIN s.entries : s.entries[k] <= now + 1}
        live == {k \in DOMAIN s.entries : s.entries[k] > now + 1}
    IN  [entries |-> Without(s.entries, dead), order |-> KeptOf(s.order, live)]

(* Only keys that the slice lists are visited, and deleted when expired. *)
SweepExpired(s, now) ==
    LET dead == {k \in Range(s.order) \cap DOMAIN s.entries : s.entries[k] <= now}
        live == {k \in DOMAIN s.entries : s.entries[k] > now}
    IN  [entries |-> Without(s.entries, dead), order |-> KeptOf(s.order, live)]

BatchSize(len) == Max({len \div EvictDivisor, 1})

(* Takes the batch from the wrong end of the slice. *)
EvictBatch_Newest(s) ==
    LET n == Min({BatchSize(Size(s)), Len(s.order)})
        rest == Len(s.order) - n
    IN  [entries |-> Without(s.entries, Range(SubSeq(s.order, rest + 1, Len(s.order)))),
         order   |-> SubSeq(s.order, 1, rest)]

EvictBatch(s) ==
    LET n == Min({BatchSize(Size(s)), Len(s.order)})
    IN  [entries |-> Without(s.entries, Range(SubSeq(s.order, 1, n))),
         order   |-> SubSeq(s.order, n + 1, Len(s.order))]

(* The old position of a re-recorded key stays in the slice. *)
RemoveFromOrder_Not(s, k) == s

RemoveFromOrder(s, k) ==
    [entries |-> s.entries,
     order   |-> IF k \in DOMAIN s.entries THEN RemoveFirst(s.order, k) ELSE s.order]

AddEntry(s, k, expireAt) ==
    [entries |-> [x \in DOMAIN s.entries \cup {k} |->
                     IF x = k THEN expireAt ELSE s.entries[x]],
     order   |-> Append(s.order, k)]

-----------------------------------------------------------------------------
(* The operations. *)

(* Swapped sign: a promise that ends before it starts. *)
ExpireAt_Minus(now, ttl) == now - ttl

ExpireAt(now, ttl) == now + ttl

(* CheckAndRecord up to the Lock: the reading every later test uses. *)
ReadClock(t, k, ttl) ==
    /\ call[t] = NoCall
    /\ call'  = [call EXCEPT ![t] = [key |-> k, now |-> clock, ttl |-> ttl]]
    /\ reply' = [reply EXCEPT ![t] = "none"]
    /\ UNCHANGED <<clock, storeVars, until, newer>>

(* The lazy sweep at the start of the critical section. *)
LazySwept(now) ==
    LET s == [entries |-> entries, order |-> order]
    IN  IF now > nextSweep THEN SweepExpired(s, now) ELSE s

NextSweepAfter(now) == IF now > nextSweep THEN now + SweepEvery ELSE nextSweep

(* Off by one: an entry counts at the very instant it expires. *)
IsRecorded_Late(s, k, now) == k \in DOMAIN s.entries /\ s.entries[k] >= now

IsRecorded(s, k, now) == k \in DOMAIN s.entries /\ s.entries[k] > now

(* A full map is swept, and when that was not enough a batch is evicted. *)
SweptIfFull(s, now) == IF Size(s) >= MaxSize THEN SweepExpired(s, now) ELSE s

(* Off by one: evicts only once the map has outgrown maxSize. *)
EvictedIfFull_Late(s) == IF Size(s) > MaxSize THEN EvictBatch(s) ELSE s

EvictedIfFull(s) == IF Size(s) >= MaxSize THEN EvictBatch(s) ELSE s

Return(t, r) ==
    /\ call'  = [call EXCEPT ![t] = NoCall]
    /\ reply' = [reply EXCEPT ![t] = r]

(* The critical section when the key is recorded and has not expired. *)
RejectReplay(t) ==
    LET now == call[t].now
        s1  == LazySwept(now)
    IN  /\ call[t] # NoCall
        /\ IsRecorded(s1, call[t].key, now)
        /\ entries' = s1.entries
        /\ order' = s1.order
        /\ nextSweep' = NextSweepAfter(now)
        /\ Return(t, "replay")
        /\ UNCHANGED <<clock, until, newer>>

(* The critical section when the key is new, or recorded but expired. *)
RecordFirst(t) ==
    LET now == call[t].now
        k   == call[t].key
        exp == ExpireAt(now, call[t].ttl)
        s1  == LazySwept(now)
        s2  == SweptIfFull(s1, now)
        s3  == EvictedIfFull(s2)
        s4  == AddEntry(RemoveFromOrder(s3, k), k, exp)
        evicted == DOMAIN s2.entries \ DOMAIN s3.entries
    IN  /\ call[t] # NoCall
        /\ ~ IsRecorded(s1, k, now)
        /\ entries' = s4.entries
        /\ order' = s4.order
        /\ nextSweep' = NextSweepAfter(now)
        /\ Return(t, "first")
        /\ until' = [x \in Keys |-> IF x = k THEN exp
                                    ELSE IF x \in evicted THEN 0 ELSE until[x]]
        /\ newer' = [x \in Keys |-> IF x = k \/ x \notin DOMAIN s3.entries
                                    THEN {} ELSE newer[x] \cup {k}]
        /\ UNCHANGED clock

CheckAndRecord(t) == RejectReplay(t) \/ RecordFirst(t)

Reset ==
    /\ entries' = <<>>
    /\ order' = <<>>
    /\ nextSweep' = ZeroTime
    /\ until' = [k \in Keys |-> 0]
    /\ newer' = [k \in Keys |-> {}]
    /\ UNCHANGED <<clock, call, reply>>

Next ==
    \/ Tick
    \/ \E t \in Threads, k \in Keys, ttl \in TTLs : ReadClock(t, k, ttl)
    \/ \E t \in Threads : CheckAndRecord(t)
    \/ Reset

Spec == Init /\ [][Next]_vars

-----------------------------------------------------------------------------
(* Properties. *)

(* The type of every variable; readings and expiries are times.  The slice  *)
(* is typed in OrderListsEntries.                                           *)
TypeOK ==
    /\ clock \in Nat
    /\ call \in [Threads -> Calls \cup {NoCall}]
    /\ reply \in [Threads -> {"none", "first", "replay"}]
    /\ DOMAIN entries \subseteq Keys
    /\ entries \in [DOMAIN entries -> Nat]
    /\ nextSweep \in Nat \cup {ZeroTime}
    /\ until \in [Keys -> Nat]
    /\ newer \in [Keys -> SUBSET Keys]

(* A promise that still runs is in the map with exactly its expiry, however *)
(* late the calls that sweep, evict or re-record reach the mutex with the   *)
(* clock they read before it (CheckAndRecord, sweepExpiredLocked).          *)
LivePromiseRecorded ==
    \A k \in Keys : until[k] > clock => k \in DOMAIN entries /\ entries[k] = until[k]

(* The slice lists every key of the map exactly once: otherwise expired     *)
(* keys are never swept, or eviction deletes a key on behalf of an old      *)
(* position of it (removeFromOrderLocked, sweepExpiredLocked, Reset).       *)
OrderListsEntries ==
    /\ order \in Seq(Keys)
    /\ ToSet(order) = DOMAIN entries
    /\ IsInjective(order)

(* The map never outgrows maxSize; NewInMemoryReplayStore(0) still keeps    *)
(* the key just recorded (CheckAndRecord, evictBatchLocked).                *)
SizeBounded == Cardinality(DOMAIN entries) <= Max({MaxSize, 1})

(* What the next property says of a step. *)
DropsOldestOnly ==
    \A k \in Keys :
        (until[k] > clock /\ until'[k] = 0 /\ entries' # <<>>) =>
            /\ Cardinality(newer[k]) >= MaxSize - BatchSize(MaxSize)
            /\ {x \in DOMAIN entries' : newer'[x] # {}} \subseteq newer[k]

(* A promise that runs at the time of a CheckAndRecord is dropped by it     *)
(* only when almost maxSize other keys were recorded after it, and every    *)
(* key that stays was recorded after it too: eviction takes the oldest      *)
(* recordings and no more than a batch (evictBatchLocked).  The key that    *)
(* the call itself records is the only one with none recorded after it.     *)
EvictsOldestOnly == [][DropsOldestOnly]_vars

(* The store implements the interface's promise: every step of it is a step *)
(* that ReplayRegister allows.                                              *)
AtCapacity(S) == Cardinality(S) >= MaxSize
Register == INSTANCE ReplayRegister WITH held <- DOMAIN entries, Full <- AtCapacity
ImplementsRegister == Register!Spec

=============================================================================
