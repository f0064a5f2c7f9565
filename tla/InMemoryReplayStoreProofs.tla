--------------------- MODULE InMemoryReplayStoreProofs ---------------------
(***************************************************************************)
(* Proofs about InMemoryReplayStore, for every set of threads and keys,    *)
(* every maxSize, batch size and sweep interval.                           *)
(***************************************************************************)
EXTENDS InMemoryReplayStore, DataFacts

-----------------------------------------------------------------------------
(* What the helpers do to the map.  None of these needs to know the slice:  *)
(* whatever it lists, only expired keys are swept, and eviction and sweep   *)
(* leave the expiry of the keys they keep alone.                            *)

IsMap(e) == DOMAIN e \subseteq Keys /\ e \in [DOMAIN e -> Nat]

(* smaller holds some of the keys of larger, with the same expiries. *)
SubMap(smaller, larger) ==
    /\ DOMAIN smaller \subseteq DOMAIN larger
    /\ \A k \in DOMAIN smaller : smaller[k] = larger[k]

(* Deleting keys from the map leaves a map with the other expiries. *)
LEMMA WithoutIsSubMap ==
    ASSUME NEW e, IsMap(e), NEW S
    PROVE  IsMap(Without(e, S)) /\ SubMap(Without(e, S), e)
  BY DEF IsMap, SubMap, Without, Restrict

(* sweepExpiredLocked deletes expired keys only. *)
LEMMA SweepDropsExpired ==
    ASSUME NEW s, IsMap(s.entries), NEW now \in Nat
    PROVE  LET w == SweepExpired(s, now).entries IN
           /\ IsMap(w)
           /\ SubMap(w, s.entries)
           /\ \A k \in DOMAIN s.entries \ DOMAIN w : s.entries[k] <= now
  <1> DEFINE dead == {k \in Range(s.order) \cap DOMAIN s.entries : s.entries[k] <= now}
  <1>1. SweepExpired(s, now).entries = Without(s.entries, dead)
    BY DEF SweepExpired
  <1>2. DOMAIN Without(s.entries, dead) = DOMAIN s.entries \ dead
    BY DEF Without, Restrict
  <1> QED BY <1>1, <1>2, WithoutIsSubMap

(* evictBatchLocked changes no expiry of a key it keeps. *)
LEMMA EvictKeepsExpiries ==
    ASSUME NEW s, IsMap(s.entries)
    PROVE  IsMap(EvictBatch(s).entries) /\ SubMap(EvictBatch(s).entries, s.entries)
  <1> DEFINE n == Min({BatchSize(Size(s)), Len(s.order)})
  <1>1. EvictBatch(s).entries = Without(s.entries, Range(SubSeq(s.order, 1, n)))
    BY DEF EvictBatch
  <1> QED BY <1>1, WithoutIsSubMap

(* What the critical section of a call that is answered "first" does to the *)
(* map: expired keys are swept, live ones are dropped only from a full map, *)
(* and the key is entered with the expiry computed from the reading.        *)
RecordEffect(t, swept, kept) ==
    LET k == call[t].key  now == call[t].now  exp == now + call[t].ttl IN
    /\ IsMap(swept) /\ SubMap(swept, entries)
    /\ \A x \in DOMAIN entries \ DOMAIN swept : entries[x] <= now
    /\ IsMap(kept) /\ SubMap(kept, swept)
    /\ kept # swept => Cardinality(DOMAIN swept) >= MaxSize
    /\ k \in DOMAIN entries => entries[k] <= now
    /\ entries' = [x \in DOMAIN kept \cup {k} |-> IF x = k THEN exp ELSE kept[x]]
    /\ until' = [x \in Keys |-> IF x = k THEN exp
                                ELSE IF x \in DOMAIN swept \ DOMAIN kept
                                     THEN 0 ELSE until[x]]

(* The critical section of CheckAndRecord has that effect. *)
LEMMA RecordFirstEffect ==
    ASSUME TypeOK, NEW t \in Threads, RecordFirst(t)
    PROVE  call[t] \in Calls /\ \E swept, kept : RecordEffect(t, swept, kept)
  <1> DEFINE now == call[t].now
             k   == call[t].key
             exp == now + call[t].ttl
             s0  == [entries |-> entries, order |-> order]
             s1  == LazySwept(now)
             s2  == SweptIfFull(s1, now)
             s3  == EvictedIfFull(s2)
  <1>1. call[t] \in Calls /\ now \in Nat /\ k \in Keys
    BY DEF TypeOK, RecordFirst, Calls
  <1>2. IsMap(s0.entries) /\ s0.entries = entries
    BY DEF TypeOK, IsMap
  <1>3. /\ IsMap(s1.entries) /\ SubMap(s1.entries, entries)
        /\ \A x \in DOMAIN entries \ DOMAIN s1.entries : entries[x] <= now
    <2>1. CASE now > nextSweep
      <3>1. s1 = SweepExpired(s0, now)
        BY <2>1 DEF LazySwept
      <3> HIDE DEF s0, s1, now
      <3> QED BY <3>1, <1>1, <1>2, SweepDropsExpired
    <2>2. CASE ~ (now > nextSweep)
      <3>1. s1.entries = entries
        BY <2>2 DEF LazySwept
      <3> HIDE DEF s1
      <3> QED BY <3>1, <1>2 DEF SubMap
    <2> QED BY <2>1, <2>2
  <1>4. /\ IsMap(s2.entries) /\ SubMap(s2.entries, s1.entries)
        /\ \A x \in DOMAIN s1.entries \ DOMAIN s2.entries : s1.entries[x] <= now
    <2> HIDE DEF s1, now
    <2>1. CASE Size(s1) >= MaxSize
      BY <2>1, <1>1, <1>3, SweepDropsExpired DEF SweptIfFull
    <2>2. CASE ~ (Size(s1) >= MaxSize)
      BY <2>2, <1>3 DEF SweptIfFull, SubMap
    <2> QED BY <2>1, <2>2
  <1>5. /\ IsMap(s3.entries) /\ SubMap(s3.entries, s2.entries)
        /\ s3.entries # s2.entries => Cardinality(DOMAIN s2.entries) >= MaxSize
    <2> HIDE DEF s2
    <2>1. CASE Size(s2) >= MaxSize
      BY <2>1, <1>4, EvictKeepsExpiries DEF EvictedIfFull, Size
    <2>2. CASE ~ (Size(s2) >= MaxSize)
      BY <2>2, <1>4 DEF EvictedIfFull, SubMap
    <2> QED BY <2>1, <2>2
  <1>6. /\ ~ IsRecorded(s1, k, now)
        /\ entries' = AddEntry(RemoveFromOrder(s3, k), k, exp).entries
        /\ until' = [x \in Keys |-> IF x = k THEN exp
                                    ELSE IF x \in DOMAIN s2.entries \ DOMAIN s3.entries
                                         THEN 0 ELSE until[x]]
    BY DEF RecordFirst, ExpireAt
  <1> HIDE DEF s1, s2, s3
  <1>7. entries' = [x \in DOMAIN s3.entries \cup {k} |-> IF x = k THEN exp ELSE s3.entries[x]]
    BY <1>6 DEF AddEntry, RemoveFromOrder
  <1>8. k \in DOMAIN entries => entries[k] <= now
    BY <1>1, <1>2, <1>3, <1>6 DEF IsRecorded, SubMap, IsMap
  <1>9. SubMap(s2.entries, entries) /\ \A x \in DOMAIN entries \ DOMAIN s2.entries : entries[x] <= now
    BY <1>3, <1>4 DEF SubMap
  <1> HIDE DEF now, k, exp
  <1>10. /\ IsMap(s2.entries) /\ SubMap(s2.entries, entries)
         /\ \A x \in DOMAIN entries \ DOMAIN s2.entries : entries[x] <= now
         /\ IsMap(s3.entries) /\ SubMap(s3.entries, s2.entries)
         /\ s3.entries # s2.entries => Cardinality(DOMAIN s2.entries) >= MaxSize
    BY <1>4, <1>5, <1>9
  <1>11. RecordEffect(t, s2.entries, s3.entries)
    BY <1>6, <1>7, <1>8, <1>10 DEF now, k, exp, RecordEffect
  <1> QED BY <1>1, <1>11

(* The critical section of a call that is answered "replay": nothing but    *)
(* expired keys leaves the map, and the key was unexpired at the reading.   *)
LEMMA RejectReplayEffect ==
    ASSUME TypeOK, NEW t \in Threads, RejectReplay(t)
    PROVE  /\ call[t] \in Calls
           /\ IsMap(entries') /\ SubMap(entries', entries)
           /\ \A x \in DOMAIN entries \ DOMAIN entries' : entries[x] <= call[t].now
           /\ call[t].key \in DOMAIN entries' /\ entries[call[t].key] > call[t].now
  <1> DEFINE now == call[t].now
             s0  == [entries |-> entries, order |-> order]
             s1  == LazySwept(now)
  <1>1. call[t] \in Calls /\ now \in Nat
    BY DEF TypeOK, RejectReplay, Calls
  <1>2. IsMap(s0.entries) /\ s0.entries = entries
    BY DEF TypeOK, IsMap
  <1>3. /\ IsMap(s1.entries) /\ SubMap(s1.entries, entries)
        /\ \A x \in DOMAIN entries \ DOMAIN s1.entries : entries[x] <= now
    <2>1. CASE now > nextSweep
      <3>1. s1 = SweepExpired(s0, now)
        BY <2>1 DEF LazySwept
      <3> HIDE DEF s0, s1, now
      <3> QED BY <3>1, <1>1, <1>2, SweepDropsExpired
    <2>2. CASE ~ (now > nextSweep)
      <3>1. s1.entries = entries
        BY <2>2 DEF LazySwept
      <3> HIDE DEF s1
      <3> QED BY <3>1, <1>2 DEF SubMap
    <2> QED BY <2>1, <2>2
  <1>4. entries' = s1.entries /\ IsRecorded(s1, call[t].key, now)
    BY DEF RejectReplay
  <1> HIDE DEF s1
  <1> QED BY <1>1, <1>3, <1>4 DEF IsRecorded, SubMap

-----------------------------------------------------------------------------
(* The inductive invariant.  LivePromiseRecorded alone is not inductive: a  *)
(* sweep keeps a live promise only because no reading is ahead of the       *)
(* clock, and a rejection or re-recording is right only because the map     *)
(* holds the end of the LAST promise, not of an earlier one.                *)

ReadingsArePast == \A t \in Threads : call[t] # NoCall => call[t].now <= clock

MapHoldsPromises ==
    \A k \in Keys : IF k \in DOMAIN entries THEN entries[k] = until[k]
                                            ELSE until[k] <= clock

StoreInv == TypeOK /\ ReadingsArePast /\ MapHoldsPromises

(* The invariant contains the property that matters. *)
LEMMA StoreInvImpliesLivePromiseRecorded == StoreInv => LivePromiseRecorded
  BY DEF StoreInv, TypeOK, MapHoldsPromises, LivePromiseRecorded

(* A fresh store satisfies the invariant. *)
LEMMA InitStoreInv == Init => StoreInv
  <1> SUFFICES ASSUME Init PROVE StoreInv
    OBVIOUS
  <1>1. DOMAIN entries = {} /\ entries \in [{} -> Nat]
    BY DEF Init
  <1> QED BY <1>1 DEF Init, StoreInv, TypeOK, ReadingsArePast, MapHoldsPromises, ZeroTime

(* Types are preserved by every step. *)
LEMMA NextTypeOK == TypeOK /\ [Next]_vars => TypeOK'
  <1> SUFFICES ASSUME TypeOK, [Next]_vars PROVE TypeOK'
    OBVIOUS
  <1> USE ConstantsAssumption DEF ConstantsAssumption
  <1>1. CASE Tick
    BY <1>1 DEF Tick, TypeOK, storeVars
  <1>2. ASSUME NEW t \in Threads, NEW k \in Keys, NEW ttl \in TTLs, ReadClock(t, k, ttl)
        PROVE  TypeOK'
    BY <1>2 DEF ReadClock, TypeOK, storeVars, Calls
  <1>3. ASSUME NEW t \in Threads, RejectReplay(t)
        PROVE  TypeOK'
    <2>1. call[t] \in Calls /\ IsMap(entries')
      BY <1>3, RejectReplayEffect
    <2>2. nextSweep' \in Nat \cup {ZeroTime}
      BY <1>3, <2>1 DEF RejectReplay, NextSweepAfter, TypeOK, Calls
    <2>3. UNCHANGED <<clock, until, newer>> /\ Return(t, "replay")
      BY <1>3 DEF RejectReplay
    <2> QED BY <2>1, <2>2, <2>3 DEF Return, TypeOK, IsMap
  <1>4. ASSUME NEW t \in Threads, RecordFirst(t)
        PROVE  TypeOK'
    <2> DEFINE k == call[t].key
               exp == call[t].now + call[t].ttl
    <2>0. call[t] \in Calls
      BY <1>4, RecordFirstEffect
    <2>1. PICK swept, kept : RecordEffect(t, swept, kept)
      BY <1>4, RecordFirstEffect
    <2>2. k \in Keys /\ exp \in Nat /\ call[t].now \in Nat
      <3>1. k \in Keys /\ call[t].now \in Nat /\ call[t].ttl \in TTLs
        BY <2>0 DEF Calls
      <3>2. call[t].ttl \in Nat
        BY <3>1
      <3> QED BY <3>1, <3>2
    <2>3. DOMAIN entries' \subseteq Keys /\ entries' \in [DOMAIN entries' -> Nat]
      BY <2>1, <2>2 DEF IsMap, RecordEffect
    <2>4. until' \in [Keys -> Nat]
      BY <2>1, <2>2 DEF TypeOK, RecordEffect
    <2>5. nextSweep' \in Nat \cup {ZeroTime}
      BY <1>4, <2>2 DEF RecordFirst, NextSweepAfter, TypeOK
    <2>6. newer' \in [Keys -> SUBSET Keys]
      BY <1>4, <2>2 DEF RecordFirst, TypeOK
    <2>7. UNCHANGED clock /\ Return(t, "first")
      BY <1>4 DEF RecordFirst
    <2> QED BY <2>3, <2>4, <2>5, <2>6, <2>7 DEF Return, TypeOK
  <1>5. CASE Reset
    <2>1. DOMAIN entries' = {} /\ entries' \in [{} -> Nat]
      BY <1>5 DEF Reset
    <2> QED BY <1>5, <2>1 DEF Reset, TypeOK, ZeroTime
  <1>6. CASE UNCHANGED vars
    BY <1>6 DEF vars, storeVars, TypeOK
  <1> QED BY <1>1, <1>2, <1>3, <1>4, <1>5, <1>6 DEF Next, CheckAndRecord

(* Every step preserves the relation between map, promises and clock. *)
LEMMA NextStoreInv == StoreInv /\ [Next]_vars => StoreInv'
  <1> SUFFICES ASSUME StoreInv, [Next]_vars PROVE StoreInv'
    OBVIOUS
  <1>0. TypeOK /\ TypeOK'
    BY NextTypeOK DEF StoreInv
  <1> SUFFICES ReadingsArePast' /\ MapHoldsPromises'
    BY <1>0 DEF StoreInv
  <1> USE <1>0 DEF StoreInv
  <1>1. CASE Tick
    BY <1>1 DEF Tick, TypeOK, storeVars, ReadingsArePast, MapHoldsPromises, Calls
  <1>2. ASSUME NEW t \in Threads, NEW k \in Keys, NEW ttl \in TTLs, ReadClock(t, k, ttl)
        PROVE  ReadingsArePast' /\ MapHoldsPromises'
    BY <1>2 DEF ReadClock, TypeOK, storeVars, ReadingsArePast, MapHoldsPromises
  <1>3. ASSUME NEW t \in Threads, RejectReplay(t)
        PROVE  ReadingsArePast' /\ MapHoldsPromises'
    <2>1. /\ call[t] \in Calls /\ SubMap(entries', entries)
          /\ \A x \in DOMAIN entries \ DOMAIN entries' : entries[x] <= call[t].now
      BY <1>3, RejectReplayEffect
    <2>2. UNCHANGED <<clock, until>> /\ Return(t, "replay")
      BY <1>3 DEF RejectReplay
    <2>3. call[t].now \in Nat /\ call[t].now <= clock
      BY <1>3, <2>1 DEF ReadingsArePast, Calls, RejectReplay
    <2>4. ReadingsArePast'
      BY <2>2 DEF Return, ReadingsArePast, TypeOK
    <2>5. MapHoldsPromises'
      BY <2>1, <2>2, <2>3 DEF MapHoldsPromises, SubMap, TypeOK
    <2> QED BY <2>4, <2>5
  <1>4. ASSUME NEW t \in Threads, RecordFirst(t)
        PROVE  ReadingsArePast' /\ MapHoldsPromises'
    <2> DEFINE k == call[t].key
               now == call[t].now
               exp == now + call[t].ttl
    <2>0. call[t] \in Calls
      BY <1>4, RecordFirstEffect
    <2>1. PICK swept, kept : RecordEffect(t, swept, kept)
      BY <1>4, RecordFirstEffect
    <2>2. UNCHANGED clock /\ Return(t, "first")
      BY <1>4 DEF RecordFirst
    <2>3. now \in Nat /\ now <= clock
      BY <1>4, <2>0 DEF ReadingsArePast, Calls, RecordFirst
    <2>4. ReadingsArePast'
      BY <2>2 DEF Return, ReadingsArePast, TypeOK
    <2>5. ASSUME NEW x \in Keys
          PROVE  IF x \in DOMAIN entries' THEN entries'[x] = until'[x] ELSE until'[x] <= clock'
      <3>1. CASE x = k
        BY <3>1, <2>1 DEF RecordEffect
      <3>2. CASE x # k /\ x \in DOMAIN kept
        BY <3>2, <2>1 DEF RecordEffect, SubMap, MapHoldsPromises
      <3>3. CASE x # k /\ x \in DOMAIN swept \ DOMAIN kept
        BY <3>3, <2>1, <2>2 DEF RecordEffect, TypeOK
      <3>4. CASE x # k /\ x \in DOMAIN entries \ DOMAIN swept
        BY <3>4, <2>1, <2>2, <2>3 DEF RecordEffect, SubMap, MapHoldsPromises, TypeOK
      <3>5. CASE x # k /\ x \notin DOMAIN entries
        BY <3>5, <2>1, <2>2 DEF RecordEffect, SubMap, MapHoldsPromises
      <3> QED BY <3>1, <3>2, <3>3, <3>4, <3>5, <2>1 DEF RecordEffect, SubMap
    <2> QED BY <2>4, <2>5 DEF MapHoldsPromises
  <1>5. CASE Reset
    <2>1. DOMAIN entries' = {}
      BY <1>5 DEF Reset
    <2> QED BY <1>5, <2>1 DEF Reset, TypeOK, ReadingsArePast, MapHoldsPromises
  <1>6. CASE UNCHANGED vars
    BY <1>6 DEF vars, storeVars, TypeOK, ReadingsArePast, MapHoldsPromises
  <1> QED BY <1>1, <1>2, <1>3, <1>4, <1>5, <1>6 DEF Next, CheckAndRecord

(* The invariant holds in every reachable state. *)
THEOREM StoreInvariant == Spec => []StoreInv
  BY InitStoreInv, NextStoreInv, PTL DEF Spec

(* Every variable of the store keeps its type, whatever the interleaving of *)
(* readings, critical sections, Reset and the passing of time.              *)
THEOREM TypeCorrect == Spec => []TypeOK
  BY StoreInvariant, PTL DEF StoreInv

(* A promise that still runs is in the map with its expiry, for any number  *)
(* of goroutines whose clock readings are arbitrarily stale when they get   *)
(* the mutex.                                                               *)
THEOREM LivePromisesSurvive == Spec => []LivePromiseRecorded
  BY StoreInvariant, StoreInvImpliesLivePromiseRecorded, PTL

-----------------------------------------------------------------------------
(* Refinement: the map's keys are the keys the register holds. *)

(* Under the invariant every step of the store is a step of the register,   *)
(* or leaves the register as it is.                                         *)
LEMMA NextRefinesRegister ==
    StoreInv /\ [Next]_vars => [Register!Next]_(Register!vars)
  <1> SUFFICES ASSUME StoreInv, [Next]_vars PROVE Register!Next \/ UNCHANGED Register!vars
    OBVIOUS
  <1> USE DEF StoreInv
  <1>1. CASE Tick
    <2>1. Register!Tick
      BY <1>1 DEF Tick, storeVars, Register!Tick
    <2> QED BY <2>1 DEF Register!Next
  <1>2. ASSUME NEW t \in Threads, NEW k \in Keys, NEW ttl \in TTLs, ReadClock(t, k, ttl)
        PROVE  Register!Next
    <2>1. Register!Begin(t, k, ttl)
      BY <1>2 DEF ReadClock, storeVars, Register!Begin
    <2> QED BY <2>1 DEF Register!Next
  <1>3. ASSUME NEW t \in Threads, RejectReplay(t)
        PROVE  Register!Next
    <2> DEFINE expired == DOMAIN entries \ DOMAIN entries'
               k == call[t].key
    <2>1. /\ call[t] \in Calls /\ SubMap(entries', entries)
          /\ \A x \in DOMAIN entries \ DOMAIN entries' : entries[x] <= call[t].now
          /\ k \in DOMAIN entries' /\ entries[k] > call[t].now
      BY <1>3, RejectReplayEffect
    <2>2. call[t] # NoCall /\ UNCHANGED <<clock, until>> /\ Return(t, "replay")
      BY <1>3 DEF RejectReplay
    <2>3. call[t].now \in Nat /\ call[t].now <= clock
      BY <2>1, <2>2 DEF ReadingsArePast, Calls
    <2>4. k \in DOMAIN entries /\ until[k] > call[t].now
      BY <2>1 DEF MapHoldsPromises, SubMap, TypeOK
    <2>5. \A x \in expired : until[x] <= clock
      BY <2>1, <2>3 DEF MapHoldsPromises, TypeOK
    <2>6. expired \in SUBSET (DOMAIN entries \ {k}) /\ DOMAIN entries' = DOMAIN entries \ expired
      BY <2>1 DEF SubMap
    <2>7. Register!Replay(t)
      <3> HIDE DEF expired
      <3> QED BY <2>2, <2>4, <2>5, <2>6 DEF Register!Replay, Register!Answer, Return
    <2> QED BY <2>7 DEF Register!Next
  <1>4. ASSUME NEW t \in Threads, RecordFirst(t)
        PROVE  Register!Next
    <2> DEFINE k == call[t].key
               now == call[t].now
    <2>0. call[t] \in Calls
      BY <1>4, RecordFirstEffect
    <2>1. PICK swept, kept : RecordEffect(t, swept, kept)
      BY <1>4, RecordFirstEffect
    <2> DEFINE expired == DOMAIN entries \ DOMAIN swept
               lost == DOMAIN swept \ DOMAIN kept
    <2>2. call[t] # NoCall /\ UNCHANGED clock /\ Return(t, "first")
      BY <1>4 DEF RecordFirst
    <2>3. now \in Nat /\ now <= clock /\ k \in Keys
      BY <2>0, <2>2 DEF ReadingsArePast, Calls
    <2>4. until[k] <= clock
      <3>1. CASE k \in DOMAIN entries
        <4>1. entries[k] <= now /\ entries[k] = until[k]
          BY <2>1, <2>3, <3>1 DEF RecordEffect, MapHoldsPromises
        <4> QED BY <4>1, <2>3 DEF TypeOK
      <3>2. CASE k \notin DOMAIN entries
        BY <2>3, <3>2 DEF MapHoldsPromises
      <3> QED BY <3>1, <3>2
    <2>5. \A x \in expired : until[x] <= clock
      BY <2>1, <2>3 DEF RecordEffect, MapHoldsPromises, TypeOK
    <2>6. expired \in SUBSET DOMAIN entries /\ DOMAIN entries \ expired = DOMAIN swept
      BY <2>1 DEF RecordEffect, SubMap
    <2>7. lost # {} => AtCapacity(DOMAIN entries \ expired)
      BY <2>1, <2>6 DEF RecordEffect, AtCapacity
    <2>8. DOMAIN entries' = (DOMAIN entries \ (expired \cup lost)) \cup {k}
      BY <2>1 DEF RecordEffect, SubMap
    <2>9. until' = [x \in Keys |-> IF x = k THEN now + call[t].ttl
                                   ELSE IF x \in lost THEN 0 ELSE until[x]]
      BY <2>1 DEF RecordEffect
    <2>10. lost \in SUBSET (DOMAIN entries \ expired)
      BY <2>6
    <2>11. Register!FirstSeen(t)
      <3> HIDE DEF expired, lost
      <3> QED BY <2>2, <2>4, <2>5, <2>6, <2>7, <2>8, <2>9, <2>10
              DEF Register!FirstSeen, Register!Answer, Return
    <2> QED BY <2>11 DEF Register!Next
  <1>5. CASE Reset
    <2>1. DOMAIN entries' = {}
      BY <1>5 DEF Reset
    <2>2. Register!Reset
      BY <1>5, <2>1 DEF Reset, Register!Reset
    <2> QED BY <2>2 DEF Register!Next
  <1>6. CASE UNCHANGED vars
    BY <1>6 DEF vars, storeVars, Register!vars
  <1> QED BY <1>1, <1>2, <1>3, <1>4, <1>5, <1>6 DEF Next, CheckAndRecord

(* InMemoryReplayStore keeps the interface's promise: its behaviours are    *)
(* behaviours of ReplayRegister with the same calls, answers and promises.  *)
(* In particular a second "first" for a key never comes before the end of   *)
(* the promise, and a live promise is dropped by a full store only.         *)
THEOREM StoreImplementsRegister == Spec => ImplementsRegister
  <1>1. Init => Register!Init
    <2> SUFFICES ASSUME Init PROVE Register!Init
      OBVIOUS
    <2>1. DOMAIN entries = {}
      BY DEF Init
    <2> QED BY <2>1 DEF Init, Register!Init
  <1> QED BY <1>1, NextRefinesRegister, StoreInvariant, PTL
          DEF Spec, ImplementsRegister, Register!Spec

-----------------------------------------------------------------------------
(* The slice.  Sweeping rebuilds it in a loop, so what the loop keeps is    *)
(* proved by induction over its rounds.                                     *)

(* kept holds the elements of S among the first n of list, in their order. *)
KeptUpTo(kept, list, S, n) ==
    /\ kept \in Seq(Keys) /\ Len(kept) <= n
    /\ \A i \in 1 .. n : list[i] \in S => \E j \in 1 .. Len(kept) : kept[j] = list[i]
    /\ \A j \in 1 .. Len(kept) : kept[j] \in S /\ \E i \in 1 .. n : kept[j] = list[i]
    /\ \A i, j \in 1 .. Len(kept) :
          i < j => \E a, b \in 1 .. n : a < b /\ kept[i] = list[a] /\ kept[j] = list[b]

(* One round of the loop. *)
LEMMA KeptRound ==
    ASSUME NEW list \in Seq(Keys), NEW S, NEW n \in Nat, n + 1 <= Len(list),
           NEW kept, KeptUpTo(kept, list, S, n)
    PROVE  KeptUpTo(IF list[n + 1] \in S THEN Append(kept, list[n + 1]) ELSE kept,
                    list, S, n + 1)
  <1>1. /\ kept \in Seq(Keys) /\ Len(kept) <= n /\ Len(kept) \in Nat
        /\ \A i \in 1 .. n : list[i] \in S => \E j \in 1 .. Len(kept) : kept[j] = list[i]
        /\ \A j \in 1 .. Len(kept) : kept[j] \in S /\ \E i \in 1 .. n : kept[j] = list[i]
        /\ \A i, j \in 1 .. Len(kept) :
              i < j => \E a, b \in 1 .. n : a < b /\ kept[i] = list[a] /\ kept[j] = list[b]
    BY DEF KeptUpTo
  <1>2. list[n + 1] \in Keys /\ n + 1 \in 1 .. n + 1 /\ \A i \in 1 .. n + 1 : i \in 1 .. n \/ i = n + 1
    OBVIOUS
  <1>3. \A i \in 1 .. n : i \in 1 .. n + 1
    OBVIOUS
  <1>4. CASE list[n + 1] \notin S
    <2>1. \A i \in 1 .. n + 1 : list[i] \in S => \E j \in 1 .. Len(kept) : kept[j] = list[i]
      BY <1>1, <1>2, <1>4
    <2>2. \A j \in 1 .. Len(kept) : kept[j] \in S /\ \E i \in 1 .. n + 1 : kept[j] = list[i]
      BY <1>1, <1>3
    <2>3. \A i, j \in 1 .. Len(kept) :
              i < j => \E a, b \in 1 .. n + 1 : a < b /\ kept[i] = list[a] /\ kept[j] = list[b]
      BY <1>1, <1>3
    <2>4. Len(kept) <= n + 1
      BY <1>1
    <2> QED BY <1>1, <1>4, <2>1, <2>2, <2>3, <2>4 DEF KeptUpTo
  <1>5. CASE list[n + 1] \in S
    <2> DEFINE q == Append(kept, list[n + 1])
               c == Len(kept)
    <2>1. /\ q \in Seq(Keys) /\ Len(q) = c + 1 /\ q[c + 1] = list[n + 1]
          /\ \A j \in 1 .. c : q[j] = kept[j]
          /\ c \in Nat /\ c + 1 \in 1 .. c + 1
          /\ \A j \in 1 .. c : j \in 1 .. c + 1
          /\ \A j \in 1 .. c + 1 : j \in 1 .. c \/ j = c + 1
      BY <1>1, <1>2
    <2> HIDE DEF q
    <2>2. ASSUME NEW i \in 1 .. n + 1, list[i] \in S PROVE \E j \in 1 .. Len(q) : q[j] = list[i]
      <3>1. CASE i = n + 1
        BY <2>1, <3>1
      <3>2. CASE i \in 1 .. n
        <4>1. PICK j \in 1 .. c : kept[j] = list[i]
          BY <1>1, <2>2, <3>2
        <4> QED BY <2>1, <4>1
      <3> QED BY <1>2, <3>1, <3>2
    <2>3. ASSUME NEW j \in 1 .. Len(q) PROVE q[j] \in S /\ \E i \in 1 .. n + 1 : q[j] = list[i]
      <3>1. CASE j = c + 1
        BY <1>2, <1>5, <2>1, <3>1
      <3>2. CASE j \in 1 .. c
        <4>1. kept[j] \in S /\ q[j] = kept[j]
          BY <1>1, <2>1, <3>2
        <4>2. PICK i \in 1 .. n : kept[j] = list[i]
          BY <1>1, <3>2
        <4> QED BY <1>3, <4>1, <4>2
      <3> QED BY <2>1, <3>1, <3>2
    <2>4. ASSUME NEW i \in 1 .. Len(q), NEW j \in 1 .. Len(q), i < j
          PROVE  \E a, b \in 1 .. n + 1 : a < b /\ q[i] = list[a] /\ q[j] = list[b]
      <3>1. i \in 1 .. c /\ q[i] = kept[i]
        BY <2>1, <2>4
      <3>2. CASE j = c + 1
        <4>1. PICK a \in 1 .. n : kept[i] = list[a]
          BY <1>1, <3>1
        <4>2. a < n + 1 /\ a \in 1 .. n + 1
          OBVIOUS
        <4> QED BY <1>2, <2>1, <3>1, <3>2, <4>1, <4>2
      <3>3. CASE j \in 1 .. c
        <4>1. PICK a \in 1 .. n, b \in 1 .. n : a < b /\ kept[i] = list[a] /\ kept[j] = list[b]
          BY <1>1, <2>4, <3>1, <3>3
        <4> QED BY <1>3, <2>1, <3>1, <3>3, <4>1
      <3> QED BY <2>1, <3>2, <3>3
    <2>5. Len(q) <= n + 1
      BY <1>1, <2>1
    <2>6. KeptUpTo(q, list, S, n + 1)
      BY <2>1, <2>2, <2>3, <2>4, <2>5 DEF KeptUpTo
    <2> QED BY <1>5, <2>6 DEF q
  <1> QED BY <1>4, <1>5

(* The loop: all rounds. *)
LEMMA KeptOfKeeps ==
    ASSUME NEW list \in Seq(Keys), NEW S
    PROVE  KeptUpTo(KeptOf(list, S), list, S, Len(list))
  <1> DEFINE Round(kept, n) == IF list[n] \in S THEN Append(kept, list[n]) ELSE kept
             Upto(f, k) == /\ f = [n \in 0 .. k |-> f[n]] /\ f[0] = <<>>
                           /\ \A n \in 1 .. k : f[n] = Round(f[n - 1], n)
             Has == {k \in Nat : \E f : Upto(f, k)}
  <1>0. Len(list) \in Nat
    OBVIOUS
  <1> HIDE DEF Round
  <1>1. 0 \in Has
    <2>1. Upto([n \in 0 .. 0 |-> <<>>], 0)
      OBVIOUS
    <2> QED BY <2>1
  <1>2. ASSUME NEW k \in Nat, k \in Has PROVE k + 1 \in Has
    <2>1. PICK f : Upto(f, k)
      BY <1>2
    <2> DEFINE h == [n \in 0 .. k + 1 |-> IF n = k + 1 THEN Round(f[k], k + 1) ELSE f[n]]
    <2>2. h = [n \in 0 .. k + 1 |-> h[n]] /\ h[0] = <<>>
      BY <2>1
    <2>3. ASSUME NEW n \in 1 .. k + 1 PROVE h[n] = Round(h[n - 1], n)
      <3>1. CASE n = k + 1
        BY <3>1
      <3>2. CASE n # k + 1
        <4>1. n \in 1 .. k /\ n - 1 \in 0 .. k + 1 /\ n - 1 # k + 1 /\ n \in 0 .. k + 1
          BY <3>2
        <4> QED BY <4>1, <3>2, <2>1
      <3> QED BY <3>1, <3>2
    <2> HIDE DEF h
    <2>4. Upto(h, k + 1)
      BY <2>2, <2>3
    <2>5. \E g : Upto(g, k + 1)
      BY <2>4
    <2> HIDE DEF Upto
    <2> QED BY <2>5
  <1>3. \A k \in Nat : k \in Has
    <2> HIDE DEF Has
    <2> QED BY <1>1, <1>2, InductionOnSet
  <1> DEFINE Eq(u) == u = [n \in 0 .. Len(list) |->
                             IF n = 0 THEN <<>>
                             ELSE IF list[n] \in S THEN Append(u[n - 1], list[n]) ELSE u[n - 1]]
             u0 == CHOOSE u : Eq(u)
  <1>4. KeptOf(list, S) = u0[Len(list)]
    BY DEF KeptOf
  <1>5. \E f : Eq(f)
    <2>1. PICK f : Upto(f, Len(list))
      BY <1>0, <1>3
    <2>2. \A n \in 1 .. Len(list) : f[n] = IF list[n] \in S THEN Append(f[n - 1], list[n]) ELSE f[n - 1]
      BY <2>1 DEF Round
    <2>3. f = [n \in 0 .. Len(list) |-> f[n]] /\ f[0] = <<>>
      BY <2>1
    <2>4. \A n \in 0 .. Len(list) : n = 0 \/ n \in 1 .. Len(list)
      BY <1>0
    <2>5. \A n \in 0 .. Len(list) :
             f[n] = IF n = 0 THEN <<>>
                    ELSE IF list[n] \in S THEN Append(f[n - 1], list[n]) ELSE f[n - 1]
      BY <2>2, <2>3, <2>4
    <2>6. [n \in 0 .. Len(list) |-> f[n]] =
             [n \in 0 .. Len(list) |->
                    IF n = 0 THEN <<>>
                    ELSE IF list[n] \in S THEN Append(f[n - 1], list[n]) ELSE f[n - 1]]
      BY <2>5
    <2>7. Eq(f)
      BY <2>3, <2>6
    <2> QED BY <2>7
  <1>6. Eq(u0)
    BY <1>5
  <1> HIDE DEF u0
  <1>7. u0[0] = <<>> /\ \A n \in Nat : n + 1 <= Len(list) =>
            u0[n + 1] = IF list[n + 1] \in S THEN Append(u0[n], list[n + 1]) ELSE u0[n]
    <2> HIDE DEF Eq
    <2>1. u0 = [n \in 0 .. Len(list) |->
                  IF n = 0 THEN <<>>
                  ELSE IF list[n] \in S THEN Append(u0[n - 1], list[n]) ELSE u0[n - 1]]
      BY <1>6 DEF Eq
    <2>2. \A n \in 0 .. Len(list) :
             u0[n] = IF n = 0 THEN <<>>
                     ELSE IF list[n] \in S THEN Append(u0[n - 1], list[n]) ELSE u0[n - 1]
      BY <2>1
    <2>3. 0 \in 0 .. Len(list)
      BY <1>0
    <2>4. ASSUME NEW n \in Nat, n + 1 <= Len(list)
          PROVE  n + 1 \in 0 .. Len(list) /\ n + 1 # 0 /\ (n + 1) - 1 = n
      BY <1>0, <2>4
    <2> QED BY <2>2, <2>3, <2>4
  <1> HIDE DEF Eq
  <1> DEFINE Good == {n \in Nat : n <= Len(list) => KeptUpTo(u0[n], list, S, n)}
  <1>8. 0 \in Good
    <2>1. KeptUpTo(<<>>, list, S, 0)
      BY DEF KeptUpTo
    <2> QED BY <1>7, <2>1
  <1>9. ASSUME NEW n \in Nat, n \in Good PROVE n + 1 \in Good
    <2> SUFFICES ASSUME n + 1 <= Len(list) PROVE KeptUpTo(u0[n + 1], list, S, n + 1)
      OBVIOUS
    <2>1. KeptUpTo(u0[n], list, S, n)
      BY <1>0, <1>9
    <2> QED BY <1>7, <2>1, KeptRound
  <1>10. \A n \in Nat : n \in Good
    <2> HIDE DEF Good
    <2> QED BY <1>8, <1>9, InductionOnSet
  <1> QED BY <1>0, <1>4, <1>10

-----------------------------------------------------------------------------
(* The map and the slice together. *)

(* OrderListsEntries of a store, in terms of positions. *)
Listed(s) ==
    /\ s.order \in Seq(Keys)
    /\ \A i \in 1 .. Len(s.order) : s.order[i] \in DOMAIN s.entries
    /\ \A k \in DOMAIN s.entries : \E i \in 1 .. Len(s.order) : s.order[i] = k
    /\ \A i, j \in 1 .. Len(s.order) : s.order[i] = s.order[j] => i = j

(* The elements of thin are in list, and in the same order. *)
Thinned(thin, list) ==
    /\ Len(thin) <= Len(list)
    /\ \A i, j \in 1 .. Len(thin) :
          i < j => \E a, b \in 1 .. Len(list) : a < b /\ thin[i] = list[a] /\ thin[j] = list[b]

Store == [entries |-> entries, order |-> order]

(* What is said of a store as a record is what OrderListsEntries says of    *)
(* the variables.                                                           *)
LEMMA ListedIsOrderListsEntries == Listed(Store) <=> OrderListsEntries
  <1>1. Store.entries = entries /\ Store.order = order
    BY DEF Store
  <1>2. ASSUME order \in Seq(Keys) PROVE DOMAIN order = 1 .. Len(order)
    BY <1>2
  <1>3. ASSUME order \in Seq(Keys)
        PROVE  /\ ToSet(order) = DOMAIN entries <=>
                     /\ \A i \in 1 .. Len(order) : order[i] \in DOMAIN entries
                     /\ \A k \in DOMAIN entries : \E i \in 1 .. Len(order) : order[i] = k
               /\ IsInjective(order) <=>
                     \A i, j \in 1 .. Len(order) : order[i] = order[j] => i = j
    <2>1. ToSet(order) = {order[i] : i \in 1 .. Len(order)}
      BY <1>2, <1>3 DEF ToSet
    <2>2. IsInjective(order) <=> \A i, j \in 1 .. Len(order) : order[i] = order[j] => i = j
      BY <1>2, <1>3 DEF IsInjective
    <2>3. ToSet(order) = DOMAIN entries <=>
             /\ \A i \in 1 .. Len(order) : order[i] \in DOMAIN entries
             /\ \A k \in DOMAIN entries : \E i \in 1 .. Len(order) : order[i] = k
      <3> DEFINE D == DOMAIN entries
                 I == 1 .. Len(order)
      <3> HIDE DEF D, I
      <3>1. {order[i] : i \in I} = D <=>
               (\A i \in I : order[i] \in D) /\ (\A k \in D : \E i \in I : order[i] = k)
        OBVIOUS
      <3> QED BY <2>1, <3>1 DEF D, I
    <2> QED BY <2>2, <2>3
  <1> QED BY <1>1, <1>3, Zenon DEF Listed, OrderListsEntries

(* A slice lists as many keys as the map holds. *)
LEMMA SizeIsLen ==
    ASSUME NEW s, Listed(s)
    PROVE  IsFiniteSet(DOMAIN s.entries) /\ Size(s) = Len(s.order) /\ Len(s.order) \in Nat
  <1> DEFINE n == Len(s.order)
             f == s.order
             D == DOMAIN s.entries
  <1>1. n \in Nat /\ f \in [1 .. n -> D]
    <2>1. f \in Seq(Keys)
      BY DEF Listed
    <2>2. f = [i \in 1 .. n |-> f[i]] /\ n \in Nat
      BY <2>1
    <2>3. \A i \in 1 .. n : f[i] \in D
      BY DEF Listed
    <2> HIDE DEF f, n, D
    <2> QED BY <2>2, <2>3
  <1>2. /\ \A i, j \in 1 .. n : f[i] = f[j] => i = j
        /\ \A k \in D : \E i \in 1 .. n : f[i] = k
    BY DEF Listed
  <1> HIDE DEF f, n, D
  <1>3. f \in Bijection(1 .. n, D)
    BY <1>1, <1>2 DEF Bijection, Injection, Surjection, IsInjective
  <1>4. ExistsBijection(1 .. n, D)
    BY <1>3 DEF ExistsBijection
  <1>5. IsFiniteSet(1 .. n) /\ Cardinality(1 .. n) = n
    <2>1. IsFiniteSet(1 .. n) /\ Cardinality(1 .. n) = IF 1 > n THEN 0 ELSE n - 1 + 1
      BY <1>1, FS_Interval
    <2> QED BY <1>1, <2>1
  <1>6. IsFiniteSet(D) /\ Cardinality(D) = n
    BY <1>4, <1>5, FS_Bijection
  <1> QED BY <1>1, <1>6 DEF Size, n, D

(* sweepExpiredLocked keeps slice and map in step, and the order. *)
LEMMA SweepListed ==
    ASSUME NEW s, Listed(s), IsMap(s.entries), NEW now \in Nat
    PROVE  Listed(SweepExpired(s, now)) /\ Thinned(SweepExpired(s, now).order, s.order)
  <1> DEFINE dead == {k \in Range(s.order) \cap DOMAIN s.entries : s.entries[k] <= now}
             live == {k \in DOMAIN s.entries : s.entries[k] > now}
             list == s.order
             kept == KeptOf(s.order, live)
             w == SweepExpired(s, now)
  <1>1. w.entries = Without(s.entries, dead) /\ w.order = kept
    BY DEF SweepExpired
  <1>2. /\ list \in Seq(Keys)
        /\ \A i \in 1 .. Len(list) : list[i] \in DOMAIN s.entries
        /\ \A k \in DOMAIN s.entries : \E i \in 1 .. Len(list) : list[i] = k
        /\ \A i, j \in 1 .. Len(list) : list[i] = list[j] => i = j
    BY DEF Listed
  <1>3. Range(list) = DOMAIN s.entries
    <2>1. DOMAIN list = 1 .. Len(list)
      BY <1>2
    <2> QED BY <1>2, <2>1 DEF Range
  <1>4. DOMAIN w.entries = live
    <2>1. DOMAIN w.entries = DOMAIN s.entries \ dead
      BY <1>1 DEF Without, Restrict
    <2>2. \A k \in DOMAIN s.entries : s.entries[k] \in Nat
      BY DEF IsMap
    <2> QED BY <1>3, <2>1, <2>2
  <1>5. KeptUpTo(kept, list, live, Len(list))
    BY <1>2, KeptOfKeeps
  <1> HIDE DEF kept, w
  <1>6. /\ kept \in Seq(Keys) /\ Len(kept) <= Len(list) /\ Len(kept) \in Nat /\ Len(list) \in Nat
        /\ \A i \in 1 .. Len(list) : list[i] \in live => \E j \in 1 .. Len(kept) : kept[j] = list[i]
        /\ \A j \in 1 .. Len(kept) : kept[j] \in live
        /\ \A i, j \in 1 .. Len(kept) :
              i < j => \E a, b \in 1 .. Len(list) : a < b /\ kept[i] = list[a] /\ kept[j] = list[b]
    BY <1>2, <1>5 DEF KeptUpTo
  <1>7. ASSUME NEW k \in live PROVE \E j \in 1 .. Len(kept) : kept[j] = k
    <2>1. PICK i \in 1 .. Len(list) : list[i] = k
      BY <1>2
    <2> QED BY <1>6, <2>1
  <1>8. ASSUME NEW i \in 1 .. Len(kept), NEW j \in 1 .. Len(kept), i < j PROVE kept[i] # kept[j]
    <2>1. PICK a \in 1 .. Len(list), b \in 1 .. Len(list) :
             a < b /\ kept[i] = list[a] /\ kept[j] = list[b]
      BY <1>6, <1>8
    <2> QED BY <1>2, <2>1
  <1>9. \A i, j \in 1 .. Len(kept) : kept[i] = kept[j] => i = j
    BY <1>6, <1>8
  <1> HIDE DEF live, list
  <1>10. Listed(w)
    BY <1>1, <1>4, <1>6, <1>7, <1>9, ZenonT(40) DEF Listed
  <1> QED BY <1>1, <1>6, <1>10 DEF Thinned, w, list

(* The batch: at least one, and no more than BatchSize. *)
LEMMA BatchCount ==
    ASSUME NEW len \in Nat
    PROVE  LET n == Min({BatchSize(len), len}) IN
           /\ BatchSize(len) \in Nat
           /\ n \in 0 .. len /\ n <= BatchSize(len)
           /\ len > 0 => n > 0
  <1>1. len \div EvictDivisor \in Nat
    BY ConstantsAssumption DEF ConstantsAssumption
  <1> DEFINE q == len \div EvictDivisor
  <1> HIDE DEF q
  <1>2. q \in Nat
    BY <1>1 DEF q
  <1>3. Max({q, 1}) \in {q, 1} /\ Max({q, 1}) >= 1
    BY <1>2 DEF Max
  <1>4. BatchSize(len) \in Nat /\ BatchSize(len) >= 1
    BY <1>2, <1>3 DEF BatchSize, q
  <1> DEFINE b == BatchSize(len)
  <1> HIDE DEF b
  <1>5. b \in Nat /\ b >= 1
    BY <1>4 DEF b
  <1>6. Min({b, len}) \in {b, len} /\ Min({b, len}) <= b /\ Min({b, len}) <= len
    BY <1>5 DEF Min
  <1> QED BY <1>4, <1>5, <1>6 DEF b

(* evictBatchLocked drops the first keys of the slice, and them only. *)
LEMMA EvictListed ==
    ASSUME NEW s, Listed(s)
    PROVE  /\ Listed(EvictBatch(s)) /\ Thinned(EvictBatch(s).order, s.order)
           /\ \E n \in 0 .. Len(s.order) :
                /\ n <= BatchSize(Len(s.order)) /\ (Len(s.order) > 0 => n > 0)
                /\ Len(EvictBatch(s).order) = Len(s.order) - n
                /\ \A j \in 1 .. Len(s.order) - n : EvictBatch(s).order[j] = s.order[n + j]
  <1> DEFINE list == s.order
             L == Len(s.order)
             n == Min({BatchSize(L), L})
             front == SubSeq(list, 1, n)
             rest == SubSeq(list, n + 1, L)
             e == EvictBatch(s)
  <1>1. L \in Nat /\ Size(s) = L
    BY SizeIsLen
  <1>2. e.entries = Without(s.entries, Range(front)) /\ e.order = rest
    BY <1>1 DEF EvictBatch
  <1>3. /\ list \in Seq(Keys)
        /\ \A i \in 1 .. L : list[i] \in DOMAIN s.entries
        /\ \A k \in DOMAIN s.entries : \E i \in 1 .. L : list[i] = k
        /\ \A i, j \in 1 .. L : list[i] = list[j] => i = j
    BY DEF Listed
  <1>4. n \in 0 .. L /\ n <= BatchSize(L) /\ (L > 0 => n > 0)
    BY <1>1, BatchCount
  <1> HIDE DEF e, n
  <1>5. /\ front \in Seq(Keys) /\ Len(front) = n /\ \A j \in 1 .. n : front[j] = list[j]
        /\ rest \in Seq(Keys) /\ Len(rest) = L - n
        /\ \A j \in 1 .. L - n : rest[j] = list[n + j]
    BY <1>1, <1>3, <1>4
  <1> HIDE DEF front, rest
  <1>6. Range(front) = {list[j] : j \in 1 .. n}
    <2>1. DOMAIN front = 1 .. n
      BY <1>5
    <2> QED BY <1>5, <2>1, ZenonT(40) DEF Range
  <1>7. DOMAIN e.entries = DOMAIN s.entries \ {list[j] : j \in 1 .. n}
    BY <1>2, <1>6 DEF Without, Restrict
  <1>8. ASSUME NEW j \in 1 .. L - n PROVE n + j \in 1 .. L /\ rest[j] \in DOMAIN e.entries
    <2>1. n + j \in 1 .. L /\ \A i \in 1 .. n : i \in 1 .. L /\ i # n + j
      BY <1>1, <1>4
    <2>2. \A i \in 1 .. n : list[i] # list[n + j]
      BY <1>3, <2>1
    <2>3. list[n + j] \in DOMAIN s.entries /\ rest[j] = list[n + j]
      BY <1>3, <1>5, <2>1
    <2> QED BY <1>7, <2>1, <2>2, <2>3
  <1>9. ASSUME NEW k \in DOMAIN e.entries PROVE \E j \in 1 .. Len(rest) : rest[j] = k
    <2>1. PICK i \in 1 .. L : list[i] = k
      BY <1>3, <1>7
    <2>2. i \notin 1 .. n
      BY <1>7, <2>1
    <2>3. i - n \in 1 .. L - n /\ n + (i - n) = i
      BY <1>1, <1>4, <2>2
    <2> QED BY <1>5, <2>1, <2>3
  <1>10. ASSUME NEW i \in 1 .. Len(rest), NEW j \in 1 .. Len(rest), rest[i] = rest[j] PROVE i = j
    <2>1. n + i \in 1 .. L /\ n + j \in 1 .. L /\ list[n + i] = list[n + j]
      BY <1>5, <1>8, <1>10
    <2>2. n + i = n + j
      BY <1>3, <2>1
    <2> QED BY <1>1, <1>4, <2>2
  <1>11. ASSUME NEW i \in 1 .. Len(rest), NEW j \in 1 .. Len(rest), i < j
         PROVE  \E a, b \in 1 .. L : a < b /\ rest[i] = list[a] /\ rest[j] = list[b]
    <2>1. n + i \in 1 .. L /\ n + j \in 1 .. L /\ n + i < n + j
      BY <1>4, <1>5, <1>8, <1>11
    <2> QED BY <1>5, <2>1
  <1>12. Listed(e)
    BY <1>2, <1>5, <1>8, <1>9, <1>10 DEF Listed
  <1>13. Thinned(rest, list)
    <2>1. Len(rest) <= L
      BY <1>1, <1>4, <1>5
    <2> QED BY <1>11, <2>1 DEF Thinned
  <1> QED BY <1>2, <1>4, <1>5, <1>12, <1>13 DEF e

(* RemoveFirst of a key that is listed once. *)
LEMMA RemoveFirstDrops ==
    ASSUME NEW list \in Seq(Keys), NEW p \in 1 .. Len(list), NEW k, list[p] = k,
           \A i \in 1 .. Len(list) : list[i] = k => i = p
    PROVE  /\ RemoveFirst(list, k) \in Seq(Keys)
           /\ Len(RemoveFirst(list, k)) = Len(list) - 1
           /\ \A j \in 1 .. Len(list) - 1 :
                 RemoveFirst(list, k)[j] = list[IF j < p THEN j ELSE j + 1]
  <1> DEFINE L == Len(list)
             I == {i \in 1 .. Len(list) : list[i] = k}
             front == SubSeq(list, 1, p - 1)
             back == SubSeq(list, p + 1, L)
  <1>1. I = {p}
    OBVIOUS
  <1>2. Min({p}) = p
    BY DEF Min
  <1>3. RemoveFirst(list, k) = RemoveAt(list, p)
    <2>1. SelectInSeq(list, LAMBDA v : v = k) = p
      BY <1>1, <1>2 DEF SelectInSeq
    <2>2. \E i \in 1 .. Len(list) : list[i] = k
      OBVIOUS
    <2> QED BY <2>1, <2>2 DEF RemoveFirst
  <1>4. RemoveFirst(list, k) = front \o back
    BY <1>3 DEF RemoveAt
  <1>5. /\ L \in Nat /\ p \in Nat
        /\ front \in Seq(Keys) /\ Len(front) = p - 1 /\ \A j \in 1 .. p - 1 : front[j] = list[j]
        /\ back \in Seq(Keys) /\ Len(back) = L - p /\ \A j \in 1 .. L - p : back[j] = list[p + j]
    OBVIOUS
  <1> HIDE DEF front, back
  <1>6. /\ front \o back \in Seq(Keys) /\ Len(front \o back) = L - 1
        /\ \A j \in 1 .. L - 1 : (front \o back)[j] = IF j < p THEN front[j] ELSE back[j - (p - 1)]
    <2>0. front \in Seq(Keys) /\ back \in Seq(Keys)
      BY <1>5
    <2>1. front \o back \in Seq(Keys) /\ Len(front \o back) = Len(front) + Len(back)
      BY <2>0, ConcatProperties, Zenon
    <2>2. \A j \in 1 .. Len(front) + Len(back) :
             (front \o back)[j] = IF j <= Len(front) THEN front[j] ELSE back[j - Len(front)]
      BY <2>0, ConcatProperties, Zenon
    <2>3. Len(front) + Len(back) = L - 1 /\ \A j \in 1 .. L - 1 : j <= Len(front) <=> j < p
      BY <1>5
    <2> QED BY <1>5, <2>1, <2>2, <2>3
  <1>7. ASSUME NEW j \in 1 .. L - 1 PROVE (front \o back)[j] = list[IF j < p THEN j ELSE j + 1]
    <2>1. CASE j < p
      BY <1>5, <1>6, <2>1
    <2>2. CASE ~ (j < p)
      <3>1. j - (p - 1) \in 1 .. L - p /\ p + (j - (p - 1)) = j + 1
        BY <1>5, <2>2
      <3> QED BY <1>5, <1>6, <2>2, <3>1
    <2> QED BY <2>1, <2>2
  <1> QED BY <1>4, <1>6, <1>7

(* The end of CheckAndRecord: an old position of the key goes, and the key  *)
(* comes last.                                                              *)
LEMMA AddListed ==
    ASSUME NEW s, Listed(s), NEW k \in Keys, NEW exp
    PROVE  LET a == AddEntry(RemoveFromOrder(s, k), k, exp) IN
           /\ Listed(a)
           /\ \E rest \in Seq(Keys) :
                 /\ a.order = Append(rest, k) /\ Thinned(rest, s.order)
                 /\ \A i \in 1 .. Len(rest) : rest[i] \in DOMAIN s.entries \ {k}
                 /\ Len(rest) = IF k \in DOMAIN s.entries THEN Len(s.order) - 1 ELSE Len(s.order)
  <1> DEFINE list == s.order
             L == Len(s.order)
             D == DOMAIN s.entries
             r == RemoveFromOrder(s, k)
             rest == r.order
             a == AddEntry(r, k, exp)
  <1>1. r.entries = s.entries /\ rest = IF k \in D THEN RemoveFirst(list, k) ELSE list
    BY DEF RemoveFromOrder
  <1>2. a.order = Append(rest, k) /\ DOMAIN a.entries = D \cup {k}
    BY <1>1 DEF AddEntry
  <1>3. /\ list \in Seq(Keys) /\ L \in Nat
        /\ \A i \in 1 .. L : list[i] \in D
        /\ \A x \in D : \E i \in 1 .. L : list[i] = x
        /\ \A i, j \in 1 .. L : list[i] = list[j] => i = j
    BY DEF Listed
  <1> HIDE DEF r, rest, a, list, L, D
  <1>4. /\ rest \in Seq(Keys) /\ Len(rest) = IF k \in D THEN L - 1 ELSE L
        /\ Len(rest) <= L /\ Len(rest) \in Nat
        /\ \A j \in 1 .. Len(rest) : rest[j] \in D \ {k}
        /\ \A x \in D \ {k} : \E j \in 1 .. Len(rest) : rest[j] = x
        /\ \A i, j \in 1 .. Len(rest) : i < j =>
              \E b, c \in 1 .. L : b < c /\ rest[i] = list[b] /\ rest[j] = list[c]
    <2>1. CASE k \notin D
      <3>1. rest = list
        BY <1>1, <2>1
      <3>2. Len(rest) = L
        BY <3>1 DEF L, list
      <3> QED BY <1>3, <2>1, <3>1, <3>2
    <2>2. CASE k \in D
      <3>1. PICK p \in 1 .. L : list[p] = k
        BY <1>3, <2>2
      <3>2. L = Len(list)
        BY DEF L, list
      <3>3. /\ rest \in Seq(Keys) /\ Len(rest) = L - 1
            /\ \A j \in 1 .. L - 1 : rest[j] = list[IF j < p THEN j ELSE j + 1]
        <4>1. /\ list \in Seq(Keys) /\ p \in 1 .. Len(list) /\ list[p] = k
              /\ \A i \in 1 .. Len(list) : list[i] = k => i = p
          BY <1>3, <3>1, <3>2
        <4>2. /\ RemoveFirst(list, k) \in Seq(Keys)
              /\ Len(RemoveFirst(list, k)) = Len(list) - 1
              /\ \A j \in 1 .. Len(list) - 1 :
                    RemoveFirst(list, k)[j] = list[IF j < p THEN j ELSE j + 1]
          BY <4>1, RemoveFirstDrops, Zenon
        <4>3. rest = RemoveFirst(list, k)
          BY <1>1, <2>2
        <4> QED BY <3>2, <4>2, <4>3
      <3>4. ASSUME NEW j \in 1 .. L - 1 PROVE rest[j] \in D \ {k}
        <4> DEFINE i == IF j < p THEN j ELSE j + 1
        <4>1. i \in 1 .. L /\ i # p
          BY <1>3
        <4>2. rest[j] = list[i]
          BY <3>3
        <4> HIDE DEF i
        <4> QED BY <1>3, <3>1, <4>1, <4>2
      <3>5. ASSUME NEW x \in D \ {k} PROVE \E j \in 1 .. L - 1 : rest[j] = x
        <4>1. PICK i \in 1 .. L : list[i] = x
          BY <1>3
        <4>2. i # p
          BY <3>1, <4>1
        <4>3. CASE i < p
          <5>1. i \in 1 .. L - 1
            BY <1>3, <4>3
          <5> QED BY <3>3, <4>1, <4>3, <5>1
        <4>4. CASE i > p
          <5>1. i - 1 \in 1 .. L - 1 /\ ~ (i - 1 < p) /\ (i - 1) + 1 = i
            BY <1>3, <4>4
          <5>2. rest[i - 1] = x
            BY <3>3, <4>1, <5>1
          <5> QED BY <5>1, <5>2
        <4> QED BY <1>3, <4>2, <4>3, <4>4
      <3>6. ASSUME NEW i \in 1 .. L - 1, NEW j \in 1 .. L - 1, i < j
            PROVE  \E b, c \in 1 .. L : b < c /\ rest[i] = list[b] /\ rest[j] = list[c]
        <4> DEFINE b == IF i < p THEN i ELSE i + 1
                   c == IF j < p THEN j ELSE j + 1
        <4>1. b \in 1 .. L /\ c \in 1 .. L /\ b < c
          BY <1>3, <3>6
        <4>2. rest[i] = list[b] /\ rest[j] = list[c]
          BY <3>3
        <4> HIDE DEF b, c
        <4> QED BY <4>1, <4>2
      <3>7. L - 1 <= L /\ L - 1 \in Nat
        BY <1>3
      <3> QED BY <2>2, <3>3, <3>4, <3>5, <3>6, <3>7
    <2> QED BY <2>1, <2>2
  <1>5. Thinned(rest, list)
    BY <1>4 DEF Thinned, L, list
  <1>6. Listed(a)
    <2> DEFINE q == Append(rest, k)
               n == Len(rest)
    <2>1. /\ q \in Seq(Keys) /\ Len(q) = n + 1 /\ q[n + 1] = k /\ n \in Nat
          /\ \A j \in 1 .. n : q[j] = rest[j]
          /\ \A j \in 1 .. n + 1 : j \in 1 .. n \/ j = n + 1
          /\ n + 1 \in 1 .. n + 1 /\ \A j \in 1 .. n : j \in 1 .. n + 1
      BY <1>4
    <2> HIDE DEF q, n
    <2>2. \A j \in 1 .. Len(q) : q[j] \in D \cup {k}
      BY <1>4, <2>1 DEF n
    <2>3. \A x \in D \cup {k} : \E j \in 1 .. Len(q) : q[j] = x
      BY <1>4, <2>1 DEF n
    <2>4. ASSUME NEW i \in 1 .. n, NEW j \in 1 .. n, i < j PROVE rest[i] # rest[j]
      <3>1. PICK b \in 1 .. L, c \in 1 .. L : b < c /\ rest[i] = list[b] /\ rest[j] = list[c]
        BY <1>4, <2>4 DEF n
      <3> QED BY <1>3, <3>1
    <2>5. \A i, j \in 1 .. n : rest[i] = rest[j] => i = j
      BY <2>1, <2>4
    <2>6. \A i \in 1 .. n : rest[i] # k
      BY <1>4 DEF n
    <2>7. \A i, j \in 1 .. Len(q) : q[i] = q[j] => i = j
      BY <2>1, <2>5, <2>6
    <2>8. a.order = q
      BY <1>2 DEF q
    <2> QED BY <1>2, <2>1, <2>2, <2>3, <2>7, <2>8 DEF Listed
  <1> QED BY <1>2, <1>4, <1>5, <1>6 DEF a, r, list, L, D

(* Thinning twice is thinning. *)
LEMMA ThinnedTransitive ==
    ASSUME NEW a, NEW b, NEW c, Len(a) \in Nat, Len(b) \in Nat, Len(c) \in Nat,
           Thinned(a, b), Thinned(b, c)
    PROVE  Thinned(a, c)
  <1>1. ASSUME NEW i \in 1 .. Len(a), NEW j \in 1 .. Len(a), i < j
        PROVE  \E x, y \in 1 .. Len(c) : x < y /\ a[i] = c[x] /\ a[j] = c[y]
    <2>1. PICK u \in 1 .. Len(b), v \in 1 .. Len(b) : u < v /\ a[i] = b[u] /\ a[j] = b[v]
      BY <1>1 DEF Thinned
    <2>2. PICK x \in 1 .. Len(c), y \in 1 .. Len(c) : x < y /\ b[u] = c[x] /\ b[v] = c[y]
      BY <2>1 DEF Thinned
    <2> QED BY <2>1, <2>2
  <1>2. Len(a) <= Len(c)
    BY DEF Thinned
  <1> QED BY <1>1, <1>2 DEF Thinned

(* A list is a thinning of itself. *)
LEMMA ThinnedReflexive ==
    ASSUME NEW a, Len(a) \in Nat
    PROVE  Thinned(a, a)
  BY DEF Thinned

(* The first steps of the critical section: the lazy sweep. *)
LEMMA LazySweptListed ==
    ASSUME Listed(Store), IsMap(entries), NEW now \in Nat
    PROVE  /\ Listed(LazySwept(now)) /\ IsMap(LazySwept(now).entries)
           /\ Thinned(LazySwept(now).order, order)
  <1>1. Store.entries = entries /\ Store.order = order /\ Len(order) \in Nat
    BY DEF Store, Listed
  <1>2. CASE now > nextSweep
    <2>1. LazySwept(now) = SweepExpired(Store, now)
      BY <1>2 DEF LazySwept, Store
    <2>2. Listed(SweepExpired(Store, now)) /\ Thinned(SweepExpired(Store, now).order, order)
      BY <1>1, SweepListed
    <2>3. IsMap(SweepExpired(Store, now).entries)
      BY <1>1, SweepDropsExpired
    <2> QED BY <2>1, <2>2, <2>3
  <1>3. CASE ~ (now > nextSweep)
    <2>1. LazySwept(now) = Store
      BY <1>3 DEF LazySwept, Store
    <2> QED BY <1>1, <2>1, ThinnedReflexive
  <1> QED BY <1>2, <1>3

(* What the critical section of a call that is answered "first" does to the *)
(* slice: swept is the store before eviction, kept the store after it, and  *)
(* rest the slice before the key is appended.                               *)
OrderEffect(t, swept, kept, rest) ==
    LET k == call[t].key  exp == call[t].now + call[t].ttl IN
    /\ Listed(swept) /\ Thinned(swept.order, order)
    /\ Listed(kept)
    /\ \/ Size(swept) < MaxSize /\ kept = swept
       \/ Size(swept) >= MaxSize /\ kept = EvictBatch(swept)
    /\ rest \in Seq(Keys) /\ Thinned(rest, kept.order)
    /\ \A i \in 1 .. Len(rest) : rest[i] \in DOMAIN kept.entries \ {k}
    /\ order' = Append(rest, k)
    /\ DOMAIN entries' = DOMAIN kept.entries \cup {k}
    /\ OrderListsEntries'
    /\ until' = [x \in Keys |-> IF x = k THEN exp
                                ELSE IF x \in DOMAIN swept.entries \ DOMAIN kept.entries
                                     THEN 0 ELSE until[x]]
    /\ newer' = [x \in Keys |-> IF x = k \/ x \notin DOMAIN kept.entries
                                THEN {} ELSE newer[x] \cup {k}]

(* The critical section of CheckAndRecord has that effect. *)
LEMMA RecordFirstOrder ==
    ASSUME TypeOK, OrderListsEntries, NEW t \in Threads, RecordFirst(t)
    PROVE  call[t] \in Calls /\ \E swept, kept, rest : OrderEffect(t, swept, kept, rest)
  <1> DEFINE now == call[t].now
             k   == call[t].key
             exp == now + call[t].ttl
             s1  == LazySwept(now)
             s2  == SweptIfFull(s1, now)
             s3  == EvictedIfFull(s2)
             s4  == AddEntry(RemoveFromOrder(s3, k), k, exp)
  <1>1. call[t] \in Calls /\ now \in Nat /\ k \in Keys
    BY DEF TypeOK, RecordFirst, Calls
  <1>2. IsMap(entries) /\ Listed(Store)
    BY ListedIsOrderListsEntries DEF TypeOK, IsMap
  <1>3. /\ entries' = s4.entries /\ order' = s4.order
        /\ until' = [x \in Keys |-> IF x = k THEN exp
                                    ELSE IF x \in DOMAIN s2.entries \ DOMAIN s3.entries
                                         THEN 0 ELSE until[x]]
        /\ newer' = [x \in Keys |-> IF x = k \/ x \notin DOMAIN s3.entries
                                    THEN {} ELSE newer[x] \cup {k}]
    BY DEF RecordFirst, ExpireAt
  <1> HIDE DEF now, k
  <1>4. Listed(s1) /\ IsMap(s1.entries) /\ Thinned(s1.order, order)
    BY <1>1, <1>2, LazySweptListed
  <1> HIDE DEF s1
  <1>5. Listed(s2) /\ Thinned(s2.order, s1.order)
    <2>1. CASE Size(s1) >= MaxSize
      BY <1>1, <1>4, <2>1, SweepListed DEF SweptIfFull
    <2>2. CASE ~ (Size(s1) >= MaxSize)
      <3>1. s2 = s1 /\ Len(s1.order) \in Nat
        BY <1>4, <2>2 DEF SweptIfFull, Listed
      <3> QED BY <1>4, <3>1, ThinnedReflexive
    <2> QED BY <2>1, <2>2
  <1> HIDE DEF s2
  <1>6. Thinned(s2.order, order)
    <2>1. Len(s2.order) \in Nat /\ Len(s1.order) \in Nat /\ Len(order) \in Nat
      BY <1>4, <1>5 DEF Listed, OrderListsEntries
    <2> QED BY <1>4, <1>5, <2>1, ThinnedTransitive
  <1>7. Listed(s3)
        /\ \/ Size(s2) < MaxSize /\ s3 = s2
           \/ Size(s2) >= MaxSize /\ s3 = EvictBatch(s2)
    <2>1. Size(s2) \in Nat /\ MaxSize \in Nat
      BY <1>5, SizeIsLen, ConstantsAssumption DEF ConstantsAssumption
    <2>2. CASE Size(s2) >= MaxSize
      BY <1>5, <2>2, EvictListed DEF EvictedIfFull
    <2>3. CASE ~ (Size(s2) >= MaxSize)
      BY <1>5, <2>1, <2>3 DEF EvictedIfFull
    <2> QED BY <2>2, <2>3
  <1> HIDE DEF s3
  <1>8. Listed(s4) /\ \E rest \in Seq(Keys) :
                 /\ s4.order = Append(rest, k) /\ Thinned(rest, s3.order)
                 /\ \A i \in 1 .. Len(rest) : rest[i] \in DOMAIN s3.entries \ {k}
    BY <1>1, <1>7, AddListed
  <1>9. PICK rest \in Seq(Keys) :
                 /\ s4.order = Append(rest, k) /\ Thinned(rest, s3.order)
                 /\ \A i \in 1 .. Len(rest) : rest[i] \in DOMAIN s3.entries \ {k}
    BY <1>8
  <1>10. DOMAIN s4.entries = DOMAIN s3.entries \cup {k}
    BY DEF AddEntry, RemoveFromOrder
  <1> HIDE DEF s4
  <1>11. OrderListsEntries'
    <2>1. Listed(Store)'
      <3>1. Store'.entries = s4.entries /\ Store'.order = s4.order
        BY <1>3 DEF Store
      <3> QED BY <1>8, <3>1 DEF Listed
    <2>2. Listed(Store)' <=> OrderListsEntries'
      BY ListedIsOrderListsEntries, PTL
    <2> QED BY <2>1, <2>2
  <1>12. OrderEffect(t, s2, s3, rest)
    BY <1>3, <1>5, <1>6, <1>7, <1>9, <1>10, <1>11 DEF OrderEffect, now, k, exp
  <1> QED BY <1>1, <1>12

-----------------------------------------------------------------------------
(* The inductive invariant of the slice.  That eviction takes the oldest    *)
(* recordings follows because the slice keeps the order of recording: a key *)
(* at a later position was recorded after every key before it.              *)

LaterIsNewer ==
    \A i, j \in 1 .. Len(order) : i < j => order[j] \in newer[order[i]]

FinitelyManyNewer == \A k \in Keys : IsFiniteSet(newer[k])

OrderInv ==
    /\ OrderListsEntries
    /\ Len(order) <= Max({MaxSize, 1})
    /\ LaterIsNewer
    /\ FinitelyManyNewer

(* The bound of the slice: a store of size 0 still holds the last key. *)
LEMMA MaxSizeOrOne == Max({MaxSize, 1}) = IF MaxSize >= 1 THEN MaxSize ELSE 1
  <1>1. MaxSize \in Nat
    BY ConstantsAssumption DEF ConstantsAssumption
  <1>2. Max({MaxSize, 1}) \in {MaxSize, 1} /\ Max({MaxSize, 1}) >= 1 /\ Max({MaxSize, 1}) >= MaxSize
    BY <1>1 DEF Max
  <1> QED BY <1>1, <1>2

(* A new store lists nothing. *)
LEMMA InitOrderInv == Init => OrderInv
  <1> SUFFICES ASSUME Init PROVE OrderInv
    OBVIOUS
  <1>1. order = <<>> /\ entries = <<>> /\ newer = [k \in Keys |-> {}]
    BY DEF Init
  <1>2. OrderListsEntries
    BY <1>1 DEF OrderListsEntries, ToSet, IsInjective
  <1>3. Len(order) <= Max({MaxSize, 1})
    BY <1>1, MaxSizeOrOne, ConstantsAssumption DEF ConstantsAssumption
  <1>4. LaterIsNewer
    BY <1>1 DEF LaterIsNewer
  <1>5. FinitelyManyNewer
    BY <1>1, FS_EmptySet DEF FinitelyManyNewer
  <1> QED BY <1>2, <1>3, <1>4, <1>5 DEF OrderInv

(* RejectReplay sweeps at most. *)
LEMMA RejectOrderInv ==
    ASSUME TypeOK, OrderInv, NEW t \in Threads, RejectReplay(t)
    PROVE  OrderInv'
  <1> DEFINE now == call[t].now
             s1 == LazySwept(now)
  <1>1. now \in Nat /\ entries' = s1.entries /\ order' = s1.order /\ UNCHANGED newer
    BY DEF TypeOK, RejectReplay, Calls
  <1>2. Listed(Store) /\ IsMap(entries)
    BY ListedIsOrderListsEntries DEF OrderInv, TypeOK, IsMap
  <1>3. Listed(s1) /\ Thinned(s1.order, order)
    BY <1>1, <1>2, LazySweptListed
  <1> HIDE DEF s1, now
  <1>4. OrderListsEntries'
    <2>1. Listed(Store)'
      <3>1. Store'.entries = s1.entries /\ Store'.order = s1.order
        BY <1>1 DEF Store
      <3> QED BY <1>3, <3>1 DEF Listed
    <2>2. Listed(Store)' <=> OrderListsEntries'
      BY ListedIsOrderListsEntries, PTL
    <2> QED BY <2>1, <2>2
  <1>5. Len(order') <= Max({MaxSize, 1})
    <2>1. Len(order') <= Len(order) /\ Len(order) <= Max({MaxSize, 1})
      BY <1>1, <1>3 DEF Thinned, OrderInv
    <2>2. Len(order') \in Nat /\ Len(order) \in Nat /\ Max({MaxSize, 1}) \in Nat
      BY <1>4, MaxSizeOrOne, ConstantsAssumption DEF OrderListsEntries, OrderInv, ConstantsAssumption
    <2> QED BY <2>1, <2>2
  <1>6. ASSUME NEW i \in 1 .. Len(order'), NEW j \in 1 .. Len(order'), i < j
        PROVE  order'[j] \in newer'[order'[i]]
    <2>1. PICK a \in 1 .. Len(order), b \in 1 .. Len(order) :
             a < b /\ order'[i] = order[a] /\ order'[j] = order[b]
      BY <1>1, <1>3, <1>6 DEF Thinned
    <2> QED BY <1>1, <2>1 DEF OrderInv, LaterIsNewer
  <1>7. LaterIsNewer'
    BY <1>6 DEF LaterIsNewer
  <1>8. FinitelyManyNewer'
    BY <1>1 DEF OrderInv, FinitelyManyNewer
  <1> QED BY <1>4, <1>5, <1>7, <1>8 DEF OrderInv

(* RecordFirst appends its key, after making room in a full map. *)
LEMMA RecordOrderInv ==
    ASSUME TypeOK, OrderInv, NEW t \in Threads, RecordFirst(t)
    PROVE  OrderInv'
  <1> DEFINE k == call[t].key
  <1>1. call[t] \in Calls /\ \E swept, kept, rest : OrderEffect(t, swept, kept, rest)
    BY RecordFirstOrder DEF OrderInv
  <1>2. PICK swept, kept, rest : OrderEffect(t, swept, kept, rest)
    BY <1>1
  <1>3. k \in Keys
    BY <1>1 DEF Calls
  <1>4. /\ Listed(swept) /\ Thinned(swept.order, order) /\ Listed(kept)
        /\ \/ Size(swept) < MaxSize /\ kept = swept
           \/ Size(swept) >= MaxSize /\ kept = EvictBatch(swept)
        /\ rest \in Seq(Keys) /\ Thinned(rest, kept.order)
        /\ \A i \in 1 .. Len(rest) : rest[i] \in DOMAIN kept.entries \ {k}
        /\ order' = Append(rest, k)
        /\ OrderListsEntries'
        /\ newer' = [x \in Keys |-> IF x = k \/ x \notin DOMAIN kept.entries
                                    THEN {} ELSE newer[x] \cup {k}]
    BY <1>2 DEF OrderEffect
  <1> HIDE DEF k
  <1>5. /\ Len(order) \in Nat /\ Len(swept.order) \in Nat /\ Len(kept.order) \in Nat
        /\ Len(rest) \in Nat /\ Len(order') = Len(rest) + 1
        /\ Len(swept.order) <= Len(order) /\ Len(rest) <= Len(kept.order)
    BY <1>4 DEF Listed, Thinned, OrderInv, OrderListsEntries
  <1>6. Thinned(kept.order, swept.order)
    BY <1>4, <1>5, EvictListed, ThinnedReflexive
  <1>7. Len(order') <= Max({MaxSize, 1})
    <2>1. MaxSize \in Nat /\ Max({MaxSize, 1}) = IF MaxSize >= 1 THEN MaxSize ELSE 1
      BY MaxSizeOrOne, ConstantsAssumption DEF ConstantsAssumption
    <2>2. Len(order) <= Max({MaxSize, 1})
      BY DEF OrderInv
    <2>3. Size(swept) = Len(swept.order)
      BY <1>4, SizeIsLen
    <2>4. CASE Size(swept) < MaxSize /\ kept = swept
      BY <1>5, <2>1, <2>3, <2>4
    <2>5. CASE kept = EvictBatch(swept)
      <3>1. PICK n \in 0 .. Len(swept.order) :
               /\ Len(swept.order) > 0 => n > 0
               /\ Len(kept.order) = Len(swept.order) - n
        BY <1>4, <2>5, EvictListed
      <3> QED BY <1>5, <2>1, <2>2, <3>1
    <2> QED BY <1>4, <2>4, <2>5
  <1>8. Thinned(rest, order)
    <2>1. Thinned(rest, swept.order)
      BY <1>4, <1>5, <1>6, ThinnedTransitive
    <2> QED BY <1>4, <1>5, <2>1, ThinnedTransitive
  <1>9. \A i \in 1 .. Len(rest) : rest[i] \in Keys /\ newer'[rest[i]] = newer[rest[i]] \cup {k}
    BY <1>4
  <1>10. /\ \A i \in 1 .. Len(rest) : order'[i] = rest[i]
         /\ order'[Len(rest) + 1] = k
    BY <1>3, <1>4
  <1>11. ASSUME NEW i \in 1 .. Len(order'), NEW j \in 1 .. Len(order'), i < j
         PROVE  order'[j] \in newer'[order'[i]]
    <2>1. i \in 1 .. Len(rest) /\ order'[i] = rest[i] /\ (j \in 1 .. Len(rest) \/ j = Len(rest) + 1)
      BY <1>5, <1>10, <1>11
    <2>2. CASE j = Len(rest) + 1
      BY <1>9, <1>10, <2>1, <2>2
    <2>3. CASE j \in 1 .. Len(rest)
      <3>1. PICK a \in 1 .. Len(order), b \in 1 .. Len(order) :
               a < b /\ rest[i] = order[a] /\ rest[j] = order[b]
        BY <1>8, <1>11, <2>1, <2>3 DEF Thinned
      <3>2. rest[j] \in newer[rest[i]]
        BY <3>1 DEF OrderInv, LaterIsNewer
      <3> QED BY <1>9, <1>10, <2>1, <2>3, <3>2
    <2> QED BY <2>1, <2>2, <2>3
  <1>12. LaterIsNewer'
    BY <1>11 DEF LaterIsNewer
  <1>13. ASSUME NEW x \in Keys PROVE IsFiniteSet(newer'[x])
    <2>1. IsFiniteSet(newer[x])
      BY DEF OrderInv, FinitelyManyNewer
    <2>2. newer'[x] = {} \/ newer'[x] = newer[x] \cup {k}
      BY <1>4
    <2> QED BY <2>1, <2>2, FS_EmptySet, FS_AddElement, ZenonT(40)
  <1>14. FinitelyManyNewer'
    BY <1>13 DEF FinitelyManyNewer
  <1> QED BY <1>4, <1>7, <1>12, <1>14 DEF OrderInv

(* Every step keeps slice and map in step, and the slice in order. *)
LEMMA NextOrderInv == TypeOK /\ OrderInv /\ [Next]_vars => OrderInv'
  <1> SUFFICES ASSUME TypeOK, OrderInv, [Next]_vars PROVE OrderInv'
    OBVIOUS
  <1>1. ASSUME UNCHANGED <<order, entries, newer>> PROVE OrderInv'
    BY <1>1 DEF OrderInv, OrderListsEntries, LaterIsNewer, FinitelyManyNewer
  <1>2. CASE Tick
    BY <1>1, <1>2 DEF Tick, storeVars
  <1>3. ASSUME NEW t \in Threads, NEW k \in Keys, NEW ttl \in TTLs, ReadClock(t, k, ttl)
        PROVE  OrderInv'
    BY <1>1, <1>3 DEF ReadClock, storeVars
  <1>4. ASSUME NEW t \in Threads, CheckAndRecord(t) PROVE OrderInv'
    BY <1>4, RejectOrderInv, RecordOrderInv DEF CheckAndRecord
  <1>5. CASE Reset
    <2>1. order' = <<>> /\ entries' = <<>> /\ newer' = [k \in Keys |-> {}]
      BY <1>5 DEF Reset
    <2>2. OrderListsEntries'
      BY <2>1 DEF OrderListsEntries, ToSet, IsInjective
    <2>3. Len(order') <= Max({MaxSize, 1})
      BY <2>1, MaxSizeOrOne, ConstantsAssumption DEF ConstantsAssumption
    <2>4. LaterIsNewer'
      BY <2>1 DEF LaterIsNewer
    <2>5. FinitelyManyNewer'
      BY <2>1, FS_EmptySet DEF FinitelyManyNewer
    <2> QED BY <2>2, <2>3, <2>4, <2>5 DEF OrderInv
  <1>6. CASE UNCHANGED vars
    BY <1>1, <1>6 DEF vars, storeVars
  <1> QED BY <1>2, <1>3, <1>4, <1>5, <1>6 DEF Next

(* A running promise that a call drops was evicted from a full map, from    *)
(* the front of the slice.                                                  *)
LEMMA RecordDropsOldest ==
    ASSUME StoreInv, OrderInv, NEW t \in Threads, RecordFirst(t)
    PROVE  DropsOldestOnly
  <1> SUFFICES ASSUME NEW d \in Keys, until[d] > clock, until'[d] = 0
               PROVE  /\ Cardinality(newer[d]) >= MaxSize - BatchSize(MaxSize)
                      /\ {x \in DOMAIN entries' : newer'[x] # {}} \subseteq newer[d]
    BY DEF DropsOldestOnly
  <1> DEFINE k == call[t].key
  <1>1. call[t] \in Calls /\ \E swept, kept, rest : OrderEffect(t, swept, kept, rest)
    BY RecordFirstOrder DEF OrderInv, StoreInv
  <1>2. PICK swept, kept, rest : OrderEffect(t, swept, kept, rest)
    BY <1>1
  <1>3. k \in Keys /\ DOMAIN entries \subseteq Keys /\ clock \in Nat /\ until \in [Keys -> Nat]
        /\ call[t].now \in Nat
    BY <1>1 DEF Calls, StoreInv, TypeOK
  <1>4. d # k
    <2>1. d \in DOMAIN entries /\ entries[d] = until[d]
      BY <1>3 DEF StoreInv, MapHoldsPromises
    <2>2. k \in DOMAIN entries => entries[k] <= call[t].now
      <3>1. \E s, u : RecordEffect(t, s, u)
        BY RecordFirstEffect DEF StoreInv
      <3> QED BY <3>1 DEF RecordEffect
    <2>3. call[t].now <= clock
      BY DEF StoreInv, ReadingsArePast, RecordFirst
    <2> QED BY <1>3, <2>1, <2>2, <2>3
  <1>5. /\ Listed(swept) /\ Thinned(swept.order, order) /\ Listed(kept)
        /\ \/ Size(swept) < MaxSize /\ kept = swept
           \/ Size(swept) >= MaxSize /\ kept = EvictBatch(swept)
        /\ DOMAIN entries' = DOMAIN kept.entries \cup {k}
        /\ newer' = [x \in Keys |-> IF x = k \/ x \notin DOMAIN kept.entries
                                    THEN {} ELSE newer[x] \cup {k}]
        /\ until'[d] = IF d \in DOMAIN swept.entries \ DOMAIN kept.entries THEN 0 ELSE until[d]
    BY <1>2, <1>4 DEF OrderEffect
  <1> HIDE DEF k
  <1>6. d \in DOMAIN swept.entries /\ d \notin DOMAIN kept.entries
    BY <1>3, <1>5
  <1>7. Size(swept) >= MaxSize /\ kept = EvictBatch(swept)
    BY <1>5, <1>6
  <1> DEFINE L == Len(swept.order)
  <1>8. L \in Nat /\ Size(swept) = L
    BY <1>5, SizeIsLen
  <1>9. PICK n \in 0 .. L :
           /\ n <= BatchSize(L) /\ Len(kept.order) = L - n
           /\ \A j \in 1 .. L - n : kept.order[j] = swept.order[n + j]
    <2>1. \E n \in 0 .. Len(swept.order) :
             /\ n <= BatchSize(Len(swept.order))
             /\ Len(EvictBatch(swept).order) = Len(swept.order) - n
             /\ \A j \in 1 .. Len(swept.order) - n :
                   EvictBatch(swept).order[j] = swept.order[n + j]
      BY <1>5, EvictListed
    <2> QED BY <1>7, <2>1
  <1>10. PICK p \in 1 .. L : swept.order[p] = d
    BY <1>5, <1>6 DEF Listed
  <1>11. p <= n
    <2> SUFFICES ASSUME p > n PROVE FALSE
      BY <1>8
    <2>1. p - n \in 1 .. L - n /\ n + (p - n) = p
      BY <1>8
    <2>2. kept.order[p - n] = d /\ p - n \in 1 .. Len(kept.order)
      BY <1>9, <1>10, <2>1
    <2> QED BY <1>5, <1>6, <2>2 DEF Listed
  <1>12. ASSUME NEW x \in DOMAIN kept.entries PROVE x \in newer[d]
    <2>1. PICK j \in 1 .. Len(kept.order) : kept.order[j] = x
      BY <1>5 DEF Listed
    <2>2. n + j \in 1 .. L /\ p < n + j /\ swept.order[n + j] = x
      BY <1>8, <1>9, <1>11, <2>1
    <2>3. PICK a \in 1 .. Len(order), b \in 1 .. Len(order) :
             a < b /\ swept.order[p] = order[a] /\ swept.order[n + j] = order[b]
      BY <1>5, <2>2 DEF Thinned
    <2> QED BY <1>10, <2>2, <2>3 DEF OrderInv, LaterIsNewer
  <1>13. {x \in DOMAIN entries' : newer'[x] # {}} \subseteq newer[d]
    <2> SUFFICES ASSUME NEW x \in DOMAIN entries', newer'[x] # {} PROVE x \in newer[d]
      OBVIOUS
    <2>1. x # k
      BY <1>3, <1>5
    <2> QED BY <1>5, <1>12, <2>1
  <1>14. Cardinality(newer[d]) >= MaxSize - BatchSize(MaxSize)
    <2>1. IsFiniteSet(newer[d])
      BY DEF OrderInv, FinitelyManyNewer
    <2>2. DOMAIN kept.entries \subseteq newer[d]
      BY <1>12
    <2>3. Cardinality(DOMAIN kept.entries) = L - n
      BY <1>5, <1>9, SizeIsLen DEF Size
    <2>4. Cardinality(DOMAIN kept.entries) <= Cardinality(newer[d]) /\ Cardinality(newer[d]) \in Nat
      BY <2>1, <2>2, FS_Subset, FS_CardinalityType
    <2>5. L <= Max({MaxSize, 1}) /\ MaxSize \in Nat
          /\ Max({MaxSize, 1}) = IF MaxSize >= 1 THEN MaxSize ELSE 1
      <3>1. L <= Len(order) /\ Len(order) <= Max({MaxSize, 1}) /\ Len(order) \in Nat
        BY <1>5 DEF Thinned, OrderInv, OrderListsEntries
      <3>2. MaxSize \in Nat /\ Max({MaxSize, 1}) = IF MaxSize >= 1 THEN MaxSize ELSE 1
        BY MaxSizeOrOne, ConstantsAssumption DEF ConstantsAssumption
      <3> QED BY <1>8, <3>1, <3>2
    <2>6. BatchSize(L) \in Nat /\ BatchSize(MaxSize) \in Nat
      BY <1>8, <2>5, BatchCount
    <2>7. CASE MaxSize >= 1
      <3>1. L = MaxSize
        BY <1>7, <1>8, <2>5, <2>7
      <3> QED BY <1>8, <1>9, <2>3, <2>4, <2>6, <3>1
    <2>8. CASE MaxSize = 0
      BY <2>4, <2>6, <2>8
    <2> QED BY <2>5, <2>7, <2>8
  <1> QED BY <1>13, <1>14

(* No other step drops a running promise, but for Reset. *)
LEMMA NextDropsOldest == StoreInv /\ OrderInv /\ [Next]_vars => [DropsOldestOnly]_vars
  <1> SUFFICES ASSUME StoreInv, OrderInv, Next PROVE DropsOldestOnly
    OBVIOUS
  <1>1. ASSUME UNCHANGED until PROVE DropsOldestOnly
    <2>1. clock \in Nat /\ until \in [Keys -> Nat]
      BY DEF StoreInv, TypeOK
    <2> QED BY <1>1, <2>1 DEF DropsOldestOnly
  <1>2. CASE Tick
    BY <1>1, <1>2 DEF Tick
  <1>3. ASSUME NEW t \in Threads, NEW k \in Keys, NEW ttl \in TTLs, ReadClock(t, k, ttl)
        PROVE  DropsOldestOnly
    BY <1>1, <1>3 DEF ReadClock
  <1>4. ASSUME NEW t \in Threads, RejectReplay(t) PROVE DropsOldestOnly
    BY <1>1, <1>4 DEF RejectReplay
  <1>5. ASSUME NEW t \in Threads, RecordFirst(t) PROVE DropsOldestOnly
    BY <1>5, RecordDropsOldest
  <1>6. CASE Reset
    <2>1. entries' = <<>>
      BY <1>6 DEF Reset
    <2> QED BY <2>1 DEF DropsOldestOnly
  <1> QED BY <1>2, <1>3, <1>4, <1>5, <1>6 DEF Next, CheckAndRecord

(* The invariant of the slice holds in every reachable state. *)
THEOREM OrderInvariant == Spec => []OrderInv
  BY StoreInvariant, InitOrderInv, NextOrderInv, PTL DEF Spec, StoreInv

(* The slice lists every key of the map exactly once, after any sequence of *)
(* sweeps, evictions, re-recordings and Resets, for every maxSize.          *)
THEOREM SliceListsMap == Spec => []OrderListsEntries
  BY OrderInvariant, PTL DEF OrderInv

(* The map never outgrows maxSize, nor one key when maxSize is 0.           *)
THEOREM MapIsBounded == Spec => []SizeBounded
  <1>1. OrderInv => SizeBounded
    <2> SUFFICES ASSUME OrderInv PROVE SizeBounded
      OBVIOUS
    <2>1. Listed(Store)
      BY ListedIsOrderListsEntries DEF OrderInv
    <2>2. Cardinality(DOMAIN entries) = Len(order)
      BY <2>1, SizeIsLen DEF Size, Store
    <2> QED BY <2>2 DEF SizeBounded, OrderInv
  <1> QED BY <1>1, OrderInvariant, PTL

(* Eviction drops a running promise only when almost maxSize other keys     *)
(* were recorded after it, and keeps no key that is older than it, however  *)
(* the calls interleave (evictBatchLocked).                                 *)
THEOREM OldestAreEvicted == Spec => EvictsOldestOnly
  BY StoreInvariant, OrderInvariant, NextDropsOldest, PTL DEF Spec, EvictsOldestOnly

=============================================================================
