--------------------------- MODULE ReplayRegister ---------------------------
(***************************************************************************)
(* What a ReplayStore promises to its callers (the interface at            *)
(* src/replay_store.go:8-11, described in                                  *)
(* docs/distributed_replay_protection.md), with none of the bookkeeping    *)
(* an implementation needs.                                                *)
(*                                                                         *)
(* A call reads the clock, and later takes effect in one step.  A call     *)
(* that takes effect as "first" makes a promise: until now + ttl, measured *)
(* from the caller's own reading, no other call for the key is answered    *)
(* "first".  Promises are given up only by Reset, or by a full store.      *)
(***************************************************************************)
EXTENDS Integers

CONSTANTS
    Threads,    \* goroutines that call the store
    Keys,       \* replay keys: a code with its context, see replayKey
    TTLs,       \* lifetimes callers ask for
    Full(_),    \* Full(S): a store that holds the keys S may drop live promises
    NoCall,     \* a thread that is not inside CheckAndRecord
    MaxClock    \* bound on the clock

VARIABLES
    clock,      \* real time
    call,       \* call[t]: the call t is inside of, with its clock reading
    reply,      \* reply[t]: what t's last call returned
    held,       \* keys the store holds, expired ones included
    until       \* until[k]: end of the last promise made for k, 0 if given up

vars == <<clock, call, reply, held, until>>

Calls == [key : Keys, now : Nat, ttl : TTLs]

Init ==
    /\ clock = 1
    /\ call  = [t \in Threads |-> NoCall]
    /\ reply = [t \in Threads |-> "none"]
    /\ held  = {}
    /\ until = [k \in Keys |-> 0]

Tick ==
    /\ clock < MaxClock
    /\ clock' = clock + 1
    /\ UNCHANGED <<call, reply, held, until>>

(* A thread enters CheckAndRecord and reads the clock. *)
Begin(t, k, ttl) ==
    /\ call[t] = NoCall
    /\ call'  = [call EXCEPT ![t] = [key |-> k, now |-> clock, ttl |-> ttl]]
    /\ reply' = [reply EXCEPT ![t] = "none"]
    /\ UNCHANGED <<clock, held, until>>

Answer(t, r) ==
    /\ call'  = [call EXCEPT ![t] = NoCall]
    /\ reply' = [reply EXCEPT ![t] = r]

(* The key is not under a promise any more: make a new one.  Expired keys   *)
(* may be dropped; live ones only when dropping the expired leaves it full. *)
FirstSeen(t) ==
    LET c == call[t] IN
    /\ c # NoCall
    /\ until[c.key] <= clock
    /\ \E expired \in SUBSET held : \E lost \in SUBSET (held \ expired) :
          /\ \A k \in expired : until[k] <= clock
          /\ lost # {} => Full(held \ expired)
          /\ held'  = (held \ (expired \cup lost)) \cup {c.key}
          /\ until' = [k \in Keys |-> IF k = c.key THEN c.now + c.ttl
                                      ELSE IF k \in lost THEN 0 ELSE until[k]]
    /\ Answer(t, "first")
    /\ UNCHANGED clock

(* The key was under a promise when the caller read the clock. *)
Replay(t) ==
    LET c == call[t] IN
    /\ c # NoCall
    /\ c.key \in held
    /\ until[c.key] > c.now
    /\ \E expired \in SUBSET (held \ {c.key}) :
          /\ \A k \in expired : until[k] <= clock
          /\ held' = held \ expired
    /\ Answer(t, "replay")
    /\ UNCHANGED <<clock, until>>

(* Every promise is given up. *)
Reset ==
    /\ held'  = {}
    /\ until' = [k \in Keys |-> 0]
    /\ UNCHANGED <<clock, call, reply>>

Next ==
    \/ Tick
    \/ \E t \in Threads, k \in Keys, ttl \in TTLs : Begin(t, k, ttl)
    \/ \E t \in Threads : FirstSeen(t) \/ Replay(t)
    \/ Reset

Spec == Init /\ [][Next]_vars

=============================================================================
