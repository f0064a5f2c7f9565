----------------------------- MODULE TotpReplay -----------------------------
(***************************************************************************)
(* TOTP codes behind Verifiers that share a store: the service reads the   *)
(* clock to learn which codes are right (totp.go), and passes the user's   *)
(* code on to a Verifier (verifier.go), which asks the store               *)
(* (replay_store.go), which reads the clock again.                         *)
(*                                                                         *)
(* A code is identified with its counter.  No more than MaxDelay passes    *)
(* between the first reading and the store's decision: a deadline of the   *)
(* service, as a call of a remote store has one.                           *)
(***************************************************************************)
EXTENDS Verifier

CONSTANTS
    Period,     \* TOTP.period
    Window,     \* counters on each side of the current one that the service tries
    MaxDelay

(* docs/distributed_replay_protection.md:156 has the first summand of the   *)
(* TTL.  It leaves nothing for the delay.                                   *)
ASSUME TotpAssumption ==
    /\ Keys \subseteq Nat
    /\ Period \in Nat \ {0}
    /\ Window \in Nat
    /\ MaxDelay \in Nat
    /\ TTL >= (2 * Window + 1) * Period + MaxDelay

VARIABLE readAt     \* readAt[g]: the time for which g's code was found right

replayVars == <<vars, readAt>>

ReplayInit == Init /\ readAt = [g \in Goroutines |-> 0]

(* Tries one counter more on each side. *)
Expected_Wide(t) == {k \in Keys : t \div Period \in k - Window - 1 .. k + Window + 1}

(* The right codes at time t. *)
Expected(t) == {k \in Keys : t \div Period \in k - Window .. k + Window}

(* The service compares the code with the right ones, and calls. *)
Submit(g, v, k, match) ==
    /\ PassGate(g, v, k, match)
    /\ \/ ~ match /\ UNCHANGED readAt
       \/ /\ match
          /\ \E t \in 0 .. clock :
                /\ clock <= t + MaxDelay
                /\ k \in Expected(t)
                /\ readAt' = [readAt EXCEPT ![g] = t]

(* A call with a right code that the store has not decided on. *)
Undecided(g) == job[g] # NoJob /\ job[g].match /\ (job[g].at = "compare" \/ call[g] # NoCall)

TimelyTick ==
    /\ \A g \in Goroutines : Undecided(g) => clock < readAt[g] + MaxDelay
    /\ Tick
    /\ UNCHANGED readAt

(* The reading goes with the call. *)
ReplayProceed ==
    /\ Proceed
    /\ readAt' = [g \in Goroutines |-> IF job'[g] = NoJob THEN 0 ELSE readAt[g]]

ReplayNext ==
    \/ TimelyTick
    \/ \E g \in Goroutines, v \in Verifiers, k \in Keys, match \in BOOLEAN : Submit(g, v, k, match)
    \/ ReplayProceed

ReplaySpec == ReplayInit /\ [][ReplayNext]_replayVars

(* A code is accepted once, ever, on all replicas: the store forgets it     *)
(* only when no service will find it right again.  Promises that were given *)
(* up (ClearUsedCodes, a full store) are exempt.                            *)
AcceptedOncePerCode ==
    [][\A g \in Goroutines :
         (returned[g] # "true" /\ returned'[g] = "true" /\ grant[g] # NoGrant /\ grant[g].kept) =>
            \A a \in accepted : a.key # grant[g].key
      ]_replayVars

=============================================================================
