---------------------------- MODULE MCTotpReplay ----------------------------
(* A small instance of TotpReplay for TLC. *)
EXTENDS TotpReplay, TLC

(* A store of capacity one: recording a second key may drop the first. *)
HoldsOne(S) == S # {}

Symmetry == Permutations(Goroutines) \cup Permutations(Verifiers)

=============================================================================
