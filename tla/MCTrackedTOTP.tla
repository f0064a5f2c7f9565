--------------------------- MODULE MCTrackedTOTP ---------------------------
(* Small instances of TrackedTOTP for TLC. *)
EXTENDS TrackedTOTP, TLC

AllDrifts == -3 .. 3

Symmetry == Permutations(Threads)

=============================================================================
