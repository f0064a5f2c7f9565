------------------------ MODULE MCClockSkewDetector ------------------------
(* Small instances of ClockSkewDetector for TLC. *)
EXTENDS ClockSkewDetector

Offsets == {-1, 0, 2}

Symmetry == Permutations(Threads)

=============================================================================
