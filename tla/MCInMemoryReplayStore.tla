----------------------- MODULE MCInMemoryReplayStore -----------------------
(* Small instances of InMemoryReplayStore for TLC. *)
EXTENDS InMemoryReplayStore

Symmetry == Permutations(Threads) \cup Permutations(Keys)

=============================================================================
