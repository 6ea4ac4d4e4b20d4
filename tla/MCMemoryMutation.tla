-------------------------- MODULE MCMemoryMutation --------------------------
(* Small instances of MemoryMutation for TLC. *)
EXTENDS MemoryMutation, TLC

Symmetry == Permutations(Attempts) \cup Permutations(ChangeSets)
=============================================================================
