-------------------------- MODULE MCMemoryManager --------------------------
(* Small instances of MemoryManager for TLC. *)
EXTENDS MemoryManager, TLC

Symmetric == Permutations(ProjectIds)
=============================================================================
