-------------------------- MODULE MCProjectHandoff -------------------------
(* Values for TLC: a hash and a path, three turns of two sessions. *)
EXTENDS ProjectHandoff, TLC

CONSTANTS hash, path, s1, s2

MCIdentities == <<hash, path>>
MCTurns == <<[project |-> hash, session |-> s1],
             [project |-> path, session |-> s2],
             [project |-> hash, session |-> s1]>>
Symmetric == Permutations(Editors)
=============================================================================
