------------------------- MODULE MCDatabaseOpening --------------------------
(* Values for TLC: an old release, a broken one and the one that repairs it. *)
EXTENDS DatabaseOpening, TLC

MCPrograms == {[latest |-> 1, broken |-> FALSE],
               [latest |-> 2, broken |-> TRUE],
               [latest |-> 3, broken |-> FALSE]}

Symmetric == Permutations(Procs)
=============================================================================
