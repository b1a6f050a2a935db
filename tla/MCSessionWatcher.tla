------------------------- MODULE MCSessionWatcher --------------------------
\* Values for TLC: the scenarios of the three runs.
EXTENDS SessionWatcher

CONSTANTS f1, f2, f3

ThreeFiles == {f1, f2, f3}
Calm == [files |-> {f1}, lines |-> 4, pauses |-> 0, flips |-> 0, fails |-> 0,
         reads |-> 0, days |-> 0, restarts |-> 0]

\* A user who pauses, with one file; one who comes back to it a day later; a
\* store that refuses, with two files; three files, one more than MaxActive,
\* and a day in which some of them are left alone.
PausedRefusedOrOutOfReach ==
  {[Calm EXCEPT !.lines = 3, !.pauses = 2, !.flips = 1, !.fails = 1, !.reads = 1],
   [Calm EXCEPT !.lines = 3, !.pauses = 1, !.days = 1],
   [Calm EXCEPT !.files = {f1, f2}, !.fails = 2, !.restarts = 1],
   [Calm EXCEPT !.files = ThreeFiles, !.days = 1]}

PausedThenRestarted == {[Calm EXCEPT !.pauses = 1, !.restarts = 1]}
OnlyCodex == {Calm}
=============================================================================
