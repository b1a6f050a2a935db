---------------------------- MODULE MCGuidanceHook --------------------------
(* Values for TLC: the calls a session is made of. *)
EXTENDS GuidanceHook

Call(name, tool, input, result) ==
  [name |-> name, tool |-> tool, input |-> input, result |-> result]

\* Work, its tests, a stop, a failing command and a compaction.
MCCalls == {Call("PostToolUse", "edit", "change", "done"),
            Call("PostToolUse", "bash", Tests, "pass"),
            Call("Stop", "none", "none", "none"),
            Call("PostToolUseFailure", "bash", "build", "error"),
            Call("PreCompact", "none", "none", "none")}
=============================================================================
