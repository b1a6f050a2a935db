--------------------------- MODULE GuidanceEngine ---------------------------
(***************************************************************************)
(* The deterministic rules of internal/guidance: the signals a session's   *)
(* events project to, and the decision Evaluate takes on them.  A signal   *)
(* is                                                                      *)
(*   [id, kind, tool, input, result, progress]                             *)
(* where input and result stand for fingerprints; a sequence of signals is *)
(* in the order Project sorts them into.  The loops of the Go code are     *)
(* recursive functions of the place they have reached; what they compute   *)
(* is stated declaratively in GuidanceSession.                             *)
(***************************************************************************)
EXTENDS Integers, Sequences, SequencesExt

CONSTANTS FailureRun,    \* identical failures that make a loop, 3 in the code
          InspectionRun  \* identical inspections that make a stall, 4 in the code

ASSUME RunLengths == FailureRun \in Nat \ {0} /\ InspectionRun \in Nat \ {0}

SignalKinds == {"tool.failed", "tool.completed", "progress", "validation.passed",
                "context.compacted", "session.completed"}

Kinds == {"continue", "advise", "redirect", "verify"}

Progresses(s) == s.kind = "progress" \/ s.progress

IsInspectionTool(tool) == tool \in {"read", "search", "glob", "grep"}
IsProgressTool(tool) == tool \in {"edit", "write", "notebookedit", "taskcompleted"}

IsCompletion(s) == s.kind = "session.completed"

\* A slip the runs must notice: a validation counts wherever it comes.
UnvalidatedCompletionAnyOrder(signals) ==
  LET completion == SelectLastInSeq(signals, IsCompletion)
      validated == \E i \in DOMAIN signals : signals[i].kind = "validation.passed"
  IN  IF completion = 0 \/ validated THEN <<>> ELSE <<signals[completion].id>>

\* completionNeedsValidation: the evidence, empty when none is needed.  Only
\* validations between the last progress and the last completion count.
UnvalidatedCompletion(signals) ==
  LET completion == SelectLastInSeq(signals, IsCompletion)
      progress == SelectLastInSeq(signals, Progresses)
      validated == \E i \in progress + 1 .. completion - 1 :
                     signals[i].kind = "validation.passed"
  IN  IF completion = 0 \/ validated THEN <<>> ELSE <<signals[completion].id>>

\* A slip the runs must notice: any failure continues the run, whatever it did.
SameFailureAnyAction(s, t) == s.kind = "tool.failed" /\ s.tool = t.tool

SameFailure(s, t) == /\ s.kind = "tool.failed"
                     /\ s.tool = t.tool
                     /\ s.input = t.input
                     /\ s.result = t.result

\* How many failures like the last signal end at each place: the walk of
\* trailingRepeatedFailures, read from its far end.
FailureRuns(signals) ==
  LET run[i \in 0 .. Len(signals)] ==
        IF i = 0 THEN 0
        ELSE IF SameFailure(signals[i], signals[Len(signals)]) THEN run[i - 1] + 1 ELSE 0
  IN  run

\* The ids of the last n signals, in their order.
LastIds(signals, n) == [i \in 1 .. n |-> signals[Len(signals) - n + i].id]

\* trailingRepeatedFailures walks back from the last signal.
RepeatedFailures(signals) ==
  IF FailureRuns(signals)[Len(signals)] < FailureRun THEN <<>>
  ELSE LastIds(signals, FailureRun)

Inspects(s) == s.kind = "tool.completed" /\ IsInspectionTool(s.tool) /\ ~Progresses(s)

SameInspection(s, t) == s.tool = t.tool /\ s.input = t.input

\* How many inspections of the same thing end at each place; any other signal,
\* and one that inspects something else, starts the run over.
InspectionRuns(signals) ==
  LET run[i \in 0 .. Len(signals)] ==
        IF i = 0 THEN 0
        ELSE IF ~Inspects(signals[i]) THEN 0
        ELSE IF run[i - 1] > 0 /\ ~SameInspection(signals[i - 1], signals[i]) THEN 1
        ELSE run[i - 1] + 1
  IN  run

\* repeatedInspectionWithoutProgress.
RepeatedInspections(signals) ==
  IF InspectionRuns(signals)[Len(signals)] < InspectionRun THEN <<>>
  ELSE LastIds(signals, InspectionRun)

Decision(kind, evidence) == [kind |-> kind, evidence |-> evidence]

Continue == Decision("continue", <<>>)

\* Evaluate: the first rule that fires decides.
Evaluate(signals) ==
  IF signals = <<>> THEN Continue
  ELSE LET unvalidated == UnvalidatedCompletion(signals)
           failures == RepeatedFailures(signals)
           inspections == RepeatedInspections(signals)
           last == Last(signals)
       IN  CASE unvalidated # <<>> -> Decision("verify", unvalidated)
             [] unvalidated = <<>> /\ failures # <<>> -> Decision("redirect", failures)
             [] unvalidated = <<>> /\ failures = <<>> /\ last.kind = "context.compacted" ->
                  Decision("advise", <<last.id>>)
             [] unvalidated = <<>> /\ failures = <<>> /\ last.kind # "context.compacted"
                /\ inspections # <<>> -> Decision("advise", inspections)
             [] OTHER -> Continue
=============================================================================
