-------------------------- MODULE GuidanceSession ---------------------------
(***************************************************************************)
(* One session's signals as they grow, and the decision the rules of       *)
(* GuidanceEngine take at every length: what each rule promises, stated    *)
(* without the loops that compute it.                                      *)
(***************************************************************************)
EXTENDS GuidanceEngine, FiniteSets

CONSTANTS Inputs,     \* fingerprints of a tool's input
          Results,    \* and of its result
          MaxSignals  \* bound: length of a session

VARIABLE signals

\* What Project makes of one event.
Observed ==
       [kind : {"tool.failed"}, tool : {"bash"}, input : Inputs, result : Results,
        progress : {FALSE}]
  \cup [kind : {"tool.completed"}, tool : {"read"}, input : Inputs, result : Results,
        progress : {FALSE}]
  \cup [kind : {"tool.completed"}, tool : {"bash"}, input : {"none"}, result : {"none"},
        progress : {FALSE}]
  \cup [kind : {"tool.completed"}, tool : {"edit"}, input : {"none"}, result : {"none"},
        progress : {TRUE}]
  \cup [kind : {"progress"}, tool : {"none"}, input : {"none"}, result : {"none"},
        progress : {TRUE}]
  \cup [kind : {"validation.passed", "context.compacted", "session.completed"},
        tool : {"none"}, input : {"none"}, result : {"none"}, progress : {FALSE}]

SessionInit == signals = <<>>

Observe == /\ Len(signals) < MaxSignals
           /\ \E p \in Observed :
                signals' = Append(signals, [id |-> Len(signals) + 1, kind |-> p.kind,
                                            tool |-> p.tool, input |-> p.input,
                                            result |-> p.result, progress |-> p.progress])

SessionNext == Observe

SessionSpec == SessionInit /\ [][SessionNext]_signals
----------------------------------------------------------------------------
Suffix(n) == Len(signals) - n + 1 .. Len(signals)
Ids(S) == [i \in 1 .. Cardinality(S) |-> Len(signals) - Cardinality(S) + i]

Completions == {i \in DOMAIN signals : IsCompletion(signals[i])}

\* A completion follows a validation that no progress has outdated.
Validated == \E v \in DOMAIN signals :
               /\ signals[v].kind = "validation.passed"
               /\ \E c \in Completions : v < c
               /\ \A i \in DOMAIN signals : i > v => ~Progresses(signals[i])

Looping == /\ Len(signals) >= FailureRun
           /\ \E input \in Inputs, result \in Results : \A i \in Suffix(FailureRun) :
                /\ signals[i].kind = "tool.failed"
                /\ signals[i].input = input
                /\ signals[i].result = result

Stalled == /\ Len(signals) >= InspectionRun
           /\ \E input \in Inputs : \A i \in Suffix(InspectionRun) :
                /\ signals[i].kind = "tool.completed"
                /\ signals[i].tool = "read"
                /\ signals[i].input = input

\* Every decision of Evaluate is the one its rule promises, on the evidence
\* the rule names: an unvalidated completion first, then a loop of failures
\* with the same input and result, then a compaction, then a stall on the same
\* input whatever it showed, and silence otherwise
\* (engine.go, Evaluate and its three helpers).
DecisionAsPromised ==
  LET d == Evaluate(signals)
      open == Completions # {} /\ ~Validated
  IN  /\ d.kind = "verify" <=> open
      /\ open => d.evidence = <<CHOOSE c \in Completions : \A k \in Completions : k <= c>>
      /\ d.kind = "redirect" <=> ~open /\ Looping
      /\ ~open /\ Looping => d.evidence = Ids(Suffix(FailureRun))
      /\ d.kind = "advise" <=>
           /\ ~open /\ ~Looping
           /\ Stalled \/ (signals # <<>> /\ Last(signals).kind = "context.compacted")
      /\ ~open /\ Stalled => d.evidence = Ids(Suffix(InspectionRun))
      /\ d.kind = "continue" => d.evidence = <<>>

\* A demand for validation is only ever lifted by a completion, and by one
\* that a validation precedes with no progress in between: neither more work
\* nor a validation that comes after the claim of completion lifts it.
VerifyLiftedByValidatedCompletion ==
  [][Evaluate(signals).kind = "verify" /\ Evaluate(signals').kind # "verify"
       => /\ IsCompletion(Last(signals'))
          /\ \E v \in DOMAIN signals :
               /\ signals[v].kind = "validation.passed"
               /\ \A i \in v .. Len(signals) : ~Progresses(signals[i])]_signals
=============================================================================
