---------------------------- MODULE GuidanceHook ----------------------------
(***************************************************************************)
(* The Claude Code hook of internal/app/app.go.  Every lifecycle event of  *)
(* a session starts a process of its own: it stores the event, evaluates   *)
(* the session as the database then has it, persists the decision once per *)
(* evidence, and answers on standard output.  The processes of parallel    *)
(* tool calls overlap, and share nothing but the database.                 *)
(*                                                                         *)
(* Time: an event carries the instant its process read, and those differ.  *)
(* A process lives for at most 400 ms of store time, so a decision         *)
(* (10 minutes) does not run out while one is under way.  The capsule a    *)
(* SessionStart also carries is not modelled: it never blocks.             *)
(***************************************************************************)
EXTENDS GuidanceEngine, FiniteSets

CONSTANTS Hooks,      \* processes that may be under way at once
          Calls,      \* lifecycle calls the agent makes: [name, tool, input, result]
          Idle,       \* the process is not there
          Tests,      \* the input of a tool call that runs the tests
          MaxCalls,   \* bound: calls of a session
          MaxLevels,  \* bound: changes of the control level
          MaxFails    \* bound: processes that give up

HookNames == {"SessionStart", "PreToolUse", "PreCompact", "PostToolUse",
              "PostToolUseFailure", "TaskCreated", "TaskCompleted", "Stop", "SessionEnd"}

Levels == {"observe", "guide", "guard", "autopilot"}

ASSUME HookConstants == /\ \A c \in Calls : c.name \in HookNames
                        /\ MaxCalls \in Nat /\ MaxLevels \in Nat /\ MaxFails \in Nat

VARIABLES events,    \* table events of the session: [at, call]
          rows,      \* table guidance_decisions: [decision, created, expired]
          level,     \* the project's control level
          hook,      \* hook[h]: the process, or Idle
          clock,     \* calls made so far: the time of the last one
          answered,  \* the last answer given, and what it answers; NoAnswer before
          levelSets, fails

tables == <<events, rows, level>>
bounds == <<levelSets, fails>>
vars == <<events, rows, level, hook, clock, answered, bounds>>

NoAnswer == [at |-> 0]

Init == /\ events = {}
        /\ rows = {}
        /\ level = "guide"
        /\ hook = [h \in Hooks |-> Idle]
        /\ clock = 0
        /\ answered = NoAnswer
        /\ levelSets = 0
        /\ fails = 0
----------------------------------------------------------------------------
\* hookEventTypes and Project: what an event tells the rules; a start of a
\* session or of a tool tells them nothing.
SignalKind(name) ==
  CASE name = "PostToolUseFailure" -> "tool.failed"
    [] name \in {"PostToolUse", "TaskCompleted"} -> "tool.completed"
    [] name = "PreCompact" -> "context.compacted"
    [] name \in {"Stop", "SessionEnd"} -> "session.completed"
    [] name \in {"SessionStart", "PreToolUse", "TaskCreated"} -> "none"

Signal(e) ==
  [id |-> e.at, kind |-> SignalKind(e.call.name), tool |-> e.call.tool,
   input |-> e.call.input, result |-> e.call.result,
   progress |-> /\ SignalKind(e.call.name) = "tool.completed"
                /\ IsProgressTool(e.call.tool) \/ e.call.name = "TaskCompleted"]

\* Project sorts by time, and by the id where the times are equal; here the
\* times differ.
Project(stored) ==
  LET telling == {e \in stored : SignalKind(e.call.name) # "none"}
      Earlier(e) == {d \in telling : d.at < e.at}
  IN  [i \in 1 .. Cardinality(telling) |->
         Signal(CHOOSE e \in telling : Cardinality(Earlier(e)) = i - 1)]

\* ResponseForDecision: what is said to the agent, if anything.
Response(name, control, decision, expired) ==
  CASE control = "observe" \/ decision.kind = "continue" \/ expired -> "silent"
    [] /\ control # "observe" /\ ~expired
       /\ name = "Stop" /\ decision.kind = "verify"
       /\ control \in {"guard", "autopilot"} -> "block"
    [] /\ control # "observe" /\ ~expired
       /\ name \in {"SessionStart", "PostToolUse", "PostToolUseFailure", "PreCompact"}
       /\ decision.kind \in {"advise", "redirect", "verify"} -> "context"
    [] OTHER -> "silent"
----------------------------------------------------------------------------
\* The agent calls the hook: NormalizeHook reads the clock.
Arrive(h) ==
  /\ hook[h] = Idle
  /\ clock < MaxCalls
  /\ \E c \in Calls :
       hook' = [hook EXCEPT ![h] = [pc |-> "insert", at |-> clock + 1, call |-> c,
                                    judged |-> Continue, decision |-> Continue,
                                    expired |-> FALSE]]
  /\ clock' = clock + 1
  /\ UNCHANGED <<tables, answered, bounds>>

\* InsertEvent.
Insert(h) ==
  /\ hook[h] # Idle /\ hook[h].pc = "insert"
  /\ events' = events \cup {[at |-> hook[h].at, call |-> hook[h].call]}
  /\ hook' = [hook EXCEPT ![h].pc = "evaluate"]
  /\ UNCHANGED <<rows, level, clock, answered, bounds>>

\* A slip the runs must notice: the session is evaluated before the event is stored.
EvaluateEarlier(h) ==
  /\ hook[h] # Idle /\ hook[h].pc = "evaluate"
  /\ LET d == Evaluate(Project({e \in events : e.at # hook[h].at}))
     IN  hook' = [hook EXCEPT ![h].judged = d,
                              ![h].pc = IF d.kind = "continue" THEN "respond" ELSE "persist"]
  /\ UNCHANGED <<tables, clock, answered, bounds>>

\* RuntimeGuidance up to the decision; a decision to continue is not stored.
EvaluateSession(h) ==
  /\ hook[h] # Idle /\ hook[h].pc = "evaluate"
  /\ LET d == Evaluate(Project(events))
     IN  hook' = [hook EXCEPT ![h].judged = d,
                              ![h].pc = IF d.kind = "continue" THEN "respond" ELSE "persist"]
  /\ UNCHANGED <<tables, clock, answered, bounds>>

\* A slip the runs must notice: a row is keyed by what it decides only.
SameKeyKind(r, d) == r.decision.kind = d.kind

\* UNIQUE(session_id, evidence_fingerprint).
SameKey(r, d) == r.decision.evidence = d.evidence

\* A slip the runs must notice: the conflicting row is replaced, and lives on.
StoredAnew(d, at) ==
  {r \in rows : ~SameKey(r, d)} \cup {[decision |-> d, created |-> at, expired |-> FALSE]}

\* INSERT ... ON CONFLICT DO NOTHING.
Stored(d, at) ==
  IF \E r \in rows : SameKey(r, d) THEN rows
  ELSE rows \cup {[decision |-> d, created |-> at, expired |-> FALSE]}

\* The insert, and the row that is then there.
Persist(h) ==
  /\ hook[h] # Idle /\ hook[h].pc = "persist"
  /\ rows' = Stored(hook[h].judged, hook[h].at)
  /\ LET row == CHOOSE r \in rows' : SameKey(r, hook[h].judged)
     IN  hook' = [hook EXCEPT ![h].decision = row.decision, ![h].expired = row.expired,
                              ![h].pc = "respond"]
  /\ UNCHANGED <<events, level, clock, answered, bounds>>

\* GuidanceControlLevel and ResponseForDecision.
Respond(h) ==
  /\ hook[h] # Idle /\ hook[h].pc = "respond"
  /\ LET p == hook[h]
     IN  answered' =
           [at |-> p.at, call |-> p.call, level |-> level, kind |-> p.decision.kind,
            response |-> Response(p.call.name, level, p.decision, p.expired)]
  /\ hook' = [hook EXCEPT ![h] = Idle]
  /\ UNCHANGED <<tables, clock, bounds>>

\* An error of the store or the deadline: nothing is answered, and Claude
\* Code continues normally.
GiveUp(h) ==
  /\ hook[h] # Idle
  /\ fails < MaxFails
  /\ hook' = [hook EXCEPT ![h] = Idle]
  /\ fails' = fails + 1
  /\ UNCHANGED <<tables, clock, answered, levelSets>>

\* SaveGuidanceControlLevel, from the dashboard.
SetLevel ==
  /\ levelSets < MaxLevels
  /\ \E l \in Levels \ {level} : level' = l
  /\ levelSets' = levelSets + 1
  /\ UNCHANGED <<events, rows, hook, clock, answered, fails>>

\* Ten minutes after it was created, the oldest live decision runs out.
Expire ==
  /\ \A h \in Hooks : hook[h] = Idle
  /\ \E r \in rows :
       /\ ~r.expired
       /\ \A o \in rows : o.expired \/ r.created <= o.created
       /\ rows' = (rows \ {r}) \cup {[r EXCEPT !.expired = TRUE]}
  /\ UNCHANGED <<events, level, hook, clock, answered, bounds>>

Next == \/ \E h \in Hooks : \/ Arrive(h) \/ Insert(h) \/ EvaluateSession(h)
                            \/ Persist(h) \/ Respond(h) \/ GiveUp(h)
        \/ SetLevel
        \/ Expire

Spec == Init /\ [][Next]_vars
----------------------------------------------------------------------------
Processes == [pc : {"insert", "evaluate", "persist", "respond"}, at : 1 .. MaxCalls,
              call : Calls, judged : [kind : Kinds, evidence : Seq(1 .. MaxCalls)],
              decision : [kind : Kinds, evidence : Seq(1 .. MaxCalls)], expired : BOOLEAN]

\* The tables and the processes hold what the code puts there; no decision to
\* continue is ever stored, and no process speaks of an event it has not stored.
TypeOK ==
  /\ events \subseteq [at : 1 .. clock, call : Calls]
  /\ \A r \in rows : /\ r.decision.kind \in Kinds \ {"continue"}
                     /\ r.created \in 1 .. clock
                     /\ Range(r.decision.evidence) \subseteq {e.at : e \in events}
  /\ level \in Levels
  /\ \A h \in Hooks : hook[h] # Idle =>
       /\ hook[h] \in Processes
       /\ hook[h].pc # "insert" => \E e \in events : e.at = hook[h].at
  /\ clock \in 0 .. MaxCalls

\* One decision per evidence, and a process answers with the very decision it
\* came to, though the row it reads back may be another process's
\* (guidance_decisions is unique on the session and the evidence alone, not
\* on the kind).
OwnDecision ==
  /\ \A q, r \in rows : q.decision.evidence = r.decision.evidence => q = r
  /\ \A h \in Hooks : hook[h] # Idle /\ hook[h].pc = "respond" =>
       hook[h].decision = hook[h].judged

\* docs/compatibility.md:25-27: expired guidance stays silent.  A decision is
\* never given a second life by a later process that comes to it again.
ExpiredStaysExpired ==
  [][\A r \in rows : r.expired => r \in rows']_rows

\* A Stop the hook answers while the project is guarded is blocked when no
\* test has run since the last edit that was made before it, whatever other
\* calls are under way (usage.md:37).
EditsBefore(at) == {e \in events : Signal(e).progress /\ e.at < at}
TestedBefore(at) ==
  \E t \in events : /\ t.call.name = "PostToolUse" /\ t.call.input = Tests /\ t.at < at
                    /\ \A e \in EditsBefore(at) : e.at < t.at

UntestedStopBlocked ==
  ( /\ answered # NoAnswer
    /\ answered.call.name = "Stop"
    /\ answered.level \in {"guard", "autopilot"}
    /\ ~TestedBefore(answered.at) ) => answered.response = "block"
=============================================================================
