-------------------------- MODULE ProjectHandoff ---------------------------
(***************************************************************************)
(* The handoff of a task from one client to another,                       *)
(* internal/storage/handoff.go and the SessionStart part of the hook in    *)
(* internal/app/app.go.  A hook puts a capsule together from the captured  *)
(* turns and the active memories of a project, with one query after the    *)
(* other and no transaction, answers with it and records a receipt.        *)
(* Meanwhile turns are saved, sessions deleted and memories edited.        *)
(*                                                                         *)
(* A project is known under several identities, the hash and the path of   *)
(* its directory; rows may lie under any.  Turns are numbered by start, and *)
(* what a turn says is whether it has a goal (a user's message) and a      *)
(* result (an assistant's).                                                *)
(***************************************************************************)
EXTENDS ProjectMemory, Sequences

CONSTANTS Identities, \* the projects a hook looks for, in order
          Sessions,
          Turns,      \* Turns[t] = [project, session], in the order of their starts
          Hooks,
          MaxSaves,   \* bound: saves of a turn
          MaxDeletes, \* bound: sessions deleted
          MaxFails    \* bound: queries that fail, the 400 ms included

TurnIds == 1 .. Len(Turns)
NumTurns == 0 .. Len(Turns)
TurnRows == [goal : BOOLEAN, result : BOOLEAN]

ASSUME HandoffConstants ==
  /\ Identities \in Seq(Projects) /\ Len(Identities) > 0
  /\ Turns \in Seq([project : Projects, session : Sessions])
  /\ MaxSaves \in Nat /\ MaxDeletes \in Nat /\ MaxFails \in Nat
  /\ Len(Turns) <= 50  \* the list of turns is cut there
  /\ NoRow \notin TurnRows

VARIABLES
  turns,    \* turns[t] = [goal, result], or NoRow
  sessions, \* the rows of table sessions
  receipts, \* <<hook, session>>, the session NoRow when it is gone or there is none
  hook,     \* hook[h]: where the hook is and what it has put together, or Idle
  saves, deletes, fails

tables == <<turns, sessions, receipts>>
bounds == <<saves, deletes, fails>>
vars == <<memoryVars, tables, hook, bounds>>

Init == /\ MemoryInit
        /\ turns = [t \in TurnIds |-> NoRow]
        /\ sessions = {}
        /\ receipts = {}
        /\ hook = [h \in Hooks |-> Idle]
        /\ saves = 0 /\ deletes = 0 /\ fails = 0

Stored(projects) == {t \in TurnIds : turns[t] # NoRow /\ Turns[t].project \in projects}
WithGoal(project) == {t \in Stored({project}) : turns[t].goal}
WithResult(project) == {t \in Stored({project}) : turns[t].result}

\* The newest of some turns, 0 when there is none.
Newest(ts) == IF ts = {} THEN 0 ELSE CHOOSE t \in ts : \A u \in ts : u <= t

At(h, pc) == hook[h] # Idle /\ hook[h].pc = pc
Goto(h, pc) == hook' = [hook EXCEPT ![h].pc = pc]

\* Turns or sessions a hook may still want have been taken away.
Disturb == [h \in Hooks |-> IF hook[h] = Idle THEN Idle
                            ELSE [hook[h] EXCEPT !.disturbed = TRUE,
                                                 !.raced = @ \/ hook[h].pc = "insert"]]
-----------------------------------------------------------------------------
\* SaveConversationRequest: all messages of the turn are replaced, and what a
\* later parse leaves out is gone.
SaveTurn(t, goal, result) ==
  /\ saves < MaxSaves
  /\ saves' = saves + 1
  /\ turns' = [turns EXCEPT ![t] = [goal |-> goal, result |-> result]]
  /\ sessions' = sessions \cup {Turns[t].session}
  /\ hook' = IF turns[t] # NoRow /\ ((turns[t].goal /\ ~goal) \/ (turns[t].result /\ ~result))
             THEN Disturb ELSE hook
  /\ UNCHANGED <<memoryVars, receipts, deletes, fails>>

\* DeleteConversationSession: turns go with it, receipts lose their reference.
DeleteSession(s) ==
  /\ s \in sessions
  /\ deletes < MaxDeletes
  /\ deletes' = deletes + 1
  /\ sessions' = sessions \ {s}
  /\ turns' = [t \in TurnIds |-> IF Turns[t].session = s THEN NoRow ELSE turns[t]]
  /\ receipts' = {IF r[2] = s THEN <<r[1], NoRow>> ELSE r : r \in receipts}
  /\ hook' = Disturb
  /\ UNCHANGED <<memoryVars, saves, fails>>
-----------------------------------------------------------------------------
Blank == [pc |-> "resolve", project |-> NoRow, left |-> {}, goal |-> 0, result |-> 0,
          source |-> NoRow, memories |-> {}, looked |-> 0, dueGoal |-> 0, dueResult |-> 0,
          disturbed |-> FALSE, raced |-> FALSE, failed |-> FALSE]

Start(h) == /\ hook[h] = Idle
            /\ hook' = [hook EXCEPT ![h] = Blank]
            /\ UNCHANGED <<memoryVars, tables, bounds>>

Chosen(h, project) ==
  hook' = [hook EXCEPT ![h].project = project, ![h].pc = "list",
                       ![h].dueGoal = Newest(WithGoal(project)),
                       ![h].dueResult = Newest(WithResult(project))]

\* resolveHandoffProject: the identity that has the newest turn.
Resolve(h) ==
  /\ At(h, "resolve")
  /\ LET newest == Newest(Stored({Identities[i] : i \in DOMAIN Identities}))
     IN  IF newest # 0 THEN Chosen(h, Turns[newest].project) ELSE Goto(h, "resolveMemory")
  /\ UNCHANGED <<memoryVars, tables, bounds>>

\* ... else the first one with an active memory, else the first that exists: the
\* hook's own event has created it.
ResolveMemory(h) ==
  /\ At(h, "resolveMemory")
  /\ LET candidate == Identities[hook[h].looked + 1]
     IN  IF Active(candidate) # {} THEN Chosen(h, candidate)
         ELSE IF hook[h].looked + 1 = Len(Identities) THEN Chosen(h, Identities[1])
         ELSE hook' = [hook EXCEPT ![h].looked = @ + 1]
  /\ UNCHANGED <<memoryVars, tables, bounds>>

\* A slip the runs must notice: only the newest turn is looked at.
ListedNewest(project) == {t \in Stored({project}) : t = Newest(Stored({project}))}

\* The turns of a project, which are read from the newest on.
Listed(project) == Stored({project})

\* populateHandoffTask lists, then reads turn by turn, until it has both parts.
ListTurns(h) ==
  /\ At(h, "list")
  /\ LET left == Listed(hook[h].project)
     IN  hook' = [hook EXCEPT ![h].left = left, ![h].pc = IF left = {} THEN "memories" ELSE "row"]
  /\ UNCHANGED <<memoryVars, tables, bounds>>

\* GetConversationRequest reads the request, which must still be there ...
ReadTurn(h) ==
  /\ At(h, "row")
  /\ Goto(h, IF turns[Newest(hook[h].left)] = NoRow THEN "failed" ELSE "messages")
  /\ UNCHANGED <<memoryVars, tables, bounds>>

\* A slip the runs must notice: a later turn of the list overwrites what was found.
GoalOverwritten(h, t) == IF turns[t] # NoRow /\ turns[t].goal THEN t ELSE hook[h].goal

Goal(h, t) == IF hook[h].goal = 0 /\ turns[t] # NoRow /\ turns[t].goal THEN t ELSE hook[h].goal
Result(h, t) ==
  IF hook[h].result = 0 /\ turns[t] # NoRow /\ turns[t].result THEN t ELSE hook[h].result

\* ... and then its messages, which may be gone.
ReadMessages(h) ==
  /\ At(h, "messages")
  /\ LET t == Newest(hook[h].left)
         goal == Goal(h, t)
         result == Result(h, t)
         found == goal # hook[h].goal \/ result # hook[h].result
         done == (goal # 0 /\ result # 0) \/ hook[h].left = {t}
     IN  hook' = [hook EXCEPT ![h].goal = goal, ![h].result = result,
                              ![h].source = IF found /\ @ = NoRow THEN Turns[t].session ELSE @,
                              ![h].left = @ \ {t},
                              ![h].pc = IF done THEN "memories" ELSE "row"]
  /\ UNCHANGED <<memoryVars, tables, bounds>>

\* ListMemories, and the last receipt, which is only shown; a capsule with
\* nothing in it is an error.
ReadMemories(h) ==
  /\ At(h, "memories")
  /\ LET active == Active(hook[h].project)
     IN  hook' = [hook EXCEPT ![h].memories = active,
                              ![h].pc = IF /\ hook[h].goal = 0 /\ hook[h].result = 0
                                           /\ active = {} THEN "failed" ELSE "check"]
  /\ UNCHANGED <<memoryVars, tables, bounds>>

\* A slip the runs must notice: the source session is taken to be there.
NoCheckSource(h) == /\ At(h, "check")
                    /\ Goto(h, "insert")
                    /\ UNCHANGED <<memoryVars, tables, bounds>>

\* RecordHandoffDelivery: the session the receipt refers to must exist ...
CheckSource(h) ==
  /\ At(h, "check")
  /\ hook' = [hook EXCEPT ![h].source = IF @ \in sessions THEN @ ELSE NoRow, ![h].pc = "insert"]
  /\ UNCHANGED <<memoryVars, tables, bounds>>

\* ... when the row is inserted, or its foreign key refuses it.  Either way the
\* hook answers with the capsule.
InsertReceipt(h) ==
  /\ At(h, "insert")
  /\ receipts' = IF hook[h].source = NoRow \/ hook[h].source \in sessions
                 THEN receipts \cup {<<h, hook[h].source>>} ELSE receipts
  /\ Goto(h, "answered")
  /\ UNCHANGED <<memoryVars, turns, sessions, bounds>>

\* A query fails, or the time is up: before the capsule is complete the hook
\* answers without one, afterwards with one and without a receipt.
QueryFails(h) ==
  /\ hook[h] # Idle /\ hook[h].pc \notin {"answered", "failed"}
  /\ fails < MaxFails
  /\ fails' = fails + 1
  /\ hook' = [hook EXCEPT ![h].failed = TRUE,
                          ![h].pc = IF @ \in {"check", "insert"} THEN "answered" ELSE "failed"]
  /\ UNCHANGED <<memoryVars, tables, saves, deletes>>

Next == \/ MemoryNext /\ UNCHANGED <<tables, hook, bounds>>
        \/ \E t \in TurnIds, goal, result \in BOOLEAN : SaveTurn(t, goal, result)
        \/ \E s \in Sessions : DeleteSession(s)
        \/ \E h \in Hooks :
             \/ Start(h) \/ Resolve(h) \/ ResolveMemory(h) \/ ListTurns(h) \/ ReadTurn(h)
             \/ ReadMessages(h) \/ ReadMemories(h) \/ CheckSource(h) \/ InsertReceipt(h)
             \/ QueryFails(h)

Spec == Init /\ [][Next]_vars
-----------------------------------------------------------------------------
Steps == {"resolve", "resolveMemory", "list", "row", "messages", "memories", "check",
          "insert", "answered", "failed"}
HookStates ==
  [pc : Steps, project : Projects \cup {NoRow}, left : SUBSET TurnIds, goal : NumTurns,
   result : NumTurns, source : Sessions \cup {NoRow}, memories : SUBSET MemoryIds,
   looked : 0 .. Len(Identities) - 1, dueGoal : NumTurns, dueResult : NumTurns,
   disturbed : BOOLEAN, raced : BOOLEAN, failed : BOOLEAN]

\* Types, and: no turn without its session.
TypeOK ==
  /\ MemoryTypeOK
  /\ turns \in [TurnIds -> TurnRows \cup {NoRow}]
  /\ sessions \subseteq Sessions
  /\ \A t \in TurnIds : turns[t] # NoRow => Turns[t].session \in sessions
  /\ receipts \subseteq Hooks \X (Sessions \cup {NoRow})
  /\ hook \in [Hooks -> HookStates \cup {Idle}]
  /\ saves \in 0 .. MaxSaves /\ deletes \in 0 .. MaxDeletes /\ fails \in 0 .. MaxFails

Complete(h) == hook[h] # Idle /\ hook[h].pc \in {"check", "insert", "answered"}

\* Although turns are saved while they are read, a capsule is no older than
\* the project was when it was chosen, unless turns were taken away meanwhile:
\* goal and result are at least the newest of that moment (handoff.go:59-116).
CapsuleIsCurrent ==
  \A h \in Hooks :
    Complete(h) /\ ~hook[h].disturbed =>
      hook[h].goal >= hook[h].dueGoal /\ hook[h].result >= hook[h].dueResult

\* A hook without a capsule met an error, lost a turn under its hands, or had
\* chosen an identity without a task (handoff.go:19-49).
FailureHasCause ==
  \A h \in Hooks :
    At(h, "failed") =>
      \/ hook[h].failed \/ hook[h].disturbed
      \/ hook[h].dueGoal = 0 /\ hook[h].dueResult = 0

\* A capsule that is answered has a receipt, unless a query failed or the
\* source was deleted between the check and the insert (handoff.go:118-150).
AnswerHasReceipt ==
  \A h \in Hooks :
    At(h, "answered") =>
      \/ hook[h].failed \/ hook[h].raced
      \/ \E r \in receipts : r[1] = h

\* What was due when the project was chosen is still to be read, or a part at
\* least as new has been found.
DueInv(h, due, found, having) ==
  ~hook[h].disturbed /\ due # 0 =>
    /\ due \in having
    /\ found # 0 => found >= due
    /\ hook[h].pc \in {"row", "messages"} /\ found = 0 => due \in hook[h].left
    /\ hook[h].pc \in {"memories", "check", "insert", "answered"} => found # 0

HookInv(h) ==
  /\ hook[h].pc \in {"resolve", "resolveMemory", "list"} => hook[h].goal = 0 /\ hook[h].result = 0
  /\ hook[h].pc \in {"resolve", "resolveMemory"} => hook[h].dueGoal = 0 /\ hook[h].dueResult = 0
  /\ DueInv(h, hook[h].dueGoal, hook[h].goal, WithGoal(hook[h].project))
  /\ DueInv(h, hook[h].dueResult, hook[h].result, WithResult(hook[h].project))
  /\ hook[h].pc \in {"row", "messages"} => hook[h].left # {}
  /\ ~hook[h].disturbed => \A t \in hook[h].left : turns[t] # NoRow
  /\ hook[h].pc = "insert" /\ ~hook[h].raced => hook[h].source \in sessions \cup {NoRow}
  /\ hook[h].pc = "answered" =>
       hook[h].failed \/ hook[h].raced \/ \E r \in receipts : r[1] = h
  /\ hook[h].pc = "failed" =>
       hook[h].failed \/ hook[h].disturbed \/ (hook[h].dueGoal = 0 /\ hook[h].dueResult = 0)

\* The inductive invariant behind these properties: what an editor's copy
\* holds, what a hook still has to read, and what its receipt refers to
\* (memory.go:68-92, handoff.go:59-150).
HandoffInv == /\ CopiesInv
              /\ \A h \in Hooks : hook[h] # Idle => HookInv(h)
=============================================================================
