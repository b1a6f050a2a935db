------------------------- MODULE CaptureProxyProofs -------------------------
(***************************************************************************)
(* Proofs about CaptureProxy and the ConversationStore beneath it, for any *)
(* number of calls, items, bodies and replies, and any scenarios: what     *)
(* becomes of a call, of the settings, of a deleted turn, of evaluations   *)
(* and of the list; what stands in the evidence: every tool message once,  *)
(* under every answer the MCP server gives; and that a call is stored as   *)
(* the provider answered it, however the answer was cut into chunks.       *)
(***************************************************************************)
EXTENDS CaptureProxy, GuidanceProofs

(* The inductive invariants *)

Within == /\ scenario \in Scenarios
          /\ \A what \in Bounds : what \in DOMAIN budget /\ budget[what] \in 0 .. scenario[what]

\* Is anything of this kind spent?
Spent(what) == budget[what] < scenario[what]

CodexShape == /\ log \in Seq(Items) /\ cut \in 0 .. Len(log)
              /\ closed \in BOOLEAN /\ prompts \in BOOLEAN

TablesShape == /\ DOMAIN request = Requests /\ DOMAIN events = Requests
               /\ DOMAIN decisions = Requests /\ DOMAIN receipt = Requests

EvaluationShape == /\ DOMAIN evaluation = Requests \cup {Mcp}
                   /\ \A p \in Requests \cup {Mcp} : DOMAIN evaluation[p] = DOMAIN Idle

ListingShape == DOMAIN listing = DOMAIN NoListing

CallShape == /\ DOMAIN call = Calls
             /\ \A c \in Calls : DOMAIN call[c] = DOMAIN Unborn
             /\ wrapper \in {"running", "stopping", "exited"}

Shapes == CodexShape /\ TablesShape /\ EvaluationShape /\ ListingShape /\ CallShape

ProxyInv == Within /\ Shapes
-----------------------------------------------------------------------------
(* Budgets only fall. *)

LEMMA Spending ==
  ASSUME Within, NEW what \in Bounds, Spend(what), UNCHANGED scenario
  PROVE  /\ Within' /\ Spent(what)'
         /\ \A other \in Bounds : Spent(other) => Spent(other)'
<1>1. /\ \A other \in Bounds : other \in DOMAIN budget /\ budget[other] \in 0 .. scenario[other]
      /\ \A other \in Bounds : scenario[other] \in Nat
  BY StoreConstants DEF Within
<1>2. /\ budget' = [budget EXCEPT ![what] = @ - 1] /\ budget[what] > 0
      /\ scenario' = scenario
  BY DEF Spend
<1>3. ASSUME NEW other \in Bounds
      PROVE  /\ other \in DOMAIN budget' /\ budget'[other] \in 0 .. scenario[other]
             /\ budget'[other] <= budget[other]
  BY <1>1, <1>2
<1>4. budget'[what] < scenario[what]
  BY <1>1, <1>2
<1>5. Within'
  BY <1>2, <1>3 DEF Within
<1>6. \A other \in Bounds : Spent(other) => Spent(other)'
  <2> SUFFICES ASSUME NEW other \in Bounds, Spent(other) PROVE Spent(other)'
    OBVIOUS
  <2>1. budget'[other] \in Int /\ budget[other] \in Int /\ scenario[other] \in Int
    BY <1>1, <1>3
  <2> QED
    BY <1>2, <1>3, <2>1 DEF Spent
<1> QED
  BY <1>2, <1>4, <1>5, <1>6 DEF Spent

\* Every step spends one thing or nothing.
LEMMA StepSpends ==
  ASSUME Within, [Next]_vars
  PROVE  /\ UNCHANGED scenario
         /\ UNCHANGED budget \/ \E what \in Bounds : Spend(what)
<1>1. CASE UNCHANGED vars
  BY <1>1 DEF vars, storeVars
<1>2. CASE ProxyStep
  <2>1. UNCHANGED scenario
    BY <1>2 DEF ProxyStep
  <2>2. CASE \E c \in Calls : Arrive(c) \/ Unavailable502(c) \/ ClientGone(c) \/ StreamBreaks(c)
    BY <2>1, <2>2 DEF Arrive, Unavailable502, ClientGone, StreamBreaks, Bounds
  <2>3. CASE \E c \in Calls : Handler(c)
    BY <2>1, <2>3 DEF Handler, UpstreamAnswers, Read, AddBlock, Write, StreamEnds, ReadPrivacy,
                PersistCall, PersistFails, Bounds
  <2>4. CASE CommandEnds \/ Exit \/ Flip
    BY <2>1, <2>4 DEF CommandEnds, Exit, Flip, FlipPrompts, Bounds
  <2> QED
    BY <1>2, <2>1, <2>2, <2>3, <2>4 DEF ProxyStep
<1>3. CASE StoreStep
  <2>1. UNCHANGED scenario
    BY <1>3 DEF StoreStep
  <2>2. CASE (\E item \in Items : CodexWrites(item)) \/ CodexCompletes
             \/ \E r \in Requests : DeleteSession(r)
    BY <2>1, <2>2 DEF CodexWrites, CodexCompletes, DeleteSession, Bounds
  <2>3. CASE WatcherStep
    BY <2>1, <2>3 DEF WatcherStep, SaveWatched, Resume, Restart, Bounds
  <2>4. CASE EvaluationStep
    BY <2>1, <2>4 DEF EvaluationStep, ReadEvidence, PersistDecision, EvaluationFails, Bounds
  <2>5. CASE McpStep
    BY <2>1, <2>5 DEF McpStep, AskSession, AskLatest, AskNobody, Ask, ReadLatest,
      RecordDelivery, Answer, Precision, Bounds
  <2>6. CASE DashboardStep
    BY <2>1, <2>6 DEF DashboardStep, ListIds, ReadRow, ReadMessages, ListFails, ListEnds, Bounds
  <2> QED
    BY <1>3, <2>1, <2>2, <2>3, <2>4, <2>5, <2>6 DEF StoreStep
<1> QED
  BY <1>1, <1>2, <1>3 DEF Next

LEMMA BudgetFalls ==
  ASSUME Within, [Next]_vars
  PROVE  Within' /\ \A what \in Bounds : Spent(what) => Spent(what)'
<1>1. UNCHANGED scenario /\ (UNCHANGED budget \/ \E what \in Bounds : Spend(what))
  BY StepSpends
<1>2. CASE UNCHANGED budget
  BY <1>1, <1>2 DEF Within, Spent
<1>3. ASSUME NEW what \in Bounds, Spend(what)
      PROVE  Within' /\ \A other \in Bounds : Spent(other) => Spent(other)'
  BY <1>1, <1>3, Spending
<1> QED
  BY <1>1, <1>2, <1>3
-----------------------------------------------------------------------------
(* Who changes what *)

\* The turn's log and the settings.
LEMMA CodexSteps ==
  ASSUME [Next]_vars
  PROVE  \/ UNCHANGED <<log, closed, cut, prompts>>
         \/ \E item \in Items : CodexWrites(item)
         \/ CodexCompletes
         \/ Resume
         \/ Restart
         \/ Flip
<1>1. CASE UNCHANGED vars
  BY <1>1 DEF vars, storeVars, codex, tables, ghosts
<1>2. CASE ProxyStep
  <2>1. CASE \E c \in Calls : Arrive(c) \/ Unavailable502(c) \/ ClientGone(c) \/ StreamBreaks(c)
    BY <2>1 DEF Arrive, Unavailable502, ClientGone, StreamBreaks, codex, tables, ghosts
  <2>2. CASE \E c \in Calls : Handler(c)
    BY <2>2 DEF Handler, UpstreamAnswers, Read, AddBlock, Write, StreamEnds, ReadPrivacy,
                PersistFails, PersistCall, Save, codex, tables, ghosts
  <2>3. CASE CommandEnds \/ Exit \/ Flip
    BY <2>3 DEF CommandEnds, Exit, codex, tables, ghosts
  <2> QED
    BY <1>2, <2>1, <2>2, <2>3 DEF ProxyStep
<1>3. CASE StoreStep /\ UNCHANGED <<call, wrapper>>
  <2>1. CASE (\E item \in Items : CodexWrites(item)) \/ CodexCompletes
    BY <2>1 DEF codex, tables, ghosts
  <2>2. CASE \E r \in Requests : DeleteSession(r)
    BY <2>2 DEF DeleteSession, codex, tables, ghosts
  <2>3. CASE WatcherStep
    BY <2>3 DEF WatcherStep, SaveWatched, Save, codex, tables, ghosts
  <2>4. CASE EvaluationStep
    BY <2>4 DEF EvaluationStep, ReadEvidence, EvaluationFails, PersistDecision, codex,
      tables, ghosts
  <2>5. CASE McpStep
    BY <2>5 DEF McpStep, AskSession, AskLatest, AskNobody, Ask, ReadLatest, RecordDelivery,
      Answer, codex, tables, ghosts
  <2>6. CASE DashboardStep
    BY <2>6 DEF DashboardStep, ListIds, ReadRow, ReadMessages, ListFails, ListEnds, codex,
      tables, ghosts
  <2> QED
    BY <1>3, <2>1, <2>2, <2>3, <2>4, <2>5, <2>6 DEF StoreStep
<1> QED
  BY <1>1, <1>2, <1>3 DEF Next

\* What the watcher remembers of its saves.
LEMMA SignatureSteps ==
  ASSUME [Next]_vars
  PROVE  \/ UNCHANGED <<signature, dismissed>>
         \/ \E r \in Requests : DeleteSession(r)
         \/ SaveWatched
         \/ Restart
<1>1. CASE UNCHANGED vars
  BY <1>1 DEF vars, storeVars, codex, tables, ghosts
<1>2. CASE ProxyStep
  <2>1. CASE \E c \in Calls : Arrive(c) \/ Unavailable502(c) \/ ClientGone(c) \/ StreamBreaks(c)
    BY <2>1 DEF Arrive, Unavailable502, ClientGone, StreamBreaks, codex, tables, ghosts
  <2>2. CASE \E c \in Calls : Handler(c)
    BY <2>2 DEF Handler, UpstreamAnswers, Read, AddBlock, Write, StreamEnds, ReadPrivacy,
                PersistFails, PersistCall, Save, codex, tables, ghosts
  <2>3. CASE CommandEnds \/ Exit \/ Flip
    BY <2>3 DEF CommandEnds, Exit, Flip, FlipPrompts, codex, tables, ghosts
  <2> QED
    BY <1>2, <2>1, <2>2, <2>3 DEF ProxyStep
<1>3. CASE StoreStep /\ UNCHANGED <<call, wrapper>>
  <2>1. CASE (\E item \in Items : CodexWrites(item)) \/ CodexCompletes
    BY <2>1 DEF CodexWrites, CodexCompletes, codex, tables, ghosts
  <2>2. CASE \E r \in Requests : DeleteSession(r)
    BY <2>2 DEF codex, tables, ghosts
  <2>3. CASE WatcherStep
    BY <2>3 DEF WatcherStep, Resume, codex, tables, ghosts
  <2>4. CASE EvaluationStep
    BY <2>4 DEF EvaluationStep, ReadEvidence, EvaluationFails, PersistDecision, codex,
      tables, ghosts
  <2>5. CASE McpStep
    BY <2>5 DEF McpStep, AskSession, AskLatest, AskNobody, Ask, ReadLatest, RecordDelivery,
      Answer, codex, tables, ghosts
  <2>6. CASE DashboardStep
    BY <2>6 DEF DashboardStep, ListIds, ReadRow, ReadMessages, ListFails, ListEnds, codex,
      tables, ghosts
  <2> QED
    BY <1>3, <2>1, <2>2, <2>3, <2>4, <2>5, <2>6 DEF StoreStep
<1> QED
  BY <1>1, <1>2, <1>3 DEF Next

\* Rows, messages and evidence.
LEMMA RowSteps ==
  ASSUME [Next]_vars
  PROVE  \/ UNCHANGED <<request, events>>
         \/ \E r \in Requests : DeleteSession(r)
         \/ SaveWatched
         \/ \E c \in Calls : PersistCall(c)
<1>1. CASE UNCHANGED vars
  BY <1>1 DEF vars, storeVars, codex, tables, ghosts
<1>2. CASE ProxyStep
  <2>1. CASE \E c \in Calls : Arrive(c) \/ Unavailable502(c) \/ ClientGone(c) \/ StreamBreaks(c)
    BY <2>1 DEF Arrive, Unavailable502, ClientGone, StreamBreaks, codex, tables, ghosts
  <2>2. CASE \E c \in Calls : Handler(c)
    BY <2>2 DEF Handler, UpstreamAnswers, Read, AddBlock, Write, StreamEnds, ReadPrivacy,
                PersistFails, codex, tables, ghosts
  <2>3. CASE CommandEnds \/ Exit \/ Flip
    BY <2>3 DEF CommandEnds, Exit, Flip, FlipPrompts, codex, tables, ghosts
  <2> QED
    BY <1>2, <2>1, <2>2, <2>3 DEF ProxyStep
<1>3. CASE StoreStep /\ UNCHANGED <<call, wrapper>>
  <2>1. CASE (\E item \in Items : CodexWrites(item)) \/ CodexCompletes
    BY <2>1 DEF CodexWrites, CodexCompletes, codex, tables, ghosts
  <2>2. CASE \E r \in Requests : DeleteSession(r)
    BY <2>2 DEF codex, tables, ghosts
  <2>3. CASE WatcherStep
    BY <2>3 DEF WatcherStep, Resume, Restart, codex, tables, ghosts
  <2>4. CASE EvaluationStep
    BY <2>4 DEF EvaluationStep, ReadEvidence, EvaluationFails, PersistDecision, codex,
      tables, ghosts
  <2>5. CASE McpStep
    BY <2>5 DEF McpStep, AskSession, AskLatest, AskNobody, Ask, ReadLatest, RecordDelivery,
      Answer, codex, tables, ghosts
  <2>6. CASE DashboardStep
    BY <2>6 DEF DashboardStep, ListIds, ReadRow, ReadMessages, ListFails, ListEnds, codex,
      tables, ghosts
  <2> QED
    BY <1>3, <2>1, <2>2, <2>3, <2>4, <2>5, <2>6 DEF StoreStep
<1> QED
  BY <1>1, <1>2, <1>3 DEF Next

\* Evaluations and their results.
LEMMA EvaluationSteps ==
  ASSUME [Next]_vars
  PROVE  \/ UNCHANGED <<decisions, evaluation, missed>>
         \/ \E r \in Requests : DeleteSession(r)
         \/ SaveWatched
         \/ \E c \in Calls : PersistCall(c)
         \/ Restart
         \/ EvaluationStep
         \/ McpStep
         \/ Exit
<1>1. CASE UNCHANGED vars
  BY <1>1 DEF vars, storeVars, codex, tables, ghosts
<1>2. CASE ProxyStep
  <2>1. CASE \E c \in Calls : Arrive(c) \/ Unavailable502(c) \/ ClientGone(c) \/ StreamBreaks(c)
    BY <2>1 DEF Arrive, Unavailable502, ClientGone, StreamBreaks, codex, tables, ghosts
  <2>2. CASE \E c \in Calls : Handler(c)
    BY <2>2 DEF Handler, UpstreamAnswers, Read, AddBlock, Write, StreamEnds, ReadPrivacy,
                PersistFails, codex, tables, ghosts
  <2>3. CASE CommandEnds \/ Exit \/ Flip
    BY <2>3 DEF CommandEnds, Flip, FlipPrompts, codex, tables, ghosts
  <2> QED
    BY <1>2, <2>1, <2>2, <2>3 DEF ProxyStep
<1>3. CASE StoreStep /\ UNCHANGED <<call, wrapper>>
  <2>1. CASE (\E item \in Items : CodexWrites(item)) \/ CodexCompletes
    BY <2>1 DEF CodexWrites, CodexCompletes, codex, tables, ghosts
  <2>2. CASE \E r \in Requests : DeleteSession(r)
    BY <2>2 DEF codex, tables, ghosts
  <2>3. CASE WatcherStep
    BY <2>3 DEF WatcherStep, Resume, codex, tables, ghosts
  <2>4. CASE EvaluationStep
    BY <2>4 DEF codex, tables, ghosts
  <2>5. CASE McpStep
    BY <2>5 DEF codex, tables, ghosts
  <2>6. CASE DashboardStep
    BY <2>6 DEF DashboardStep, ListIds, ReadRow, ReadMessages, ListFails, ListEnds, codex,
      tables, ghosts
  <2> QED
    BY <1>3, <2>1, <2>2, <2>3, <2>4, <2>5, <2>6 DEF StoreStep
<1> QED
  BY <1>1, <1>2, <1>3 DEF Next

\* Receipts.
LEMMA ReceiptSteps ==
  ASSUME [Next]_vars
  PROVE  \/ UNCHANGED <<receipt>>
         \/ \E r \in Requests : DeleteSession(r)
         \/ RecordDelivery
<1>1. CASE UNCHANGED vars
  BY <1>1 DEF vars, storeVars, codex, tables, ghosts
<1>2. CASE ProxyStep
  <2>1. CASE \E c \in Calls : Arrive(c) \/ Unavailable502(c) \/ ClientGone(c) \/ StreamBreaks(c)
    BY <2>1 DEF Arrive, Unavailable502, ClientGone, StreamBreaks, codex, tables, ghosts
  <2>2. CASE \E c \in Calls : Handler(c)
    BY <2>2 DEF Handler, UpstreamAnswers, Read, AddBlock, Write, StreamEnds, ReadPrivacy,
                PersistFails, PersistCall, Save, codex, tables, ghosts
  <2>3. CASE CommandEnds \/ Exit \/ Flip
    BY <2>3 DEF CommandEnds, Exit, Flip, FlipPrompts, codex, tables, ghosts
  <2> QED
    BY <1>2, <2>1, <2>2, <2>3 DEF ProxyStep
<1>3. CASE StoreStep /\ UNCHANGED <<call, wrapper>>
  <2>1. CASE (\E item \in Items : CodexWrites(item)) \/ CodexCompletes
    BY <2>1 DEF CodexWrites, CodexCompletes, codex, tables, ghosts
  <2>2. CASE \E r \in Requests : DeleteSession(r)
    BY <2>2 DEF codex, tables, ghosts
  <2>3. CASE WatcherStep
    BY <2>3 DEF WatcherStep, SaveWatched, Save, Resume, Restart, codex, tables, ghosts
  <2>4. CASE EvaluationStep
    BY <2>4 DEF EvaluationStep, ReadEvidence, EvaluationFails, PersistDecision, codex,
      tables, ghosts
  <2>5. CASE McpStep
    BY <2>5 DEF McpStep, AskSession, AskLatest, AskNobody, Ask, ReadLatest, Answer, codex,
      tables, ghosts
  <2>6. CASE DashboardStep
    BY <2>6 DEF DashboardStep, ListIds, ReadRow, ReadMessages, ListFails, ListEnds, codex,
      tables, ghosts
  <2> QED
    BY <1>3, <2>1, <2>2, <2>3, <2>4, <2>5, <2>6 DEF StoreStep
<1> QED
  BY <1>1, <1>2, <1>3 DEF Next

\* The list.
LEMMA ListingSteps ==
  ASSUME [Next]_vars
  PROVE  \/ UNCHANGED <<listing>>
         \/ \E r \in Requests : DeleteSession(r)
         \/ DashboardStep
<1>1. CASE UNCHANGED vars
  BY <1>1 DEF vars, storeVars, codex, tables, ghosts
<1>2. CASE ProxyStep
  <2>1. CASE \E c \in Calls : Arrive(c) \/ Unavailable502(c) \/ ClientGone(c) \/ StreamBreaks(c)
    BY <2>1 DEF Arrive, Unavailable502, ClientGone, StreamBreaks, codex, tables, ghosts
  <2>2. CASE \E c \in Calls : Handler(c)
    BY <2>2 DEF Handler, UpstreamAnswers, Read, AddBlock, Write, StreamEnds, ReadPrivacy,
                PersistFails, PersistCall, Save, codex, tables, ghosts
  <2>3. CASE CommandEnds \/ Exit \/ Flip
    BY <2>3 DEF CommandEnds, Exit, Flip, FlipPrompts, codex, tables, ghosts
  <2> QED
    BY <1>2, <2>1, <2>2, <2>3 DEF ProxyStep
<1>3. CASE StoreStep /\ UNCHANGED <<call, wrapper>>
  <2>1. CASE (\E item \in Items : CodexWrites(item)) \/ CodexCompletes
    BY <2>1 DEF CodexWrites, CodexCompletes, codex, tables, ghosts
  <2>2. CASE \E r \in Requests : DeleteSession(r)
    BY <2>2 DEF codex, tables, ghosts
  <2>3. CASE WatcherStep
    BY <2>3 DEF WatcherStep, SaveWatched, Save, Resume, Restart, codex, tables, ghosts
  <2>4. CASE EvaluationStep
    BY <2>4 DEF EvaluationStep, ReadEvidence, EvaluationFails, PersistDecision, codex,
      tables, ghosts
  <2>5. CASE McpStep
    BY <2>5 DEF McpStep, AskSession, AskLatest, AskNobody, Ask, ReadLatest, RecordDelivery,
      Answer, codex, tables, ghosts
  <2>6. CASE DashboardStep
    BY <2>6 DEF codex, tables, ghosts
  <2> QED
    BY <1>3, <2>1, <2>2, <2>3, <2>4, <2>5, <2>6 DEF StoreStep
<1> QED
  BY <1>1, <1>2, <1>3 DEF Next
-----------------------------------------------------------------------------
(* Shapes *)

LEMMA CodexShapeKept ==
  ASSUME CodexShape, [Next]_vars
  PROVE  CodexShape'
<1>1. log \in Seq(Items) /\ cut \in 0 .. Len(log) /\ closed \in BOOLEAN /\ prompts \in BOOLEAN
  BY DEF CodexShape
<1>2. CASE UNCHANGED <<log, closed, cut, prompts>>
  BY <1>1, <1>2 DEF CodexShape
<1>3. ASSUME NEW item \in Items, CodexWrites(item) PROVE CodexShape'
  <2>1. log' = Append(log, item) /\ UNCHANGED <<closed, cut, prompts>>
    BY <1>3 DEF CodexWrites
  <2>2. log' \in Seq(Items) /\ Len(log') = Len(log) + 1
    BY <1>1, <2>1
  <2> QED
    BY <1>1, <2>1, <2>2 DEF CodexShape
<1>4. CASE CodexCompletes
  BY <1>1, <1>4 DEF CodexCompletes, CodexShape
<1>5. CASE Resume
  <2>1. cut' = Len(log) /\ UNCHANGED <<log, closed, prompts>>
    BY <1>5 DEF Resume
  <2>2. Len(log) \in Nat
    BY <1>1
  <2> QED
    BY <1>1, <2>1, <2>2 DEF CodexShape
<1>6. CASE Restart
  <2>1. cut' = 0 /\ UNCHANGED <<log, closed, prompts>>
    BY <1>6 DEF Restart
  <2>2. Len(log) \in Nat
    BY <1>1
  <2> QED
    BY <1>1, <2>1, <2>2 DEF CodexShape
<1>7. CASE Flip
  BY <1>1, <1>7 DEF Flip, FlipPrompts, codex, CodexShape
<1> QED
  BY <1>2, <1>3, <1>4, <1>5, <1>6, <1>7, CodexSteps

LEMMA TablesShapeKept ==
  ASSUME TablesShape, [Next]_vars
  PROVE  TablesShape'
<1>1. DOMAIN request' = DOMAIN request /\ DOMAIN events' = DOMAIN events
  BY RowSteps DEF DeleteSession, SaveWatched, PersistCall, Save
<1>2. DOMAIN decisions' = DOMAIN decisions
  BY EvaluationSteps DEF DeleteSession, SaveWatched, PersistCall, Save, Restart, EvaluationStep,
    ReadEvidence, PersistDecision, EvaluationFails, McpStep, AskSession, AskLatest, AskNobody,
    Ask, ReadLatest, RecordDelivery, Answer, Exit, tables
<1>3. DOMAIN receipt' = DOMAIN receipt
  BY ReceiptSteps DEF DeleteSession, RecordDelivery
<1> QED
  BY <1>1, <1>2, <1>3 DEF TablesShape

\* The ways an evaluation changes.
LEMMA ConcludedShape ==
  ASSUME EvaluationShape, NEW p \in Requests \cup {Mcp}, NEW step, NEW decision,
         Concluded(p, step, decision)
  PROVE  EvaluationShape'
BY DEF EvaluationShape, Concluded, Idle

LEMMA EvaluationShapeKept ==
  ASSUME EvaluationShape, [Next]_vars
  PROVE  EvaluationShape'
<1>1. CASE UNCHANGED evaluation
  BY <1>1 DEF EvaluationShape
<1>2. ASSUME NEW r \in Requests, DeleteSession(r) PROVE EvaluationShape'
  BY <1>2 DEF DeleteSession, EvaluationShape, Idle
<1>3. ASSUME NEW r \in Requests, NEW record, Save(r, record) PROVE EvaluationShape'
  BY <1>3 DEF Save, EvaluationShape, Idle
<1>4. CASE Restart
  BY <1>4 DEF Restart, EvaluationShape, Requests
<1>5. CASE EvaluationStep
  <2> SUFFICES ASSUME NEW p \in Requests \cup {Mcp},
                      ReadEvidence(p) \/ PersistDecision(p) \/ EvaluationFails(p)
               PROVE  EvaluationShape'
    BY <1>5 DEF EvaluationStep
  <2>1. CASE \E step, decision : Concluded(p, step, decision)
    BY <2>1, ConcludedShape
  <2>2. CASE ReadEvidence(p)
    BY <2>1, <2>2 DEF ReadEvidence, EvaluationShape
  <2>3. CASE PersistDecision(p)
    BY <2>1, <2>3 DEF PersistDecision
  <2>4. CASE EvaluationFails(p)
    BY <2>1, <2>4 DEF EvaluationFails
  <2> QED
    BY <2>2, <2>3, <2>4
<1>6. CASE McpStep
  <2>1. CASE \E step, decision : Concluded(Mcp, step, decision)
    BY <2>1, ConcludedShape
  <2>2. ASSUME NEW session, NEW step, Ask(session, step) PROVE EvaluationShape'
    BY <2>2 DEF Ask, EvaluationShape, Idle
  <2>3. CASE ReadLatest
    BY <2>1, <2>3 DEF ReadLatest, EvaluationShape
  <2>4. CASE RecordDelivery
    BY <2>1, <2>4 DEF RecordDelivery
  <2>5. CASE Answer
    BY <2>5 DEF Answer, EvaluationShape
  <2> QED
    BY <1>6, <2>2, <2>3, <2>4, <2>5 DEF McpStep, AskSession, AskLatest, AskNobody
<1>7. CASE Exit
  BY <1>7 DEF Exit, EvaluationShape
<1> QED
  BY <1>1, <1>2, <1>3, <1>4, <1>5, <1>6, <1>7, EvaluationSteps
     DEF SaveWatched, PersistCall, Requests

LEMMA ListingShapeKept ==
  ASSUME ListingShape, [Next]_vars
  PROVE  ListingShape'
BY ListingSteps DEF ListingShape, DeleteSession, DashboardStep, ListIds, ReadRow, ReadMessages,
                    ListFails, ListEnds, NoListing

\* A step of one call.
CallStep(c) == \/ Arrive(c) \/ Handler(c)
               \/ Unavailable502(c) \/ ClientGone(c) \/ StreamBreaks(c)

LEMMA OneCallMoves ==
  ASSUME CallShape, NEW c \in Calls, CallStep(c)
  PROVE  /\ DOMAIN call' = Calls /\ DOMAIN call'[c] = DOMAIN Unborn
         /\ \A d \in Calls \ {c} : call'[d] = call[d]
         /\ UNCHANGED <<prompts, wrapper>>
<1> DEFINE Moved == /\ DOMAIN call' = Calls /\ DOMAIN call'[c] = DOMAIN Unborn
                    /\ \A d \in Calls \ {c} : call'[d] = call[d]
<1>1. DOMAIN call = Calls /\ DOMAIN call[c] = DOMAIN Unborn
  BY DEF CallShape
<1>2. UNCHANGED <<prompts, wrapper>>
  BY DEF CallStep, Arrive, Handler, Unavailable502, ClientGone, StreamBreaks, UpstreamAnswers,
         Read, AddBlock, Write, StreamEnds, ReadPrivacy, PersistCall, PersistFails
<1>3. ASSUME NEW step, Goes(c, step) PROVE Moved
  BY <1>1, <1>3 DEF Goes, Unborn
<1>4. CASE Arrive(c)
  BY <1>1, <1>3, <1>4 DEF Arrive, Unborn
<1>5. CASE UpstreamAnswers(c) \/ Unavailable502(c) \/ ClientGone(c) \/ StreamBreaks(c)
           \/ PersistFails(c) \/ PersistCall(c)
  BY <1>3, <1>5 DEF UpstreamAnswers, Unavailable502, ClientGone, StreamBreaks, PersistFails,
                    PersistCall
<1>6. CASE Read(c)
  BY <1>1, <1>6 DEF Read, Captured, Unborn
<1>7. CASE AddBlock(c)
  BY <1>1, <1>7 DEF AddBlock, Unborn
<1>8. CASE Write(c)
  BY <1>1, <1>8 DEF Write, Unborn
<1>9. CASE StreamEnds(c)
  BY <1>1, <1>9 DEF StreamEnds, Unborn
<1>10. CASE ReadPrivacy(c)
  BY <1>1, <1>10 DEF ReadPrivacy, Unborn
<1> QED
  BY <1>2, <1>4, <1>5, <1>6, <1>7, <1>8, <1>9, <1>10 DEF CallStep, Handler

LEMMA CallSteps ==
  ASSUME [Next]_vars
  PROVE  \/ UNCHANGED <<call, wrapper>>
         \/ \E c \in Calls : CallStep(c)
         \/ CommandEnds \/ Exit \/ Flip
BY DEF Next, vars, ProxyStep, CallStep

LEMMA CallShapeKept ==
  ASSUME CallShape, [Next]_vars
  PROVE  CallShape'
<1>1. CASE UNCHANGED <<call, wrapper>>
  BY <1>1 DEF CallShape
<1>2. CASE CommandEnds \/ Exit \/ Flip
  BY <1>2 DEF CommandEnds, Exit, Flip, CallShape
<1>3. ASSUME NEW c \in Calls, CallStep(c) PROVE CallShape'
  BY <1>3, OneCallMoves DEF CallShape
<1> QED
  BY <1>1, <1>2, <1>3, CallSteps

LEMMA ShapesKept ==
  ASSUME ProxyInv, [Next]_vars
  PROVE  ProxyInv'
BY BudgetFalls, CodexShapeKept, TablesShapeKept, EvaluationShapeKept, ListingShapeKept,
   CallShapeKept DEF ProxyInv, Shapes

LEMMA ShapesAtStart == Init => ProxyInv
<1> SUFFICES ASSUME Init PROVE ProxyInv
  OBVIOUS
<1> USE DEF Init, StoreInit
<1>1. Within
  <2>1. scenario \in Scenarios /\ budget = scenario
    OBVIOUS
  <2>2. \A what \in Bounds : what \in DOMAIN scenario /\ scenario[what] \in Nat
    BY <2>1, StoreConstants
  <2> HIDE DEF Init, StoreInit
  <2> QED
    BY <2>1, <2>2 DEF Within
<1>2. CodexShape
  <2>1. log = <<>> /\ cut = 0 /\ closed \in BOOLEAN /\ prompts \in BOOLEAN
    OBVIOUS
  <2> HIDE DEF Init, StoreInit
  <2>2. <<>> \in Seq(Items) /\ 0 \in 0 .. Len(<<>>)
    OBVIOUS
  <2> QED
    BY <2>1, <2>2 DEF CodexShape
<1>3. TablesShape
  BY DEF TablesShape
<1>4. EvaluationShape /\ ListingShape
  BY DEF EvaluationShape, ListingShape
<1>5. CallShape
  BY DEF CallShape
<1> QED
  BY <1>1, <1>2, <1>3, <1>4, <1>5 DEF ProxyInv, Shapes

\* The state keeps its shape, and no budget is overdrawn.
THEOREM ProxyTypeCorrect == Spec => []ProxyInv
<1>1. ProxyInv /\ [Next]_vars => ProxyInv'
  BY ShapesKept
<1> QED
  BY <1>1, ShapesAtStart, PTL DEF Spec
-----------------------------------------------------------------------------
(* The life of a call *)

\* The client has all that was read until a chunk is on its way, and all there is
\* when the call is persisted; who gave up or was killed had a cause; the prompts
\* were seen to be on where messages are stored.
CallInv(c) ==
  LET k == call[c]
  IN  /\ k.step \in {"none"} \cup Reading \cup Persisting \cup Ended
      /\ k.step \in {"none", "waiting", "copying"} => k.written = k.read
      /\ k.step \in Persisting \cup {"saved", "lost"} => k.written = Len(k.reply.bytes)
      /\ k.step \in {"cut", "broken"} => Spent("breaks")
      /\ k.step = "killed" => Spent("timeouts")
      /\ k.step = "parsed" /\ prompts => k.shown
      /\ k.step = "saving" /\ ~k.hidden => k.shown \/ Spent("reads")
      /\ request[c] # None => k.step = "saved"
      /\ request[c] # None /\ request[c].messages # <<>> => k.shown \/ Spent("reads")

LEMMA CallKept ==
  ASSUME NEW c \in Calls, CallInv(c), call'[c] = call[c], UNCHANGED prompts,
         request'[c] \in {request[c], None},
         \A what \in Bounds : Spent(what) => Spent(what)'
  PROVE  CallInv(c)'
BY DEF CallInv, Bounds

\* A call that moves has no record yet, and gets one only at its end.
LEMMA RequestKept ==
  ASSUME ProxyInv, NEW c \in Calls, CallStep(c)
  PROVE  /\ \A d \in Calls \ {c} : request'[d] = request[d]
         /\ PersistCall(c) \/ request'[c] = request[c]
<1>1. DOMAIN request = Requests /\ c \in Requests
  BY DEF ProxyInv, Shapes, TablesShape, Requests
<1>2. CASE PersistCall(c)
  BY <1>1, <1>2 DEF PersistCall, Save, Requests
<1>3. CASE ~PersistCall(c)
  BY <1>3 DEF CallStep, Handler, Arrive, Unavailable502, ClientGone, StreamBreaks,
    UpstreamAnswers, Read, AddBlock, Write, StreamEnds, ReadPrivacy, PersistFails, tables
<1> QED
  BY <1>2, <1>3

LEMMA CallMoves ==
  ASSUME ProxyInv, NEW c \in Calls, CallInv(c), CallStep(c), UNCHANGED scenario,
         \A what \in Bounds : Spent(what) => Spent(what)'
  PROVE  CallInv(c)'
<1>1. DOMAIN call = Calls /\ DOMAIN call[c] = DOMAIN Unborn
  BY DEF ProxyInv, Shapes, CallShape
<1>2. UNCHANGED prompts /\ prompts \in BOOLEAN
  BY OneCallMoves DEF ProxyInv, Shapes, CodexShape
<1>3. /\ call[c].step # "saved" => request[c] = None
      /\ ~PersistCall(c) => request'[c] = request[c]
  BY RequestKept DEF CallInv
<1>4. \A what \in Bounds : Spend(what) => Spent(what)'
  BY Spending DEF ProxyInv
<1> DEFINE Only(step) == call' = [call EXCEPT ![c].step = step]
<1>5. ASSUME NEW step, Goes(c, step)
      PROVE  /\ call'[c].step = step
             /\ call'[c].read = call[c].read /\ call'[c].written = call[c].written
             /\ call'[c].reply = call[c].reply /\ call'[c].shown = call[c].shown
             /\ call'[c].hidden = call[c].hidden
  BY <1>1, <1>5 DEF Goes, Unborn
<1>6. CASE Arrive(c)
  <2>1. call[c].step = "none" /\ request'[c] = None
    BY <1>3, <1>6 DEF Arrive, PersistCall
  <2>2. /\ call'[c].step \in {"waiting", "refused"}
        /\ call'[c].read = call[c].read /\ call'[c].written = call[c].written
    <3>1. CASE Goes(c, "refused")
      BY <1>5, <3>1
    <3>2. CASE ~Goes(c, "refused")
      <4>1. PICK reply, history :
               call' = [call EXCEPT ![c].step = "waiting", ![c].reply = reply,
                                    ![c].history = history]
        BY <1>6, <3>2 DEF Arrive
      <4> QED
        BY <1>1, <4>1 DEF Unborn
    <3> QED
      BY <3>1, <3>2
  <2> QED
    BY <2>1, <2>2 DEF CallInv, Ended, Reading, Persisting
<1>7. CASE Unavailable502(c) \/ UpstreamAnswers(c)
  <2>1. call[c].step = "waiting" /\ request'[c] = None
    BY <1>3, <1>7 DEF Unavailable502, UpstreamAnswers, PersistCall
  <2>2. Goes(c, "refused") \/ Goes(c, "copying")
    BY <1>7 DEF Unavailable502, UpstreamAnswers
  <2> QED
    BY <1>5, <2>1, <2>2 DEF CallInv, Ended, Reading, Persisting
<1>8. CASE ClientGone(c) \/ StreamBreaks(c)
  <2>1. call[c].step \in {"copying", "writing"} /\ request'[c] = None /\ Spent("breaks")'
    BY <1>3, <1>4, <1>8 DEF ClientGone, StreamBreaks, PersistCall, Bounds
  <2>2. Goes(c, "cut") \/ Goes(c, "broken")
    BY <1>8 DEF ClientGone, StreamBreaks
  <2> QED
    BY <1>5, <2>1, <2>2 DEF CallInv, Ended, Reading, Persisting
<1>9. CASE Read(c) \/ AddBlock(c)
  <2>1. request'[c] = None
    BY <1>3, <1>9 DEF Read, AddBlock, PersistCall
  <2>2. call'[c].step \in {"adding", "writing"}
    <3>1. CASE Read(c)
      BY <1>1, <3>1 DEF Read, Captured, Unborn
    <3>2. CASE AddBlock(c)
      BY <1>1, <3>2 DEF AddBlock, Unborn
    <3> QED
      BY <1>9, <3>1, <3>2
  <2> QED
    BY <2>1, <2>2 DEF CallInv, Ended, Reading, Persisting
<1>10. CASE Write(c)
  <2>1. request'[c] = None
    BY <1>3, <1>10 DEF Write, PersistCall
  <2>2. call'[c].step = "copying" /\ call'[c].written = call'[c].read
    BY <1>1, <1>10 DEF Write, Unborn
  <2> QED
    BY <2>1, <2>2 DEF CallInv, Ended, Reading, Persisting
<1>11. CASE StreamEnds(c)
  <2>1. request'[c] = None /\ call[c].step = "copying"
    BY <1>3, <1>11 DEF StreamEnds, PersistCall
  <2>2. /\ call'[c].step = "parsed" /\ call'[c].written = Len(call'[c].reply.bytes)
        /\ call'[c].shown = prompts
    <3>1. call[c].written = Len(call[c].reply.bytes)
      BY <1>11, <2>1 DEF StreamEnds, CallInv
    <3>2. /\ call'[c].step = "parsed" /\ call'[c].written = call[c].written
          /\ call'[c].reply = call[c].reply /\ call'[c].shown = prompts
      BY <1>1, <1>11 DEF StreamEnds, Unborn
    <3> QED
      BY <3>1, <3>2
  <2> QED
    BY <1>2, <2>1, <2>2 DEF CallInv, Ended, Reading, Persisting
<1>12. CASE ReadPrivacy(c)
  <2>1. request'[c] = None /\ call[c].step = "parsed"
    BY <1>3, <1>12 DEF ReadPrivacy, PersistCall
  <2>2. PICK hidden \in BOOLEAN :
          /\ \/ hidden = ~prompts /\ UNCHANGED budget
             \/ hidden = FALSE /\ Spend("reads")
          /\ call' = [call EXCEPT ![c].step = "saving", ![c].hidden = hidden]
    BY <1>12 DEF ReadPrivacy
  <2>3. /\ call'[c].step = "saving" /\ call'[c].hidden = hidden
        /\ call'[c].written = call[c].written /\ call'[c].reply = call[c].reply
        /\ call'[c].shown = call[c].shown
    BY <1>1, <2>2 DEF Unborn
  <2>4. ~hidden => call[c].shown \/ Spent("reads")'
    BY <1>2, <1>4, <2>1, <2>2 DEF CallInv, Bounds
  <2> QED
    BY <2>1, <2>3, <2>4 DEF CallInv, Ended, Reading, Persisting
<1>13. CASE PersistCall(c)
  <2>1. call[c].step = "saving" /\ Goes(c, "saved")
    BY <1>13 DEF PersistCall
  <2>2. PICK ids \in Orders(call[c]) : Save(c, CallRecord(call[c], ids))
    BY <1>13 DEF PersistCall
  <2>3. request'[c] = CallRecord(call[c], ids)
    BY <2>2 DEF Save, Requests, ProxyInv, Shapes, TablesShape
  <2>4. call[c].hidden => request'[c].messages = <<>>
    <3>1. ASSUME call[c].hidden PROVE Messages(call[c]) = <<>>
      BY <3>1 DEF Messages
    <3>2. request'[c].messages = [i \in DOMAIN Messages(call[c]) |->
             [id |-> <<"random", ids[i]>>, role |-> Messages(call[c])[i].role,
              tool |-> Messages(call[c])[i].tool, text |-> Messages(call[c])[i].text,
              at |-> IF i <= Len(call[c].history) THEN 1 ELSE 2]]
      BY <2>3 DEF CallRecord
    <3> QED
      BY <3>1, <3>2
  <2>5. ~call[c].hidden => call[c].shown \/ Spent("reads")'
    BY <2>1 DEF CallInv, Bounds
  <2> QED
    BY <1>5, <2>1, <2>4, <2>5 DEF CallInv, Ended, Reading, Persisting
<1>14. CASE PersistFails(c)
  <2>1. call[c].step = "saving" /\ request'[c] = None /\ Goes(c, "lost")
    BY <1>3, <1>14 DEF PersistFails, tables
  <2> QED
    BY <1>5, <2>1 DEF CallInv, Ended, Reading, Persisting
<1> QED
  BY <1>6, <1>7, <1>8, <1>9, <1>10, <1>11, <1>12, <1>13, <1>14 DEF CallStep, Handler

\* Whose last evaluation the proxy's process did not finish.
MissedInv == \A c \in Calls : c \in missed => Spent("timeouts") \/ Spent("fails")

CallsInv == (\A c \in Calls : CallInv(c)) /\ MissedInv

LEMMA CallsKept ==
  ASSUME ProxyInv, \A c \in Calls : CallInv(c), [Next]_vars
  PROVE  \A c \in Calls : CallInv(c)'
<1>1. /\ UNCHANGED scenario
      /\ \A what \in Bounds : Spent(what) => Spent(what)'
      /\ \A what \in Bounds : Spend(what) => Spent(what)'
  BY StepSpends, BudgetFalls, Spending DEF ProxyInv
<1>2. /\ DOMAIN call = Calls /\ \A c \in Calls : DOMAIN call[c] = DOMAIN Unborn
      /\ DOMAIN request = Requests /\ Calls \subseteq Requests /\ Watched \notin Calls
  BY StoreConstants DEF ProxyInv, Shapes, CallShape, TablesShape, Requests
<1>3. CASE UNCHANGED <<call, wrapper>> /\ UNCHANGED prompts
  <2>1. ASSUME NEW c \in Calls PROVE request'[c] \in {request[c], None}
    <3>1. CASE UNCHANGED request
      BY <3>1
    <3>2. ASSUME NEW r \in Requests, DeleteSession(r) PROVE request'[c] \in {request[c], None}
      BY <1>2, <3>2 DEF DeleteSession
    <3>3. CASE SaveWatched
      BY <1>2, <3>3 DEF SaveWatched, Save
    <3>4. ASSUME NEW d \in Calls, PersistCall(d) PROVE FALSE
      <4>1. call'[d].step = "saved" /\ call[d].step = "saving"
        BY <1>2, <3>4 DEF PersistCall, Goes, Unborn
      <4> QED
        BY <1>3, <4>1
    <3> QED
      BY <3>1, <3>2, <3>3, <3>4, RowSteps
  <2> QED
    BY <1>1, <1>3, <2>1, CallKept
<1>4. ASSUME NEW c \in Calls, CallStep(c) PROVE \A d \in Calls : CallInv(d)'
  <2>1. CallInv(c)'
    BY <1>1, <1>4, CallMoves
  <2>2. ASSUME NEW d \in Calls \ {c} PROVE CallInv(d)'
    <3>1. call'[d] = call[d] /\ UNCHANGED prompts
      BY <1>4, OneCallMoves DEF ProxyInv, Shapes
    <3>2. request'[d] = request[d]
      BY <1>4, RequestKept
    <3> QED
      BY <1>1, <3>1, <3>2, CallKept
  <2> QED
    BY <2>1, <2>2
<1>5. CASE CommandEnds
  BY <1>1, <1>5, CallKept DEF CommandEnds, tables
<1>6. CASE Exit
  <2> SUFFICES ASSUME NEW c \in Calls PROVE CallInv(c)'
    OBVIOUS
  <2>1. UNCHANGED prompts /\ UNCHANGED request
    BY <1>6 DEF Exit, tables
  <2>2. CASE call[c].step \in Reading \cup Persisting
    <3>1. call'[c].step = "killed" /\ Spend("timeouts")
      BY <1>2, <1>6, <2>2 DEF Exit, InProgress, Unborn
    <3>2. request[c] = None
      BY <2>2 DEF CallInv, Reading, Persisting
    <3> QED
      BY <1>1, <2>1, <3>1, <3>2 DEF CallInv, Ended, Reading, Persisting, Bounds
  <2>3. CASE call[c].step \notin Reading \cup Persisting
    <3>1. call'[c] = call[c]
      BY <1>6, <2>3 DEF Exit
    <3> QED
      BY <1>1, <2>1, <3>1, CallKept
  <2> QED
    BY <2>2, <2>3
<1>7. CASE Flip
  <2> SUFFICES ASSUME NEW c \in Calls PROVE CallInv(c)'
    OBVIOUS
  <2>1. /\ call'[c].step = call[c].step /\ call'[c].reply = call[c].reply
        /\ call'[c].written = call[c].written /\ call'[c].read = call[c].read
        /\ call'[c].hidden = call[c].hidden
        /\ call'[c].shown = (call[c].shown \/ (prompts' /\ call[c].step = "parsed"))
    BY <1>2, <1>7 DEF Flip, Unborn
  <2>2. UNCHANGED request
    BY <1>7 DEF Flip, FlipPrompts, tables
  <2> QED
    BY <1>1, <2>1, <2>2 DEF CallInv, Bounds
<1> QED
  <2>1. CASE UNCHANGED <<call, wrapper>> /\ ~UNCHANGED prompts
    <3>1. call' = call /\ (Flip \/ Restart \/ Resume \/ CodexCompletes
                          \/ \E item \in Items : CodexWrites(item))
      BY <2>1, CodexSteps
    <3>2. Flip
      BY <2>1, <3>1 DEF Restart, Resume, CodexCompletes, CodexWrites
    <3> QED
      BY <1>7, <3>2
  <2> QED
    BY <1>3, <1>4, <1>5, <1>6, <1>7, <2>1, CallSteps

LEMMA MissedKept ==
  ASSUME ProxyInv, MissedInv, [Next]_vars
  PROVE  MissedInv'
<1>1. \A what \in Bounds : Spent(what) => Spent(what)'
  BY BudgetFalls DEF ProxyInv
<1>2. \A what \in Bounds : Spend(what) => Spent(what)'
  BY StepSpends, Spending DEF ProxyInv
<1>3. CASE missed' \subseteq missed \cup {Watched}
  BY <1>1, <1>3, StoreConstants DEF MissedInv, Bounds
<1>4. CASE Spend("fails") \/ Spend("timeouts")
  BY <1>2, <1>4 DEF MissedInv, Bounds
<1>5. CASE Exit /\ ~Spend("timeouts")
  <2>1. missed' = missed
    BY <1>5 DEF Exit, InProgress
  <2> QED
    BY <1>3, <2>1
<1>6. (\E r \in Requests : DeleteSession(r)) => missed' = missed
  BY DEF DeleteSession
<1>7. SaveWatched \/ (\E c \in Calls : PersistCall(c)) => missed' \subseteq missed
  BY DEF SaveWatched, PersistCall, Save
<1>8. Restart => missed' \subseteq missed \cup {Watched}
  BY DEF Restart
<1>9. McpStep => missed' = missed
  BY DEF McpStep, AskSession, AskLatest, AskNobody, Ask, ReadLatest, RecordDelivery, Answer,
         ghosts
<1>10. EvaluationStep => missed' = missed \/ Spend("fails")
  BY DEF EvaluationStep, ReadEvidence, PersistDecision, EvaluationFails, ghosts
<1> QED
  BY <1>3, <1>4, <1>5, <1>6, <1>7, <1>8, <1>9, <1>10, EvaluationSteps

LEMMA CallsInvariant == Spec => [](ProxyInv /\ CallsInv)
<1>1. Init => CallsInv
  BY DEF Init, StoreInit, CallsInv, CallInv, MissedInv, Unborn, Reading, Persisting, Ended,
         Requests
<1>2. ProxyInv /\ CallsInv /\ [Next]_vars => CallsInv'
  BY CallsKept, MissedKept DEF CallsInv
<1> QED
  BY <1>1, <1>2, ProxyTypeCorrect, PTL DEF Spec

\* An answer stays away from a client only when client or provider break off, and
\* nothing is persisted before all of it was written (server.go:157-187).
THEOREM AnswersPassedOn == Spec => []AnswerPassedOn
<1>1. CallsInv => AnswerPassedOn
  BY DEF CallsInv, CallInv, AnswerPassedOn, Spent, Persisting
<1> QED
  BY <1>1, CallsInvariant, PTL

\* The wrapped command's end loses no call and no evaluation but by the three
\* seconds of Shutdown or an error (app.go:614-621).
THEOREM ShutdownHasWaited == Spec => []ShutdownWaits
<1>1. CallsInv => ShutdownWaits
  BY DEF CallsInv, CallInv, MissedInv, ShutdownWaits, Spent
<1> QED
  BY <1>1, CallsInvariant, PTL

\* Messages are stored only when the setting was on after the answer's end, or
\* could not be read (server.go:211-215).
THEOREM PromptsRespected == Spec => []PromptsOffRespected
<1>1. CallsInv => PromptsOffRespected
  BY DEF CallsInv, CallInv, PromptsOffRespected, Spent
<1> QED
  BY <1>1, CallsInvariant, PTL
-----------------------------------------------------------------------------
(* The watched turn *)

\* What is saved of the turn: with prompts on, a message for each item kept.
LEMMA RecordOfTurn ==
  ASSUME CodexShape
  PROVE  /\ WatchedRecord \in TurnRecords
         /\ WatchedRecord.status = "ok" <=> closed
         /\ prompts => Len(WatchedRecord.messages) = Len(log) - cut
<1> DEFINE kept == SubSeq(log, cut + 1, Len(log))
           message(i) == [id |-> MessageId(cut + i), at |-> cut + i,
                          role |-> IF kept[i].tool = "" THEN "user" ELSE "tool",
                          tool |-> kept[i].tool, text |-> kept[i].text]
           messages == IF prompts THEN [i \in DOMAIN kept |-> message(i)] ELSE <<>>
<1>1. /\ log \in Seq(Items) /\ Len(log) \in Nat /\ cut \in Nat /\ cut <= Len(log)
      /\ prompts \in BOOLEAN /\ closed \in BOOLEAN
  BY DEF CodexShape
<1>2. /\ DOMAIN kept = 1 .. (Len(log) - cut)
      /\ \A i \in 1 .. (Len(log) - cut) : kept[i] \in Items
  BY <1>1
<1>3. ASSUME NEW i \in 1 .. (Len(log) - cut) PROVE message(i) \in TurnMessages
  <2>1. kept[i] \in Items
    BY <1>2
  <2>2. MessageId(cut + i) \in {"item", "index"} \X Int
    BY <1>1 DEF MessageId
  <2>3. cut + i \in Nat
    BY <1>1
  <2> HIDE DEF kept
  <2>4. kept[i].tool \in {item.tool : item \in Items} /\ kept[i].text \in {item.text : item \in Items}
    BY <2>1
  <2> QED
    BY <2>2, <2>3, <2>4 DEF TurnMessages
<1> HIDE DEF message
<1>4. messages \in Seq(TurnMessages) /\ (prompts => Len(messages) = Len(log) - cut)
  <2>1. CASE ~prompts
    BY <2>1
  <2>2. CASE prompts
    <3>1. messages = [i \in 1 .. (Len(log) - cut) |-> message(i)]
      BY <1>2, <2>2
    <3>2. Len(log) - cut \in Nat
      BY <1>1
    <3>3. messages \in [1 .. (Len(log) - cut) -> TurnMessages]
      BY <1>3, <3>1
    <3> HIDE DEF messages
    <3> QED
      BY <3>2, <3>3
  <2> QED
    BY <2>1, <2>2
<1>5. WatchedRecord = [id |-> <<"request", 0>>, at |-> Len(log) + 1,
                       status |-> IF closed THEN "ok" ELSE "open",
                       usage |-> [precision |-> "unavailable"], messages |-> messages]
  BY DEF WatchedRecord, message
<1>6. [precision |-> "unavailable"] \in [precision : {"unavailable"}]
  OBVIOUS
<1> HIDE DEF messages
<1> QED
  BY <1>1, <1>4, <1>5, <1>6 DEF TurnRecords

LEMMA RequestNames ==
  ASSUME ProxyInv
  PROVE  /\ DOMAIN request = Requests /\ Watched \in Requests /\ Watched \notin Calls
         /\ Calls \subseteq Requests
BY StoreConstants DEF ProxyInv, Shapes, TablesShape, Requests

\* What the watcher remembers is what is stored, or what the user deleted.
DeletedInv == /\ signature # None /\ request[Watched] # None => request[Watched] = signature
              /\ dismissed # None /\ request[Watched] = None => signature = dismissed
              /\ signature = None => dismissed = None

LEMMA WatchedSaved ==
  ASSUME ProxyInv, SaveWatched
  PROVE  /\ request' = [request EXCEPT ![Watched] = WatchedRecord]
         /\ request'[Watched] = WatchedRecord /\ signature' = WatchedRecord
         /\ signature # WatchedRecord /\ WatchedRecord # None
         /\ \A c \in Calls : request'[c] = request[c]
         /\ UNCHANGED <<log, closed, cut, prompts, listing, dismissed>>
<1>1. /\ DOMAIN request = Requests /\ Watched \in Requests /\ Watched \notin Calls
      /\ Calls \subseteq Requests
  BY RequestNames
<1>2. WatchedRecord # None
  BY RecordOfTurn, StoreConstants DEF ProxyInv, Shapes
<1> QED
  BY <1>1, <1>2 DEF SaveWatched, Save

LEMMA DeletedKept ==
  ASSUME ProxyInv, DeletedInv, [Next]_vars
  PROVE  DeletedInv'
<1>1. /\ DOMAIN request = Requests /\ Watched \in Requests /\ Watched \notin Calls
  BY RequestNames
<1>2. CASE SaveWatched
  BY <1>2, WatchedSaved DEF DeletedInv
<1>3. ASSUME NEW r \in Requests, DeleteSession(r) PROVE DeletedInv'
  <2>1. /\ request[r] # None /\ request' = [request EXCEPT ![r] = None]
        /\ dismissed' = IF r = Watched /\ signature # None THEN request[r] ELSE dismissed
        /\ UNCHANGED signature
    BY <1>3 DEF DeleteSession, codex
  <2>2. CASE r = Watched
    BY <1>1, <2>1, <2>2 DEF DeletedInv
  <2>3. CASE r # Watched
    BY <1>1, <2>1, <2>3 DEF DeletedInv
  <2> QED
    BY <2>2, <2>3
<1>4. CASE Restart
  BY <1>4 DEF Restart, tables, DeletedInv
<1>5. CASE UNCHANGED <<signature, dismissed>> /\ request'[Watched] = request[Watched]
  BY <1>5 DEF DeletedInv
<1>6. ASSUME NEW c \in Calls, PersistCall(c) PROVE request'[Watched] = request[Watched]
  BY <1>1, <1>6 DEF PersistCall, Save
<1> QED
  BY <1>2, <1>3, <1>4, <1>5, <1>6, SignatureSteps, RowSteps

\* A session the user deleted does not come back as it was (sessionlog.go:250-262).
THEOREM DeletedStay == Spec => DeletedStaysAway
<1>1. Init => DeletedInv
  BY DEF Init, StoreInit, DeletedInv
<1>2. ProxyInv /\ DeletedInv /\ [Next]_vars => DeletedInv'
  BY DeletedKept
<1>3. ASSUME ProxyInv, DeletedInv, [Next]_vars,
             request[Watched] = None, request'[Watched] # None
      PROVE  request'[Watched] # dismissed
  <2>1. /\ DOMAIN request = Requests /\ Watched \in Requests /\ Watched \notin Calls
    BY <1>3, RequestNames
  <2>2. CASE SaveWatched
    BY <1>3, <2>2, WatchedSaved DEF DeletedInv
  <2>3. ASSUME NEW r \in Requests, DeleteSession(r) PROVE request'[Watched] = None
    BY <1>3, <2>1, <2>3 DEF DeleteSession
  <2>4. ASSUME NEW c \in Calls, PersistCall(c) PROVE request'[Watched] = request[Watched]
    BY <2>1, <2>4 DEF PersistCall, Save
  <2> QED
    BY <1>3, <2>2, <2>3, <2>4, RowSteps
<1>4. ProxyInv /\ DeletedInv /\ [Next]_vars
      => [request[Watched] = None /\ request'[Watched] # None
           => request'[Watched] # dismissed]_storeVars
  BY <1>3
<1> QED
  BY <1>1, <1>2, <1>4, ProxyTypeCorrect, PTL DEF Spec, DeletedStaysAway
-----------------------------------------------------------------------------
(* Evaluations *)

\* A saver evaluates its own session; what it is about to store is what the
\* evidence calls for, since nobody saves that session meanwhile.
GuidanceInv(r) ==
  LET e == evaluation[r]
  IN  /\ e.step \in {"none", "read", "persist"}
      /\ e.step # "none" => e.session = r
      /\ e.step = "persist" /\ request[r] # None => e.decision = Guidance(r)
      /\ request[r] # None /\ r \notin missed /\ e.step = "none" /\ Guidance(r).kind # "continue"
         => Guidance(r) \in decisions[r]

LEMMA GuidanceSame ==
  ASSUME NEW r \in Requests, events'[r] = events[r]
  PROVE  Guidance(r)' = Guidance(r)
BY DEF Guidance, Signal

LEMMA NoGuidanceWithoutEvidence ==
  ASSUME NEW r \in Requests, events[r] = <<>>
  PROVE  Guidance(r).kind = "continue"
BY DEF Guidance, Evaluate, Continue, Decision

LEMMA GuidanceKept ==
  ASSUME NEW r \in Requests, GuidanceInv(r), events'[r] = events[r],
         request'[r] \in {request[r], None}, decisions[r] \subseteq decisions'[r],
         r \in missed => r \in missed',
         evaluation'[r].step = evaluation[r].step,
         evaluation'[r].session = evaluation[r].session,
         evaluation'[r].decision = evaluation[r].decision
  PROVE  GuidanceInv(r)'
BY GuidanceSame DEF GuidanceInv

LEMMA EvaluationNames ==
  ASSUME ProxyInv
  PROVE  /\ DOMAIN evaluation = Requests \cup {Mcp} /\ Mcp \notin Requests
         /\ \A p \in Requests \cup {Mcp} : DOMAIN evaluation[p] = DOMAIN Idle
         /\ DOMAIN request = Requests /\ DOMAIN events = Requests /\ DOMAIN decisions = Requests
BY StoreConstants DEF ProxyInv, Shapes, EvaluationShape, TablesShape

LEMMA GuidanceAfterSave ==
  ASSUME ProxyInv, NEW r \in Requests, GuidanceInv(r), NEW q \in Requests, NEW record,
         Save(q, record)
  PROVE  GuidanceInv(r)'
<1>1. /\ DOMAIN evaluation = Requests \cup {Mcp}
      /\ DOMAIN request = Requests /\ DOMAIN events = Requests
  BY EvaluationNames
<1>2. /\ request' = [request EXCEPT ![q] = record]
      /\ events' = [events EXCEPT ![q] = Merged(@, record)]
      /\ evaluation' = [evaluation EXCEPT ![q] = [Idle EXCEPT !.step = "read", !.session = q]]
      /\ missed' = missed \ {q} /\ UNCHANGED decisions
  BY DEF Save
<1>3. CASE q = r
  <2>1. evaluation'[r].step = "read" /\ evaluation'[r].session = r
    BY <1>1, <1>2, <1>3 DEF Idle
  <2> QED
    BY <2>1 DEF GuidanceInv
<1>4. CASE q # r
  <2>1. /\ evaluation'[r] = evaluation[r] /\ events'[r] = events[r] /\ request'[r] = request[r]
        /\ r \in missed => r \in missed'
    BY <1>1, <1>2, <1>4
  <2> QED
    BY <1>2, <2>1, GuidanceKept
<1> QED
  BY <1>3, <1>4

LEMMA GuidanceAfterDeletion ==
  ASSUME ProxyInv, NEW r \in Requests, GuidanceInv(r), NEW q \in Requests, DeleteSession(q)
  PROVE  GuidanceInv(r)'
<1>1. /\ DOMAIN evaluation = Requests \cup {Mcp} /\ DOMAIN evaluation[r] = DOMAIN Idle
      /\ DOMAIN request = Requests /\ DOMAIN events = Requests /\ DOMAIN decisions = Requests
  BY EvaluationNames
<1>2. /\ request' = [request EXCEPT ![q] = None] /\ events' = [events EXCEPT ![q] = <<>>]
      /\ decisions' = [decisions EXCEPT ![q] = {}] /\ UNCHANGED missed
      /\ evaluation' = [p \in DOMAIN evaluation |->
                          [evaluation[p] EXCEPT !.gone = @ \/ evaluation[p].session = q]]
  BY DEF DeleteSession
<1>3. /\ evaluation'[r].step = evaluation[r].step
      /\ evaluation'[r].session = evaluation[r].session
      /\ evaluation'[r].decision = evaluation[r].decision
  BY <1>1, <1>2 DEF Idle
<1>4. CASE q = r
  <2>1. request'[r] = None
    BY <1>1, <1>2, <1>4
  <2> QED
    BY <1>3, <2>1 DEF GuidanceInv
<1>5. CASE q # r
  <2>1. events'[r] = events[r] /\ request'[r] = request[r] /\ decisions'[r] = decisions[r]
    BY <1>1, <1>2, <1>5
  <2> QED
    BY <1>2, <1>3, <2>1, GuidanceKept
<1> QED
  BY <1>4, <1>5

\* Another's evaluation.
LEMMA GuidanceOfOthers ==
  ASSUME ProxyInv, NEW r \in Requests, GuidanceInv(r), NEW p \in (Requests \cup {Mcp}) \ {r},
         ReadEvidence(p) \/ PersistDecision(p) \/ EvaluationFails(p)
  PROVE  GuidanceInv(r)'
<1>1. /\ DOMAIN evaluation = Requests \cup {Mcp} /\ DOMAIN decisions = Requests
  BY EvaluationNames
<1>2. UNCHANGED <<request, events>>
  BY DEF ReadEvidence, PersistDecision, EvaluationFails, tables
<1>3. evaluation'[r] = evaluation[r]
  BY <1>1 DEF ReadEvidence, PersistDecision, EvaluationFails, Concluded
<1>4. decisions[r] \subseteq decisions'[r]
  <2>1. CASE UNCHANGED decisions
    BY <2>1
  <2>2. CASE decisions' = [decisions EXCEPT ![evaluation[p].session]
                             = @ \cup {evaluation[p].decision}]
    BY <1>1, <2>2
  <2> QED
    BY <2>1, <2>2 DEF ReadEvidence, PersistDecision, EvaluationFails, tables
<1>5. r \in missed => r \in missed'
  BY DEF ReadEvidence, PersistDecision, EvaluationFails, ghosts
<1> QED
  BY <1>2, <1>3, <1>4, <1>5, GuidanceKept

\* The saver's own.
LEMMA GuidanceOfSaver ==
  ASSUME ProxyInv, NEW r \in Requests, GuidanceInv(r),
         ReadEvidence(r) \/ PersistDecision(r) \/ EvaluationFails(r)
  PROVE  GuidanceInv(r)'
<1>1. /\ DOMAIN evaluation = Requests \cup {Mcp} /\ DOMAIN evaluation[r] = DOMAIN Idle
      /\ DOMAIN decisions = Requests /\ r # Mcp
  BY EvaluationNames
<1>2. UNCHANGED <<request, events>> /\ Guidance(r)' = Guidance(r)
  BY GuidanceSame DEF ReadEvidence, PersistDecision, EvaluationFails, tables
<1>3. ASSUME NEW step, NEW decision, Concluded(r, step, decision)
      PROVE  evaluation'[r].step = "none"
  BY <1>1, <1>3 DEF Concluded, Idle
<1>4. CASE ReadEvidence(r)
  <2>1. evaluation[r].session = r /\ UNCHANGED <<decisions, missed>>
    BY <1>4 DEF ReadEvidence, GuidanceInv, tables, ghosts
  <2>2. CASE events[r] = <<>> \/ Guidance(r).kind = "continue"
    <3>1. Guidance(r).kind = "continue"
      BY <2>2, NoGuidanceWithoutEvidence
    <3>2. evaluation'[r].step = "none"
      BY <1>3, <1>4, <2>1, <2>2 DEF ReadEvidence
    <3> QED
      BY <1>2, <3>1, <3>2 DEF GuidanceInv
  <2>3. CASE ~(events[r] = <<>> \/ Guidance(r).kind = "continue")
    <3>1. evaluation' = [evaluation EXCEPT ![r] =
                           [@ EXCEPT !.step = "persist", !.decision = Guidance(r)]]
      BY <1>4, <2>1, <2>3 DEF ReadEvidence
    <3>2. /\ evaluation'[r].step = "persist" /\ evaluation'[r].session = r
          /\ evaluation'[r].decision = Guidance(r)
      BY <1>1, <2>1, <3>1 DEF Idle
    <3> QED
      BY <1>2, <3>2 DEF GuidanceInv
  <2> QED
    BY <2>2, <2>3
<1>5. CASE PersistDecision(r)
  <2>1. evaluation[r].session = r /\ evaluation[r].step = "persist"
    BY <1>5 DEF PersistDecision, GuidanceInv
  <2>2. evaluation'[r].step = "none"
    BY <1>3, <1>5, <2>1 DEF PersistDecision
  <2>3. request[r] # None => Guidance(r) \in decisions'[r]
    BY <1>1, <1>5, <2>1 DEF PersistDecision, GuidanceInv
  <2> QED
    BY <1>2, <2>2, <2>3 DEF GuidanceInv
<1>6. CASE EvaluationFails(r)
  <2>1. evaluation'[r].step = "none" /\ evaluation[r].session = r /\ r \in missed'
    BY <1>1, <1>3, <1>6 DEF EvaluationFails, GuidanceInv
  <2> QED
    BY <2>1 DEF GuidanceInv
<1> QED
  BY <1>4, <1>5, <1>6

LEMMA GuidanceKeptByAll ==
  ASSUME ProxyInv, NEW r \in Requests, GuidanceInv(r), [Next]_vars
  PROVE  GuidanceInv(r)'
<1>1. /\ DOMAIN evaluation = Requests \cup {Mcp} /\ Mcp \notin Requests
      /\ Watched \in Requests /\ Calls \subseteq Requests
  BY EvaluationNames, RequestNames
<1>2. CASE (\E q \in Requests : DeleteSession(q))
           \/ SaveWatched \/ \E c \in Calls : PersistCall(c)
  <2>1. (\E q \in Requests : DeleteSession(q)) \/ \E q \in Requests : \E record : Save(q, record)
    BY <1>1, <1>2 DEF SaveWatched, PersistCall
  <2> QED
    BY <2>1, GuidanceAfterDeletion, GuidanceAfterSave
<1>3. CASE UNCHANGED <<request, events>>
  <2>1. CASE UNCHANGED <<decisions, evaluation, missed>>
    BY <1>3, <2>1, GuidanceKept
  <2>2. CASE Restart
    <3>1. CASE r = Watched
      <4>1. /\ evaluation'[r] = Idle /\ UNCHANGED decisions
            /\ evaluation[r].step # "none" => r \in missed'
            /\ r \in missed => r \in missed'
        BY <1>1, <2>2, <3>1 DEF Restart, WatcherFree, tables
      <4>2. Guidance(r)' = Guidance(r)
        BY <1>3, GuidanceSame
      <4> QED
        BY <1>3, <4>1, <4>2 DEF GuidanceInv, Idle
    <3>2. CASE r # Watched
      <4>1. evaluation'[r] = evaluation[r] /\ UNCHANGED decisions /\ (r \in missed => r \in missed')
        BY <1>1, <2>2, <3>2 DEF Restart, tables
      <4> QED
        BY <1>3, <4>1, GuidanceKept
    <3> QED
      BY <3>1, <3>2
  <2>3. CASE EvaluationStep
    BY <2>3, GuidanceOfOthers, GuidanceOfSaver DEF EvaluationStep
  <2>4. CASE McpStep
    <3>1. evaluation'[r] = evaluation[r] /\ UNCHANGED <<decisions, missed>>
      BY <1>1, <2>4 DEF McpStep, AskSession, AskLatest, AskNobody, Ask, ReadLatest,
        RecordDelivery, Answer, Concluded, tables, ghosts
    <3> QED
      BY <1>3, <3>1, GuidanceKept
  <2>5. CASE Exit
    <3>1. CASE r \in Calls
      <4>1. /\ evaluation'[r] = Idle /\ UNCHANGED decisions
            /\ evaluation[r].step # "none" => r \in missed'
            /\ r \in missed => r \in missed'
        BY <1>1, <2>5, <3>1 DEF Exit, tables
      <4>2. Guidance(r)' = Guidance(r)
        BY <1>3, GuidanceSame
      <4> QED
        BY <1>3, <4>1, <4>2 DEF GuidanceInv, Idle
    <3>2. CASE r \notin Calls
      <4>1. evaluation'[r] = evaluation[r] /\ UNCHANGED decisions /\ (r \in missed => r \in missed')
        BY <1>1, <2>5, <3>2 DEF Exit, tables
      <4> QED
        BY <1>3, <4>1, GuidanceKept
    <3> QED
      BY <3>1, <3>2
  <2> QED
    BY <1>2, <2>1, <2>2, <2>3, <2>4, <2>5, EvaluationSteps
<1> QED
  BY <1>2, <1>3, RowSteps

\* Between saves a session whose evidence calls for guidance has it stored, unless
\* its last evaluation met an error (conversations.go:116-118).
THEOREM GuidanceFollows == Spec => []GuidanceFollowsEvidence
<1> DEFINE Inv == \A r \in Requests : GuidanceInv(r)
<1>1. Init => Inv
  BY DEF Init, StoreInit, GuidanceInv, Idle
<1>2. ProxyInv /\ Inv /\ [Next]_vars => Inv'
  BY GuidanceKeptByAll
<1>3. Inv => GuidanceFollowsEvidence
  BY DEF GuidanceInv, GuidanceFollowsEvidence
<1> HIDE DEF Inv
<1> QED
  BY <1>1, <1>2, <1>3, ProxyTypeCorrect, PTL DEF Spec
-----------------------------------------------------------------------------
(* The list *)

\* A list is a row's work away from those still to come, all of them there until
\* something is deleted.
ListInv ==
  /\ listing.step \in {"none", "row", "messages", "listed", "failed"}
  /\ listing.step \in {"row", "messages"} =>
       /\ listing.todo \in Seq(Requests)
       /\ ~listing.gone => \A i \in 1 .. Len(listing.todo) : request[listing.todo[i]] # None
  /\ listing.step = "messages" => listing.todo # <<>>
  /\ listing.step = "failed" => listing.gone \/ Spent("fails")

\* Without resumes and switches a completed turn is saved whole and stays so.
WholeInv ==
  scenario.resumes + scenario.flips = 0 =>
    /\ cut = 0 /\ prompts
    /\ request[Watched] # None /\ request[Watched].status = "ok" =>
         closed /\ Len(request[Watched].messages) = Len(log)
    /\ \A row \in listing.rows : row.of = Watched /\ row.status = "ok" =>
         /\ closed
         /\ Len(row.messages) = Len(log) \/ (row.messages = <<>> /\ listing.gone)
    /\ listing.step = "messages" /\ Head(listing.todo) = Watched /\ listing.status = "ok" =>
         closed /\ (request[Watched] # None => request[Watched].status = "ok")

LEMMA SequenceOfSet ==
  ASSUME NEW S \in SUBSET Requests
  PROVE  SetToSeq(S) \in Seq(S)
<1>1. IsFiniteSet(S)
  <2>1. IsFiniteSet(Calls \cup {Watched})
    BY StoreConstants, FS_AddElement
  <2>2. S \in SUBSET (Calls \cup {Watched})
    BY DEF Requests
  <2> QED
    BY <2>1, <2>2, FS_Subset
<1>2. Cardinality(S) \in Nat /\ ExistsBijection(1 .. Cardinality(S), S)
  BY <1>1, FS_CardinalityType
<1>3. \E f \in [1 .. Cardinality(S) -> S] : IsInjective(f)
  BY <1>2 DEF ExistsBijection, Bijection, Injection
<1>4. SetToSeq(S) \in [1 .. Cardinality(S) -> S]
  BY <1>3 DEF SetToSeq
<1> QED
  BY <1>2, <1>4

LEMMA ListingFields ==
  ASSUME ProxyInv
  PROVE  DOMAIN listing = {"step", "todo", "status", "rows", "gone"}
BY DEF ProxyInv, Shapes, ListingShape, NoListing

\* While nobody works on the list.
LEMMA ListKept ==
  ASSUME ListInv, UNCHANGED listing, Spent("fails") => Spent("fails")',
         \A r \in Requests : request[r] # None => request'[r] # None
  PROVE  ListInv'
<1> SUFFICES ASSUME listing.step \in {"row", "messages"}, ~listing.gone,
                    NEW i \in 1 .. Len(listing.todo)
             PROVE  request'[listing.todo[i]] # None
  BY DEF ListInv
<1>1. listing.todo \in Seq(Requests) /\ request[listing.todo[i]] # None
  BY DEF ListInv
<1>2. listing.todo[i] \in Requests
  BY <1>1
<1> QED
  BY <1>1, <1>2

\* While somebody does.
LEMMA ListAtWork ==
  ASSUME ProxyInv, ListInv, DashboardStep, UNCHANGED scenario
  PROVE  ListInv'
<1>1. DOMAIN listing = {"step", "todo", "status", "rows", "gone"}
  BY ListingFields
<1>2. UNCHANGED request
  BY DEF DashboardStep, ListIds, ReadRow, ReadMessages, ListFails, ListEnds, tables
<1>3. CASE ListIds
  <2> DEFINE S == {r \in Requests : request[r] # None}
  <2>1. listing'.step = "row" /\ listing'.todo = SetToSeq(S)
    BY <1>3 DEF ListIds, NoListing
  <2>2. SetToSeq(S) \in Seq(S)
    BY SequenceOfSet
  <2>3. \A i \in 1 .. Len(listing'.todo) : request[listing'.todo[i]] # None
    BY <2>1, <2>2
  <2>4. listing'.todo \in Seq(Requests)
    BY <2>1, <2>2
  <2> QED
    BY <1>2, <2>1, <2>3, <2>4 DEF ListInv
<1>4. CASE ReadRow
  <2>1. /\ listing.step = "row" /\ listing.todo # <<>> /\ listing.todo \in Seq(Requests)
        /\ ~listing.gone => \A i \in 1 .. Len(listing.todo) : request[listing.todo[i]] # None
    BY <1>4 DEF ReadRow, ListInv
  <2>2. /\ listing'.todo = listing.todo /\ listing'.gone = listing.gone
        /\ request[listing.todo[1]] = None => listing'.step = "failed"
        /\ request[listing.todo[1]] # None => listing'.step = "messages"
    BY <1>1, <1>4, <2>1 DEF ReadRow
  <2>3. 1 \in 1 .. Len(listing.todo)
    BY <2>1
  <2> QED
    BY <1>2, <2>1, <2>2, <2>3 DEF ListInv
<1>5. CASE ReadMessages
  <2>1. /\ listing.todo # <<>> /\ listing.todo \in Seq(Requests)
        /\ ~listing.gone => \A i \in 1 .. Len(listing.todo) : request[listing.todo[i]] # None
    BY <1>5 DEF ReadMessages, ListInv
  <2>2. /\ listing'.step = "row" /\ listing'.gone = listing.gone
        /\ listing'.todo = Tail(listing.todo)
    BY <1>1, <1>5 DEF ReadMessages
  <2>3. /\ listing'.todo \in Seq(Requests) /\ Len(listing'.todo) = Len(listing.todo) - 1
        /\ \A i \in 1 .. Len(listing'.todo) : /\ i + 1 \in 1 .. Len(listing.todo)
                                             /\ listing'.todo[i] = listing.todo[i + 1]
    BY <2>1, <2>2
  <2> QED
    BY <1>2, <2>1, <2>2, <2>3 DEF ListInv
<1>6. CASE ListEnds
  BY <1>1, <1>6 DEF ListEnds, ListInv
<1>7. CASE ListFails
  <2>1. listing'.step = "failed"
    BY <1>1, <1>7 DEF ListFails
  <2>2. Spent("fails")'
    BY <1>7, Spending DEF ListFails, ProxyInv, Bounds
  <2> QED
    BY <2>1, <2>2 DEF ListInv
<1> QED
  BY <1>3, <1>4, <1>5, <1>6, <1>7 DEF DashboardStep

\* So every step keeps it.
LEMMA ListKeptByAll ==
  ASSUME ProxyInv, CallsInv, ListInv, [Next]_vars
  PROVE  ListInv'
<1>0. UNCHANGED scenario /\ (Spent("fails") => Spent("fails")')
  BY StepSpends, BudgetFalls DEF ProxyInv, Bounds
<1>1. ASSUME NEW r \in Requests, DeleteSession(r) PROVE ListInv'
  <2>1. /\ listing'.gone = TRUE /\ listing'.step = listing.step /\ listing'.todo = listing.todo
    BY <1>1, ListingFields DEF DeleteSession
  <2> QED
    BY <2>1 DEF ListInv
<1>2. CASE DashboardStep
  BY <1>0, <1>2, ListAtWork
<1>3. CASE UNCHANGED listing /\ ~\E r \in Requests : DeleteSession(r)
  <2>1. CASE UNCHANGED request
    BY <1>0, <1>3, <2>1, ListKept
  <2>2. CASE SaveWatched
    BY <1>0, <1>3, <2>2, ListKept, WatchedSaved DEF Requests
  <2>3. ASSUME NEW c \in Calls, PersistCall(c) PROVE ListInv'
    <3>1. request[c] = None
      BY <2>3 DEF CallsInv, CallInv, PersistCall
    <3>2. \A r \in Requests \ {c} : request'[r] = request[r]
      BY <2>3, RequestNames DEF PersistCall, Save
    <3> QED
      BY <1>0, <1>3, <3>1, <3>2, ListKept
  <2> QED
    BY <1>3, <2>1, <2>2, <2>3, RowSteps
<1> QED
  BY <1>1, <1>2, <1>3, ListingSteps

LEMMA WholeKept ==
  ASSUME ProxyInv, ListInv, WholeInv, [Next]_vars
  PROVE  WholeInv'
<1>1. UNCHANGED scenario
  BY StepSpends DEF ProxyInv
<1> SUFFICES ASSUME scenario.resumes + scenario.flips = 0 PROVE WholeInv'
  BY <1>1 DEF WholeInv
<1>2. ~Spend("resumes") /\ ~Spend("flips")
  <2>1. /\ scenario["resumes"] \in Nat /\ scenario["flips"] \in Nat
        /\ budget["resumes"] \in 0 .. scenario["resumes"]
        /\ budget["flips"] \in 0 .. scenario["flips"]
    BY StoreConstants DEF ProxyInv, Within, Bounds
  <2> QED
    BY <2>1 DEF Spend
<1> DEFINE Whole(record) == record # None /\ record.status = "ok" =>
                              closed /\ Len(record.messages) = Len(log)
           Shown(rows, gone) == \A row \in rows : row.of = Watched /\ row.status = "ok" =>
                                  /\ closed
                                  /\ Len(row.messages) = Len(log) \/ (row.messages = <<>> /\ gone)
           Reading1 == listing.step = "messages" /\ Head(listing.todo) = Watched
                       /\ listing.status = "ok"
<1>3. /\ cut = 0 /\ prompts /\ Whole(request[Watched]) /\ Shown(listing.rows, listing.gone)
      /\ Reading1 => closed /\ (request[Watched] # None => request[Watched].status = "ok")
  BY DEF WholeInv
<1>4. ASSUME NEW item \in Items, CodexWrites(item) PROVE WholeInv'
  <2>1. ~closed /\ UNCHANGED <<closed, cut, prompts, request, listing>>
    BY <1>4 DEF CodexWrites, tables
  <2> QED
    BY <1>3, <2>1 DEF WholeInv
<1>5. CASE CodexCompletes \/ Restart
  <2>1. /\ UNCHANGED <<log, prompts, request, listing>> /\ cut' = 0
        /\ closed => closed'
    BY <1>3, <1>5 DEF CodexCompletes, Restart, tables
  <2> QED
    BY <1>3, <2>1 DEF WholeInv
<1>6. ASSUME NEW r \in Requests, DeleteSession(r) PROVE WholeInv'
  <2>1. /\ UNCHANGED <<log, closed, cut, prompts>>
        /\ request'[Watched] \in {request[Watched], None}
    BY <1>6, RequestNames DEF DeleteSession, codex
  <2>2. /\ listing'.gone = TRUE /\ listing'.step = listing.step /\ listing'.todo = listing.todo
        /\ listing'.status = listing.status /\ listing'.rows = listing.rows
    BY <1>6, ListingFields DEF DeleteSession
  <2> QED
    BY <1>3, <2>1, <2>2 DEF WholeInv
<1>7. CASE SaveWatched
  <2>1. /\ UNCHANGED <<log, closed, cut, prompts, listing>>
        /\ request'[Watched] = WatchedRecord
    BY <1>7, WatchedSaved
  <2>2. /\ WatchedRecord.status = "ok" <=> closed
        /\ Len(WatchedRecord.messages) = Len(log) /\ Len(log) \in Nat
    BY <1>3, RecordOfTurn DEF ProxyInv, Shapes, CodexShape
  <2> QED
    BY <1>3, <2>1, <2>2 DEF WholeInv
<1>8. ASSUME NEW c \in Calls, PersistCall(c) PROVE WholeInv'
  <2>1. /\ UNCHANGED <<log, closed, cut, prompts, listing>>
        /\ request'[Watched] = request[Watched]
    BY <1>8, RequestNames DEF PersistCall, Save, codex
  <2> QED
    BY <1>3, <2>1 DEF WholeInv
<1>9. CASE DashboardStep
  <2>1. UNCHANGED <<log, closed, cut, prompts, request>>
    BY <1>9 DEF DashboardStep, ListIds, ReadRow, ReadMessages, ListFails, ListEnds, codex,
      tables
  <2>2. DOMAIN listing = {"step", "todo", "status", "rows", "gone"}
    BY ListingFields
  <2>3. CASE ListIds
    <3>1. listing'.step = "row" /\ listing'.rows = {}
      BY <2>3 DEF ListIds, NoListing
    <3> QED
      BY <1>3, <2>1, <3>1 DEF WholeInv
  <2>4. CASE ReadRow
    <3>1. /\ listing'.rows = listing.rows /\ listing'.gone = listing.gone
          /\ listing'.todo = listing.todo
          /\ listing'.step = "messages" =>
               /\ request[Head(listing.todo)] # None
               /\ listing'.status = request[Head(listing.todo)].status
      BY <2>2, <2>4 DEF ReadRow
    <3> QED
      BY <1>3, <2>1, <3>1 DEF WholeInv
  <2>5. CASE ReadMessages
    <3> DEFINE r == Head(listing.todo)
               row == [of |-> r, status |-> listing.status,
                       messages |-> IF request[r] = None THEN <<>> ELSE request[r].messages]
    <3>1. /\ listing'.rows = listing.rows \cup {row} /\ listing'.gone = listing.gone
          /\ listing'.step = "row" /\ listing.step = "messages"
      BY <2>2, <2>5 DEF ReadMessages
    <3>2. request[r] = None => listing.gone
      <4>1. /\ listing.todo \in Seq(Requests) /\ listing.todo # <<>>
            /\ ~listing.gone => \A i \in 1 .. Len(listing.todo) : request[listing.todo[i]] # None
        BY <3>1 DEF ListInv
      <4>2. 1 \in 1 .. Len(listing.todo) /\ r = listing.todo[1]
        BY <4>1
      <4> QED
        BY <4>1, <4>2
    <3>3. r = Watched /\ row.status = "ok" =>
            /\ closed
            /\ Len(row.messages) = Len(log) \/ (row.messages = <<>> /\ listing.gone)
      BY <1>3, <3>1, <3>2
    <3>4. row.of = r
      OBVIOUS
    <3> HIDE DEF row, r
    <3> QED
      BY <1>3, <2>1, <3>1, <3>3, <3>4 DEF WholeInv
  <2>6. CASE ListEnds
    BY <1>3, <2>1, <2>2, <2>6 DEF ListEnds, WholeInv
  <2>7. CASE ListFails
    BY <1>3, <2>1, <2>2, <2>7 DEF ListFails, WholeInv
  <2> QED
    BY <1>9, <2>3, <2>4, <2>5, <2>6, <2>7 DEF DashboardStep
<1>10. CASE UNCHANGED <<log, closed, cut, prompts, request, listing>>
  BY <1>3, <1>10 DEF WholeInv
<1>11. ~Resume /\ ~Flip
  BY <1>2 DEF Resume, Flip, FlipPrompts
<1> QED
  BY <1>4, <1>5, <1>6, <1>7, <1>8, <1>9, <1>10, <1>11, CodexSteps, RowSteps, ListingSteps

\* A list fails only over a deletion or an error of the database, and shows a
\* completed turn whole, or bare when it was deleted in between
\* (conversations.go:255-294).
THEOREM ListingAlwaysFaithful == Spec => []ListingFaithful
<1>1. Init => ListInv /\ WholeInv
  BY DEF Init, StoreInit, ListInv, WholeInv, NoListing, Requests
<1>2. ProxyInv /\ CallsInv /\ ListInv /\ WholeInv /\ [Next]_vars => ListInv' /\ WholeInv'
  BY ListKeptByAll, WholeKept
<1>3. ListInv /\ WholeInv => ListingFaithful
  BY DEF ListInv, WholeInv, ListingFaithful, Spent
<1> QED
  BY <1>1, <1>2, <1>3, CallsInvariant, PTL DEF Spec
-----------------------------------------------------------------------------
(* Sequences *)

\* A sequence is the function on 1 .. Len of its members.
LEMMA SequenceIs ==
  ASSUME NEW s, IsSequence(s)
  PROVE  Len(s) \in Nat /\ DOMAIN s = 1 .. Len(s) /\ s = [i \in 1 .. Len(s) |-> s[i]]
BY DEF IsSequence

\* A function on 1 .. n is a sequence of length n.
LEMMA SequenceMade ==
  ASSUME NEW n \in Nat, NEW s, s = [i \in 1 .. n |-> s[i]]
  PROVE  IsSequence(s) /\ Len(s) = n
<1> DEFINE T == ToSet(s)
<1>1. \A i \in 1 .. n : s[i] \in T
  <2>1. DOMAIN s = 1 .. n
    OBVIOUS
  <2> QED
    BY <2>1 DEF ToSet
<1> HIDE DEF T
<1>2. s \in [1 .. n -> T]
  BY <1>1
<1>3. s \in Seq(T) /\ Len(s) = n
  BY <1>2
<1> QED
  BY <1>3 DEF IsSequence, T

\* What is joined of sequences is one.
LEMMA SequencesJoined ==
  ASSUME NEW s, IsSequence(s), NEW t, IsSequence(t)
  PROVE  IsSequence(s \o t) /\ Len(s \o t) = Len(s) + Len(t)
<1> DEFINE U == ToSet(s) \cup ToSet(t)
           q == s \o t
<1>1. s \in Seq(U) /\ t \in Seq(U)
  <2>1. s \in Seq(ToSet(s)) /\ t \in Seq(ToSet(t))
    BY DEF IsSequence
  <2> DEFINE A == ToSet(s)
             B == ToSet(t)
  <2>2. s \in Seq(A) /\ t \in Seq(B) /\ A \subseteq U /\ B \subseteq U
    BY <2>1
  <2> HIDE DEF A, B, U
  <2>3. s \in [1 .. Len(s) -> U] /\ t \in [1 .. Len(t) -> U] /\ Len(s) \in Nat /\ Len(t) \in Nat
    BY <2>2
  <2> QED
    BY <2>3
<1> HIDE DEF U
<1>2. q \in Seq(U) /\ Len(q) = Len(s) + Len(t) /\ Len(q) \in Nat
  BY <1>1
<1>3. q = [i \in 1 .. Len(q) |-> q[i]]
  <2> HIDE DEF q
  <2> QED
    BY <1>2
<1>4. IsSequence(q)
  BY <1>2, <1>3, SequenceMade
<1> QED
  BY <1>2, <1>4

\* What is where in two sequences joined.
LEMMA JoinedAt ==
  ASSUME NEW s, IsSequence(s), NEW t, IsSequence(t), NEW i \in 1 .. Len(s) + Len(t)
  PROVE  (s \o t)[i] = IF i <= Len(s) THEN s[i] ELSE t[i - Len(s)]
<1> DEFINE U == ToSet(s) \cup ToSet(t)
<1>1. s \in Seq(U) /\ t \in Seq(U)
  <2> DEFINE A == ToSet(s)
             B == ToSet(t)
  <2>1. s \in Seq(A) /\ t \in Seq(B) /\ A \subseteq U /\ B \subseteq U
    BY DEF IsSequence
  <2> HIDE DEF A, B, U
  <2>2. s \in [1 .. Len(s) -> U] /\ t \in [1 .. Len(t) -> U] /\ Len(s) \in Nat /\ Len(t) \in Nat
    BY <2>1
  <2> QED
    BY <2>2
<1> HIDE DEF U
<1> QED
  BY <1>1

\* A sequence has finitely many elements.
LEMMA SequenceFinite ==
  ASSUME NEW s, NEW n \in Nat, DOMAIN s = 1 .. n
  PROVE  IsFiniteSet(ToSet(s))
<1> DEFINE f == [i \in 1 .. n |-> s[i]]
<1>1. f \in Surjection(1 .. n, ToSet(s))
  BY DEF Surjection, ToSet
<1>2. IsFiniteSet(1 .. n)
  BY FS_Interval
<1> QED
  BY <1>1, <1>2, FS_Surjection
-----------------------------------------------------------------------------
(* The order of a session's evidence *)

\* Evidence that the list can tell apart.
Ordered(S) == \A d, e \in S : /\ d.at \in Int /\ d.id.of[2] \in Int
                              /\ d.at = e.at /\ d.id.of[2] = e.id.of[2] => d = e

\* A list of different entries.
AllDifferent(q) == /\ \E n \in Nat : DOMAIN q = 1 .. n
                   /\ \A i, j \in DOMAIN q : q[i] = q[j] => i = j

\* A finite set its members' times and ids order is listed whole, each once.
LEMMA ListedIs ==
  ASSUME NEW S, IsFiniteSet(S), Ordered(S)
  PROVE  ToSet(Listed(S)) = S /\ AllDifferent(Listed(S))
<1> DEFINE n == Cardinality(S)
           R == {p \in S \X S : Before(p[1], p[2])}
           q == Enumeration(R, S)
<1>1. \A d, e \in S : <<d, e>> \in R <=> Before(d, e)
  OBVIOUS
<1>2. TotallyOrders(R, S)
  <2> HIDE DEF R
  <2>1. \A d \in S : <<d, d>> \notin R
    BY <1>1 DEF Before, Ordered
  <2>2. \A d, e, f \in S : <<d, e>> \in R /\ <<e, f>> \in R => <<d, f>> \in R
    BY <1>1 DEF Before, Ordered
  <2>3. \A d, e \in S : d = e \/ <<d, e>> \in R \/ <<e, d>> \in R
    <3> SUFFICES ASSUME NEW d \in S, NEW e \in S
                 PROVE  d = e \/ Before(d, e) \/ Before(e, d)
      BY <1>1
    <3>1. /\ d.at \in Int /\ e.at \in Int /\ d.id.of[2] \in Int /\ e.id.of[2] \in Int
          /\ d.at = e.at /\ d.id.of[2] = e.id.of[2] => d = e
      BY DEF Ordered
    <3>2. \/ d.at < e.at \/ e.at < d.at
          \/ d.at = e.at /\ \/ d.id.of[2] < e.id.of[2]
                            \/ e.id.of[2] < d.id.of[2]
                            \/ d.id.of[2] = e.id.of[2]
      BY <3>1
    <3> QED
      BY <3>1, <3>2, Zenon DEF Before
  <2> QED
    BY <2>1, <2>2, <2>3 DEF TotallyOrders
<1>3. \A e \in S : SetLessThan(e, R, S) = {d \in S : Before(d, e)}
  <2> HIDE DEF R
  <2> QED
    BY <1>1 DEF SetLessThan
<1>4. Listed(S) = q
  <2>1. ASSUME NEW i \in 1 .. n
        PROVE  (CHOOSE e \in S : Cardinality({d \in S : Before(d, e)}) = i - 1) = q[i]
    <3> HIDE DEF R
    <3>1. \A e \in S : Cardinality({d \in S : Before(d, e)}) = i - 1
                         <=> Cardinality(SetLessThan(e, R, S)) = i - 1
      BY <1>3
    <3> QED
      BY <3>1 DEF Enumeration
  <2>2. Listed(S) = [i \in 1 .. n |-> CHOOSE e \in S :
                                        Cardinality({d \in S : Before(d, e)}) = i - 1]
    BY DEF Listed
  <2>3. q = [i \in 1 .. n |-> q[i]]
    BY DEF Enumeration
  <2> HIDE DEF q
  <2> QED
    BY <2>1, <2>2, <2>3
<1>5. /\ \A i \in 1 .. n : q[i] \in S
      /\ \A e \in S : \E i \in 1 .. n : q[i] = e
      /\ \A i, j \in 1 .. n : <<q[i], q[j]>> \in R <=> i < j
  <2> HIDE DEF R
  <2> QED
    BY <1>2, Enumerated
<1>6. DOMAIN q = 1 .. n /\ n \in Nat
  BY FS_CardinalityType DEF Enumeration
<1>7. \A i, j \in 1 .. n : q[i] = q[j] => i = j
  <2> SUFFICES ASSUME NEW i \in 1 .. n, NEW j \in 1 .. n, q[i] = q[j] PROVE i = j
    OBVIOUS
  <2>1. <<q[i], q[j]>> \notin R /\ <<q[j], q[i]>> \notin R
    <3> HIDE DEF R, q
    <3> QED
      BY <1>2, <1>5 DEF TotallyOrders
  <2>2. ~(i < j) /\ ~(j < i)
    <3> HIDE DEF R, q
    <3> QED
      BY <1>5, <2>1
  <2> QED
    BY <1>6, <2>2
<1> HIDE DEF q, R
<1>8. ToSet(q) = S
  BY <1>5, <1>6 DEF ToSet
<1>9. AllDifferent(q)
  BY <1>6, <1>7 DEF AllDifferent
<1> QED
  BY <1>4, <1>8, <1>9
-----------------------------------------------------------------------------
(* What a call has taken down *)

\* The decoder keeps its parts by index, finitely many; request, reply and result
\* are sequences.
CallData(c) ==
  LET k == call[c]
  IN  /\ DOMAIN k.decoder = DOMAIN NewDecoder
      /\ DOMAIN k.decoder.assembly = DOMAIN NewAssembly
      /\ IsFiniteSet(DOMAIN k.decoder.assembly.parts)
      /\ IsSequence(k.history) /\ IsSequence(k.response.messages)
      /\ k.step \in Reading => IsSequence(k.reply.fragments)

\* Nothing taken down is a sequence.
LEMMA EmptySequence == IsSequence(<<>>) /\ DOMAIN <<>> = {} /\ IsFiniteSet(DOMAIN <<>>)
<1>1. DOMAIN <<>> = {} /\ <<>> \in Seq({})
  OBVIOUS
<1>2. ToSet(<<>>) = {}
  BY <1>1 DEF ToSet
<1> QED
  BY <1>1, <1>2, FS_EmptySet DEF IsSequence

\* One message is a sequence.
LEMMA OneSequence ==
  ASSUME NEW x
  PROVE  IsSequence(<<x>>)
<1>1. <<x>> = [i \in 1 .. 1 |-> <<x>>[i]]
  OBVIOUS
<1> QED
  BY <1>1, SequenceMade

\* A function on the domain of a sequence is one.
LEMMA SequenceMapped ==
  ASSUME NEW s, IsSequence(s), NEW t, t = [i \in DOMAIN s |-> t[i]]
  PROVE  IsSequence(t) /\ Len(t) = Len(s) /\ DOMAIN t = DOMAIN s
<1>1. Len(s) \in Nat /\ DOMAIN s = 1 .. Len(s)
  BY SequenceIs
<1>2. t = [i \in 1 .. Len(s) |-> t[i]] /\ DOMAIN t = DOMAIN s
  BY <1>1
<1> QED
  BY <1>1, <1>2, SequenceMade

\* The parts of an assembly, read in the order of their indices.
LEMMA SequencePicked ==
  ASSUME NEW s, NEW places, IsFiniteSet(places)
  PROVE  IsSequence(Picked(s, places))
<1> DEFINE q == Picked(s, places)
<1>1. Cardinality(places) \in Nat
  BY FS_CardinalityType
<1>2. q = [j \in 1 .. Cardinality(places) |-> q[j]]
  BY DEF Picked
<1> HIDE DEF q
<1>3. IsSequence(q)
  BY <1>1, <1>2, SequenceMade
<1> QED
  BY <1>3 DEF q

\* The messages of a request, in either protocol.
LEMMA RequestIsSequence ==
  ASSUME NEW protocol, NEW body, IsSequence(body.messages), IsSequence(body.input)
  PROVE  IsSequence(ParseRequest(protocol, body))
<1> DEFINE named(m) == IF protocol = "openai" /\ m.role = "tool" THEN m.tool ELSE ""
           messages == [i \in DOMAIN body.messages |->
                          [body.messages[i] EXCEPT !.tool = named(body.messages[i])]]
           input == [i \in DOMAIN body.input |->
                       [body.input[i] EXCEPT !.tool = "", !.role = IF @ = "" THEN "user" ELSE @]]
           system == IF body.system = <<>> THEN <<>>
                     ELSE <<[role |-> "system", tool |-> "", text |-> body.system]>>
           rest == IF protocol = "openai" /\ messages = <<>> THEN input ELSE messages
<1>1. ParseRequest(protocol, body) = system \o rest
  BY DEF ParseRequest
<1>2. IsSequence(messages)
  <2>1. messages = [i \in DOMAIN body.messages |-> messages[i]]
    OBVIOUS
  <2> HIDE DEF messages
  <2> QED
    BY <2>1, SequenceMapped
<1>3. IsSequence(input)
  <2>1. input = [i \in DOMAIN body.input |-> input[i]]
    OBVIOUS
  <2> HIDE DEF input
  <2> QED
    BY <2>1, SequenceMapped
<1>4. IsSequence(system)
  BY EmptySequence, OneSequence
<1>5. IsSequence(rest)
  <2> HIDE DEF messages, input
  <2> QED
    BY <1>2, <1>3
<1> HIDE DEF system, rest
<1> QED
  BY <1>1, <1>4, <1>5, SequencesJoined

\* The messages an assembler has put together.
LEMMA AssembledIsSequence ==
  ASSUME NEW assembly, IsFiniteSet(DOMAIN assembly.parts)
  PROVE  IsSequence(Assembled(assembly).messages)
<1> DEFINE inOrder == Picked(assembly.parts, DOMAIN assembly.parts)
           parts == [i \in DOMAIN inOrder |-> PartMessage(inOrder[i])]
           said == IF assembly.text = <<>> THEN <<>>
                   ELSE <<[role |-> "assistant", text |-> assembly.text]>>
<1>1. IsSequence(inOrder)
  BY SequencePicked
<1>2. Assembled(assembly).messages = said \o parts
  BY DEF Assembled
<1>3. parts = [i \in DOMAIN inOrder |-> parts[i]]
  <2> HIDE DEF inOrder
  <2> QED
    OBVIOUS
<1> HIDE DEF inOrder
<1>4. IsSequence(parts)
  <2> HIDE DEF parts
  <2> QED
    BY <1>1, <1>3, SequenceMapped
<1>5. IsSequence(said)
  BY EmptySequence, OneSequence
<1> HIDE DEF said, parts
<1> QED
  BY <1>2, <1>4, <1>5, SequencesJoined

\* The messages of a whole response.
LEMMA ResponseIsSequence ==
  ASSUME NEW protocol, NEW body, NEW fragments, IsSequence(fragments)
  PROVE  IsSequence(ParseResponse(protocol, body, fragments).messages)
<1> DEFINE places == {i \in DOMAIN fragments : fragments[i].type \in {"text", "tool"}}
           said == Picked(fragments, places)
           messages == [i \in DOMAIN said |->
                          [role |-> IF said[i].type = "tool" THEN "tool" ELSE "assistant",
                           text |-> <<said[i].text>>]]
<1>1. IsFiniteSet(places)
  <2>1. Len(fragments) \in Nat /\ DOMAIN fragments = 1 .. Len(fragments)
    BY SequenceIs
  <2>2. IsFiniteSet(DOMAIN fragments)
    BY <2>1, FS_Interval
  <2> QED
    BY <2>2, FS_Subset
<1>2. IsSequence(said)
  <2> HIDE DEF places
  <2> QED
    BY <1>1, SequencePicked
<1>3. \/ ParseResponse(protocol, body, fragments).messages = <<>>
      \/ ParseResponse(protocol, body, fragments).messages = messages
  BY DEF ParseResponse, Spoiled
<1>4. IsSequence(messages)
  <2> HIDE DEF said
  <2>1. messages = [i \in DOMAIN said |-> messages[i]]
    OBVIOUS
  <2> HIDE DEF messages
  <2> QED
    BY <1>2, <2>1, SequenceMapped
<1> HIDE DEF messages
<1> QED
  BY <1>3, <1>4, EmptySequence
-----------------------------------------------------------------------------
(* The decoder keeps its shape. *)
DecoderOK(d) == /\ DOMAIN d = DOMAIN NewDecoder
                /\ DOMAIN d.assembly = DOMAIN NewAssembly
                /\ IsFiniteSet(DOMAIN d.assembly.parts)

\* One more index leaves a table of parts finite.
LEMMA PutFinite ==
  ASSUME NEW f, IsFiniteSet(DOMAIN f), NEW x, NEW y
  PROVE  IsFiniteSet(DOMAIN Put(f, x, y))
<1>1. IsFiniteSet(DOMAIN f \cup {x})
  BY FS_AddElement
<1> QED
  BY <1>1 DEF Put

\* An event of the stream leaves the assembly with finitely many parts.
LEMMA AssemblyKept ==
  ASSUME NEW a, DOMAIN a = DOMAIN NewAssembly, IsFiniteSet(DOMAIN a.parts),
         NEW protocol, NEW p
  PROVE  LET b == Consume(protocol, a, p)
         IN  DOMAIN b = DOMAIN NewAssembly /\ IsFiniteSet(DOMAIN b.parts)
<1> DEFINE OK(b) == DOMAIN b = DOMAIN NewAssembly /\ IsFiniteSet(DOMAIN b.parts)
<1>1. ASSUME NEW y PROVE OK([a EXCEPT !.parts = Put(@, p.at, y)])
  <2> DEFINE f == Put(a.parts, p.at, y)
             b == [a EXCEPT !.parts = f]
  <2>1. IsFiniteSet(DOMAIN f)
    BY PutFinite
  <2> HIDE DEF f
  <2>2. DOMAIN b = DOMAIN a /\ b.parts = f
    BY DEF NewAssembly
  <2> HIDE DEF b
  <2>3. OK(b)
    BY <2>1, <2>2
  <2> QED
    BY <2>3 DEF b, f
<1>2. ASSUME NEW y PROVE OK([a EXCEPT !.text = y]) /\ OK([a EXCEPT !.usage = y])
  BY DEF NewAssembly
<1> HIDE DEF OK
<1>3. OK(a)
  BY DEF OK
<1>4. OK(OpenAIConsume(a, p))
  BY <1>1, <1>2, <1>3 DEF OpenAIConsume
<1>5. OK(AnthropicConsume(a, p))
  BY <1>1, <1>2, <1>3 DEF AnthropicConsume
<1> QED
  BY <1>4, <1>5 DEF Consume, OK

\* The decoder keeps its shape over a block,
LEMMA TakenKept ==
  ASSUME NEW protocol, NEW d, DecoderOK(d), NEW block
  PROVE  DecoderOK(TakeBlock(protocol, d, block))
<1>1. DOMAIN d = DOMAIN NewDecoder /\ DOMAIN d.assembly = DOMAIN NewAssembly
      /\ IsFiniteSet(DOMAIN d.assembly.parts)
  BY DEF DecoderOK
<1>2. CASE TakeBlock(protocol, d, block) = d
  BY <1>2
<1>3. CASE TakeBlock(protocol, d, block) = [d EXCEPT !.failed = TRUE]
  BY <1>1, <1>3 DEF DecoderOK, NewDecoder
<1>4. ASSUME NEW p, TakeBlock(protocol, d, block) = [d EXCEPT !.assembly = Consume(protocol, @, p)]
      PROVE  DecoderOK(TakeBlock(protocol, d, block))
  <2> DEFINE b == Consume(protocol, d.assembly, p)
             e == [d EXCEPT !.assembly = b]
  <2>1. DOMAIN b = DOMAIN NewAssembly /\ IsFiniteSet(DOMAIN b.parts)
    BY <1>1, AssemblyKept
  <2>2. TakeBlock(protocol, d, block) = e
    BY <1>4
  <2> HIDE DEF b
  <2>3. DOMAIN e = DOMAIN d /\ e.assembly = b
    BY <1>1 DEF NewDecoder
  <2> QED
    BY <1>1, <2>1, <2>2, <2>3 DEF DecoderOK
<1> QED
  BY <1>2, <1>3, <1>4 DEF TakeBlock

\* over the end of one,
LEMMA NextKept ==
  ASSUME NEW protocol, NEW d, DecoderOK(d)
  PROVE  DecoderOK(NextBlock(protocol, d))
<1> DEFINE end == First(Separators(d.buffer))
           e == [d EXCEPT !.buffer = SubSeq(@, end + 2, Len(@))]
<1>1. DecoderOK(e)
  BY DEF DecoderOK, NewDecoder
<1>2. NextBlock(protocol, d) = TakeBlock(protocol, e, SubSeq(d.buffer, 1, end - 1))
  BY DEF NextBlock
<1> HIDE DEF e, end
<1> QED
  BY <1>1, <1>2, TakenKept

\* and over a chunk that fills its buffer.
LEMMA FilledKept ==
  ASSUME NEW limit, NEW d, DecoderOK(d), NEW chunk
  PROVE  DecoderOK(Filled(limit, d, chunk))
BY DEF DecoderOK, NewDecoder, Filled

\* What the decoder makes of all it was given.
LEMMA CompleteIsSequence ==
  ASSUME NEW protocol, NEW d, DecoderOK(d)
  PROVE  IsSequence(Complete(protocol, d).messages)
<1> DEFINE f == TakeBlock(protocol, d, d.buffer)
<1>1. DecoderOK(f)
  BY TakenKept
<1>2. IsSequence(Assembled(f.assembly).messages)
  BY <1>1, AssembledIsSequence DEF DecoderOK
<1>3. Complete(protocol, d) = Spoiled \/ Complete(protocol, d) = Assembled(f.assembly)
  BY DEF Complete
<1>4. Spoiled.messages = <<>>
  BY DEF Spoiled
<1> HIDE DEF f
<1> QED
  BY <1>2, <1>3, <1>4, EmptySequence
-----------------------------------------------------------------------------
\* A call's own step keeps what it took down in shape;
LEMMA CallDataMoves ==
  ASSUME ProxyInv, NEW c \in Calls, CallData(c), CallStep(c), scenario \in Scenarios
  PROVE  CallData(c)'
<1>1. DOMAIN call = Calls /\ DOMAIN call[c] = DOMAIN Unborn
  BY DEF ProxyInv, Shapes, CallShape
<1>2. /\ DecoderOK(call[c].decoder)
      /\ IsSequence(call[c].history) /\ IsSequence(call[c].response.messages)
      /\ call[c].step \in Reading => IsSequence(call[c].reply.fragments)
  BY DEF CallData, DecoderOK
<1>3. ASSUME NEW k, call' = [call EXCEPT ![c] = k], DecoderOK(k.decoder),
             IsSequence(k.history), IsSequence(k.response.messages),
             k.step \in Reading => IsSequence(k.reply.fragments)
      PROVE  CallData(c)'
  <2>1. call'[c] = k
    BY <1>1, <1>3
  <2> QED
    BY <1>3, <2>1 DEF CallData, DecoderOK
<1>4. ASSUME NEW step, Goes(c, step), step \notin Reading \/ call[c].step \in Reading
      PROVE  CallData(c)'
  <2> DEFINE k == [call[c] EXCEPT !.step = step]
  <2>1. call' = [call EXCEPT ![c] = k]
    BY <1>4 DEF Goes
  <2>2. /\ k.decoder = call[c].decoder /\ k.history = call[c].history
        /\ k.response = call[c].response /\ k.reply = call[c].reply /\ k.step = step
    BY <1>1 DEF Unborn
  <2> HIDE DEF k
  <2> QED
    BY <1>2, <1>3, <1>4, <2>1, <2>2
<1>5. CASE Arrive(c)
  <2>1. CASE Goes(c, "refused")
    BY <1>4, <2>1 DEF Reading
  <2>2. CASE ~Goes(c, "refused")
    <3>1. PICK body \in Bodies(scenario.replies), reply \in Replies(scenario.replies) :
            call' = [call EXCEPT ![c].step = "waiting", ![c].reply = reply,
                                 ![c].history = ParseRequest(reply.protocol, body)]
      BY <1>5, <2>2 DEF Arrive
    <3> DEFINE history == ParseRequest(reply.protocol, body)
               k == [call[c] EXCEPT !.step = "waiting", !.reply = reply, !.history = history]
    <3>2. IsSequence(history) /\ IsSequence(reply.fragments)
      BY CaptureConstants, RequestIsSequence
    <3> HIDE DEF history
    <3>3. call' = [call EXCEPT ![c] = k]
      BY <3>1 DEF history
    <3>4. /\ k.decoder = call[c].decoder /\ k.history = history
          /\ k.response = call[c].response /\ k.reply = reply
      BY <1>1 DEF Unborn
    <3> HIDE DEF k
    <3> QED
      BY <1>2, <1>3, <3>2, <3>3, <3>4
  <2> QED
    BY <2>1, <2>2
<1>6. CASE \/ UpstreamAnswers(c) \/ Unavailable502(c) \/ ClientGone(c) \/ StreamBreaks(c)
           \/ PersistFails(c) \/ PersistCall(c)
  BY <1>4, <1>6 DEF UpstreamAnswers, Unavailable502, ClientGone, StreamBreaks, PersistFails,
                    PersistCall, Reading
<1>7. CASE Read(c)
  <2>1. PICK n \in 1 .. Len(call[c].reply.bytes) - call[c].read :
          call' = [call EXCEPT ![c] =
                     [Captured(call[c], SubSeq(call[c].reply.bytes, call[c].read + 1,
                                               call[c].read + n)) EXCEPT !.read = @ + n]]
    BY <1>7 DEF Read
  <2> DEFINE chunk == SubSeq(call[c].reply.bytes, call[c].read + 1, call[c].read + n)
             captured == Captured(call[c], chunk)
             k == [captured EXCEPT !.read = @ + n]
  <2>2. DecoderOK(Filled(CaptureLimit, call[c].decoder, chunk))
    BY <1>2, FilledKept
  <2> HIDE DEF chunk
  <2>3. /\ DOMAIN captured = DOMAIN Unborn
        /\ captured.decoder \in {call[c].decoder, Filled(CaptureLimit, call[c].decoder, chunk)}
        /\ captured.history = call[c].history
        /\ captured.response = call[c].response /\ captured.reply = call[c].reply
    BY <1>1 DEF Captured, Unborn
  <2> HIDE DEF captured
  <2>4. call' = [call EXCEPT ![c] = k]
    BY <2>1 DEF captured, chunk
  <2>5. /\ k.decoder = captured.decoder /\ k.history = captured.history
        /\ k.response = captured.response /\ k.reply = captured.reply
    BY <2>3 DEF Unborn
  <2>6. call[c].step \in Reading
    BY <1>7 DEF Read, Reading
  <2> HIDE DEF k
  <2> QED
    BY <1>2, <1>3, <2>2, <2>3, <2>4, <2>5, <2>6
<1>8. CASE AddBlock(c)
  <2> DEFINE d == NextBlock(call[c].reply.protocol, call[c].decoder)
             k == IF HasBlock(call[c].decoder)
                  THEN [call[c] EXCEPT !.decoder = d]
                  ELSE [call[c] EXCEPT !.step = "writing", !.capturing = ~call[c].decoder.failed]
  <2>1. DecoderOK(d)
    BY <1>2, NextKept
  <2>2. call' = [call EXCEPT ![c] = k]
    BY <1>1, <1>8 DEF AddBlock, Unborn
  <2> HIDE DEF d
  <2>3. /\ k.decoder \in {d, call[c].decoder} /\ k.history = call[c].history
        /\ k.response = call[c].response /\ k.reply = call[c].reply
    BY <1>1 DEF Unborn
  <2>4. call[c].step \in Reading
    BY <1>8 DEF AddBlock, Reading
  <2> HIDE DEF k
  <2> QED
    BY <1>2, <1>3, <2>1, <2>2, <2>3, <2>4
<1>9. CASE Write(c)
  <2> DEFINE k == [call[c] EXCEPT !.step = "copying", !.written = call[c].read]
  <2>1. call' = [call EXCEPT ![c] = k]
    BY <1>9 DEF Write
  <2>2. /\ k.decoder = call[c].decoder /\ k.history = call[c].history
        /\ k.response = call[c].response /\ k.reply = call[c].reply
    BY <1>1 DEF Unborn
  <2>3. call[c].step \in Reading
    BY <1>9 DEF Write, Reading
  <2> HIDE DEF k
  <2> QED
    BY <1>2, <1>3, <2>1, <2>2, <2>3
<1>10. CASE StreamEnds(c)
  <2> DEFINE response == Parsed(call[c])
             k == [call[c] EXCEPT !.step = "parsed", !.response = response, !.shown = prompts]
  <2>1. IsSequence(response.messages)
    <3>1. IsSequence(call[c].reply.fragments)
      BY <1>2, <1>10 DEF StreamEnds, Reading
    <3>2. \/ response.messages = <<>>
          \/ response = Complete(call[c].reply.protocol, call[c].decoder)
          \/ response = ParseResponse(call[c].reply.protocol, call[c].body,
                                      call[c].reply.fragments)
      BY DEF Parsed
    <3> HIDE DEF response
    <3> QED
      BY <1>2, <3>1, <3>2, EmptySequence, CompleteIsSequence, ResponseIsSequence
  <2>2. call' = [call EXCEPT ![c] = k]
    BY <1>10 DEF StreamEnds
  <2> HIDE DEF response
  <2>3. /\ k.decoder = call[c].decoder /\ k.history = call[c].history
        /\ k.response = response /\ k.step = "parsed"
    BY <1>1 DEF Unborn
  <2> HIDE DEF k
  <2> QED
    BY <1>2, <1>3, <2>1, <2>2, <2>3 DEF Reading
<1>11. CASE ReadPrivacy(c)
  <2>1. PICK hidden \in BOOLEAN :
          call' = [call EXCEPT ![c].step = "saving", ![c].hidden = hidden]
    BY <1>11 DEF ReadPrivacy
  <2> DEFINE k == [call[c] EXCEPT !.step = "saving", !.hidden = hidden]
  <2>2. call' = [call EXCEPT ![c] = k]
    BY <2>1
  <2>3. /\ k.decoder = call[c].decoder /\ k.history = call[c].history
        /\ k.response = call[c].response /\ k.step = "saving"
    BY <1>1 DEF Unborn
  <2> HIDE DEF k
  <2> QED
    BY <1>2, <1>3, <2>2, <2>3 DEF Reading
<1> QED
  BY <1>5, <1>6, <1>7, <1>8, <1>9, <1>10, <1>11 DEF CallStep, Handler

\* every step does,
LEMMA CallDataKept ==
  ASSUME ProxyInv, \A c \in Calls : CallData(c), [Next]_vars
  PROVE  \A c \in Calls : CallData(c)'
<1> SUFFICES ASSUME NEW c \in Calls PROVE CallData(c)'
  OBVIOUS
<1>1. DOMAIN call = Calls /\ DOMAIN call[c] = DOMAIN Unborn
  BY DEF ProxyInv, Shapes, CallShape
<1>2. ASSUME \/ call'[c] = call[c]
             \/ \E step : call'[c] = [call[c] EXCEPT !.step = step] /\ step \notin Reading
             \/ \E shown : call'[c] = [call[c] EXCEPT !.shown = shown]
      PROVE  CallData(c)'
  <2>1. /\ call'[c].decoder = call[c].decoder /\ call'[c].history = call[c].history
        /\ call'[c].response = call[c].response /\ call'[c].reply = call[c].reply
        /\ call'[c].step = call[c].step \/ call'[c].step \notin Reading
    BY <1>1, <1>2 DEF Unborn
  <2> QED
    BY <2>1 DEF CallData
<1>3. CASE UNCHANGED <<call, wrapper>> \/ CommandEnds
  BY <1>2, <1>3 DEF CommandEnds
<1>4. ASSUME NEW d \in Calls, CallStep(d) PROVE CallData(c)'
  <2>1. CASE d = c
    BY <1>4, <2>1, CallDataMoves DEF ProxyInv, Within
  <2>2. CASE d # c
    BY <1>2, <1>4, <2>2, OneCallMoves DEF ProxyInv, Shapes
  <2> QED
    BY <2>1, <2>2
<1>5. CASE Exit
  <2>1. \/ call'[c] = call[c]
        \/ call'[c] = [call[c] EXCEPT !.step = "killed"]
    BY <1>5 DEF Exit
  <2> QED
    BY <1>2, <2>1 DEF Reading
<1>6. CASE Flip
  <2>1. call'[c] = [call[c] EXCEPT !.shown = @ \/ (prompts' /\ call[c].step = "parsed")]
    BY <1>6 DEF Flip
  <2> QED
    BY <1>2, <2>1
<1> QED
  BY <1>3, <1>4, <1>5, <1>6, CallSteps

\* and it starts so.
LEMMA CallDataAtStart ==
  ASSUME Init, NEW c \in Calls
  PROVE  CallData(c)
<1>1. call[c] = Unborn
  BY DEF Init
<1>2. /\ Unborn.decoder = NewDecoder /\ NewDecoder.assembly = NewAssembly
      /\ NewAssembly.parts = <<>> /\ Unborn.history = <<>> /\ Unborn.step = "none"
      /\ Unborn.response.messages = <<>>
  BY DEF Unborn, NewDecoder, NewAssembly, Spoiled
<1> QED
  BY <1>1, <1>2, EmptySequence DEF CallData, Reading
-----------------------------------------------------------------------------
(* What a save adds to the evidence *)

\* A record projects to finitely many events.
LEMMA ProjectedFinite ==
  ASSUME NEW record, IsSequence(record.messages)
  PROVE  IsFiniteSet(Projected(record))
<1> DEFINE T == ToolMessages(record)
           type == IF record.status = "failed" THEN "tool.failed" ELSE "tool.completed"
           f == [m \in T |-> Event(m, type)]
           E == {Event(m, type) : m \in T}
           done == Event([id |-> record.id, tool |-> "", text |-> <<>>, at |-> record.at],
                         "command.completed")
<1>1. IsFiniteSet(T)
  <2>1. Len(record.messages) \in Nat /\ DOMAIN record.messages = 1 .. Len(record.messages)
    BY SequenceIs
  <2>2. IsFiniteSet(ToSet(record.messages))
    BY <2>1, SequenceFinite
  <2> QED
    BY <2>2, FS_Subset DEF ToolMessages
<1>2. Projected(record) = E \cup (IF record.status # "ok" THEN {} ELSE {done})
  BY DEF Projected
<1> HIDE DEF T
<1>3. IsFiniteSet(E)
  <2>1. f \in Surjection(T, E)
    BY DEF Surjection
  <2> HIDE DEF f, E
  <2> QED
    BY <1>1, <2>1, FS_Surjection
<1>4. IsFiniteSet(E \cup {done})
  <2> HIDE DEF E, done
  <2> QED
    BY <1>3, FS_AddElement
<1> HIDE DEF E, done
<1> QED
  BY <1>2, <1>3, <1>4

\* The evidence after a save: what there was, and what has a new id.
Grown(old, record) ==
  ToSet(old) \cup {e \in Projected(record) : \A d \in ToSet(old) : d.id # e.id}

\* A save lists old and new evidence, each event once.
LEMMA MergedIs ==
  ASSUME NEW old, AllDifferent(old), NEW record, IsSequence(record.messages),
         Ordered(Grown(old, record))
  PROVE  ToSet(Merged(old, record)) = Grown(old, record) /\ AllDifferent(Merged(old, record))
<1>1. IsFiniteSet(ToSet(old))
  BY SequenceFinite DEF AllDifferent
<1>2. IsFiniteSet({e \in Projected(record) : \A d \in ToSet(old) : d.id # e.id})
  BY ProjectedFinite, FS_Subset
<1>3. IsFiniteSet(Grown(old, record))
  BY <1>1, <1>2, FS_Union DEF Grown
<1>4. Merged(old, record) = Listed(Grown(old, record))
  BY DEF Merged, Grown
<1> QED
  BY <1>3, <1>4, ListedIs
-----------------------------------------------------------------------------
(* The watched turn *)

\* The event of item i, named after `of`, and the one of the completed turn.
ItemEvent(i, of) == [id |-> [of |-> of, type |-> "tool.completed"], type |-> "tool.completed",
                     tool |-> log[i].tool, text |-> log[i].text, at |-> i]
TurnEvent == [id |-> [of |-> <<"request", 0>>, type |-> "command.completed"],
              type |-> "command.completed", tool |-> "", text |-> <<>>, at |-> Len(log) + 1]

\* Evidence of the watched turn is that it is complete, or one of its tools.  Its
\* id follows from its place, unless the cut-off was moved under it.
WatchedEvent(e) ==
  \/ closed /\ e = TurnEvent
  \/ \E i \in 1 .. Len(log), k \in Int :
       /\ log[i].tool # ""
       /\ e = ItemEvent(i, IF log[i].named THEN <<"item", i>> ELSE <<"index", k>>)
       /\ ~rebased => k = i - 1 - cut

\* The watched turn's events are told apart by time and id.
LEMMA WatchedOrdered ==
  ASSUME CodexShape, NEW S, \A e \in S : WatchedEvent(e)
  PROVE  Ordered(S)
<1>1. Len(log) \in Nat
  BY DEF CodexShape
<1> DEFINE Kind(e) == \/ e = TurnEvent /\ e.at = Len(log) + 1
                      \/ \E i \in 1 .. Len(log), k \in Int :
                           e = ItemEvent(i, IF log[i].named THEN <<"item", i>> ELSE <<"index", k>>)
<1>2. ASSUME NEW e \in S
      PROVE  e.at \in Int /\ e.id.of[2] \in Int /\ Kind(e)
  <2>1. CASE e = TurnEvent
    <3>1. e.at = Len(log) + 1 /\ e.id.of[2] = 0
      BY <2>1 DEF TurnEvent
    <3> QED
      BY <1>1, <2>1, <3>1
  <2>2. CASE e # TurnEvent
    <3>1. PICK i \in 1 .. Len(log), k \in Int :
            e = ItemEvent(i, IF log[i].named THEN <<"item", i>> ELSE <<"index", k>>)
      BY <2>2 DEF WatchedEvent
    <3>2. e.at = i /\ e.id.of = IF log[i].named THEN <<"item", i>> ELSE <<"index", k>>
      BY <3>1 DEF ItemEvent
    <3>3. e.id.of[2] = i \/ e.id.of[2] = k
      BY <3>2
    <3>4. Kind(e)
      BY <3>1
    <3>5. e.at \in Int /\ e.id.of[2] \in Int
      BY <1>1, <3>2, <3>3
    <3> QED
      BY <3>4, <3>5
  <2> QED
    BY <2>1, <2>2
<1>3. ASSUME NEW d \in S, NEW e \in S, d.at = e.at, d.id.of[2] = e.id.of[2]
      PROVE  d = e
  <2>1. CASE d = TurnEvent /\ e = TurnEvent
    BY <2>1
  <2>2. ASSUME NEW x \in S, x = TurnEvent, x.at = Len(log) + 1,
               NEW i \in 1 .. Len(log), NEW of, NEW y, y = ItemEvent(i, of), x.at = y.at
        PROVE  FALSE
    <3>1. y.at = i
      BY <2>2 DEF ItemEvent
    <3> QED
      BY <1>1, <2>2, <3>1
  <2>3. ASSUME NEW i \in 1 .. Len(log), NEW k \in Int, NEW j \in 1 .. Len(log), NEW l \in Int,
               d = ItemEvent(i, IF log[i].named THEN <<"item", i>> ELSE <<"index", k>>),
               e = ItemEvent(j, IF log[j].named THEN <<"item", j>> ELSE <<"index", l>>)
        PROVE  d = e
    <3>1. i = j
      BY <1>3, <2>3 DEF ItemEvent
    <3>2. CASE log[i].named
      BY <2>3, <3>1, <3>2
    <3>3. CASE ~log[i].named
      <4>1. d = ItemEvent(i, <<"index", k>>) /\ e = ItemEvent(i, <<"index", l>>)
        BY <2>3, <3>1, <3>3
      <4>2. k = l
        BY <1>3, <4>1 DEF ItemEvent
      <4> QED
        BY <4>1, <4>2
    <3> QED
      BY <3>2, <3>3
  <2>4. CASE d # TurnEvent /\ e # TurnEvent
    <3>1. PICK i \in 1 .. Len(log), k \in Int :
            d = ItemEvent(i, IF log[i].named THEN <<"item", i>> ELSE <<"index", k>>)
      BY <1>2, <2>4
    <3>2. PICK j \in 1 .. Len(log), l \in Int :
            e = ItemEvent(j, IF log[j].named THEN <<"item", j>> ELSE <<"index", l>>)
      BY <1>2, <2>4
    <3> QED
      BY <2>3, <3>1, <3>2
  <2>5. CASE d = TurnEvent /\ e # TurnEvent
    <3>1. PICK j \in 1 .. Len(log), l \in Int :
            e = ItemEvent(j, IF log[j].named THEN <<"item", j>> ELSE <<"index", l>>)
      BY <1>2, <2>5
    <3>2. d.at = Len(log) + 1
      BY <1>1, <2>5 DEF TurnEvent
    <3> QED
      BY <1>3, <2>2, <2>5, <3>1, <3>2
  <2>6. CASE d # TurnEvent /\ e = TurnEvent
    <3>1. PICK j \in 1 .. Len(log), l \in Int :
            d = ItemEvent(j, IF log[j].named THEN <<"item", j>> ELSE <<"index", l>>)
      BY <1>2, <2>6
    <3>2. e.at = Len(log) + 1
      BY <1>1, <2>6 DEF TurnEvent
    <3> QED
      BY <1>3, <2>2, <2>6, <3>1, <3>2
  <2> QED
    BY <2>1, <2>4, <2>5, <2>6
<1> QED
  BY <1>2, <1>3 DEF Ordered

\* What SaveWatched saves.
LEMMA WatchedMessages ==
  ASSUME CodexShape
  PROVE  /\ IsSequence(WatchedRecord.messages)
         /\ WatchedRecord.status = IF closed THEN "ok" ELSE "open"
         /\ WatchedRecord.id = <<"request", 0>> /\ WatchedRecord.at = Len(log) + 1
         /\ \A m \in ToSet(WatchedRecord.messages) : \E i \in cut + 1 .. Len(log) :
              /\ m.id = MessageId(i) /\ m.at = i
              /\ m.tool = log[i].tool /\ m.text = log[i].text
<1> DEFINE n == Len(log) - cut
           kept == SubSeq(log, cut + 1, Len(log))
           messages == [i \in DOMAIN kept |->
                            [id |-> MessageId(cut + i), at |-> cut + i,
                             role |-> IF kept[i].tool = "" THEN "user" ELSE "tool",
                             tool |-> kept[i].tool, text |-> kept[i].text]]
<1>1. log \in Seq(Items) /\ Len(log) \in Nat /\ cut \in 0 .. Len(log)
  BY DEF CodexShape
<1>2. /\ n \in Nat /\ DOMAIN kept = 1 .. n
      /\ \A i \in 1 .. n : kept[i] = log[cut + i] /\ cut + i \in cut + 1 .. Len(log)
  <2>1. kept \in Seq(Items) /\ Len(kept) = n /\ n \in Nat
    BY <1>1
  <2>2. \A i \in 1 .. n : kept[i] = log[cut + 1 + i - 1]
    BY <1>1
  <2>3. DOMAIN kept = 1 .. n
    BY <2>1
  <2>4. \A i \in 1 .. n : cut + 1 + i - 1 = cut + i /\ cut + i \in cut + 1 .. Len(log)
    BY <1>1
  <2> HIDE DEF kept, n
  <2> QED
    BY <2>1, <2>2, <2>3, <2>4
<1> HIDE DEF kept
<1>3. WatchedRecord.messages = IF prompts THEN messages ELSE <<>>
  BY DEF WatchedRecord, kept
<1>4. /\ WatchedRecord.status = IF closed THEN "ok" ELSE "open"
      /\ WatchedRecord.id = <<"request", 0>> /\ WatchedRecord.at = Len(log) + 1
  BY DEF WatchedRecord
<1>5. /\ DOMAIN messages = 1 .. n
      /\ \A i \in 1 .. n : /\ messages[i].id = MessageId(cut + i) /\ messages[i].at = cut + i
                           /\ messages[i].tool = log[cut + i].tool
                           /\ messages[i].text = log[cut + i].text
  BY <1>2
<1>6. IsSequence(messages)
  <2>1. messages = [i \in 1 .. n |-> messages[i]]
    BY <1>2
  <2> HIDE DEF messages, n
  <2> QED
    BY <1>2, <2>1, SequenceMade
<1>7. ASSUME NEW m \in ToSet(messages)
      PROVE  \E i \in cut + 1 .. Len(log) : /\ m.id = MessageId(i) /\ m.at = i
                                            /\ m.tool = log[i].tool /\ m.text = log[i].text
  <2> HIDE DEF messages, n
  <2>1. PICK i \in 1 .. n : m = messages[i]
    BY <1>5 DEF ToSet
  <2> QED
    BY <1>2, <1>5, <2>1
<1>8. ToSet(<<>>) = {}
  BY EmptySequence DEF ToSet
<1> HIDE DEF messages
<1> QED
  BY <1>3, <1>4, <1>6, <1>7, <1>8, EmptySequence

\* Its record projects to such events.
LEMMA WatchedProjected ==
  ASSUME CodexShape, NEW e \in Projected(WatchedRecord)
  PROVE  WatchedEvent(e)
<1>1. log \in Seq(Items) /\ Len(log) \in Nat /\ cut \in 0 .. Len(log)
  BY DEF CodexShape
<1> DEFINE R == WatchedRecord
<1>2. R.status # "failed"
  BY WatchedMessages
<1>3. CASE \E m \in ToolMessages(R) : e = Event(m, "tool.completed")
  <2>1. PICK m \in ToolMessages(R) : e = Event(m, "tool.completed")
    BY <1>3
  <2>2. m \in ToSet(R.messages) /\ m.tool # ""
    BY <2>1 DEF ToolMessages
  <2>3. PICK i \in cut + 1 .. Len(log) :
          m.id = MessageId(i) /\ m.at = i /\ m.tool = log[i].tool /\ m.text = log[i].text
    BY <2>2, WatchedMessages
  <2>4. i \in 1 .. Len(log) /\ i - 1 - cut \in Int
    BY <1>1, <2>3
  <2>5. e = ItemEvent(i, MessageId(i))
    BY <2>1, <2>3 DEF Event, ItemEvent
  <2> QED
    BY <2>2, <2>3, <2>4, <2>5 DEF WatchedEvent, MessageId
<1>4. CASE /\ R.status = "ok"
           /\ e = Event([id |-> R.id, tool |-> "", text |-> <<>>, at |-> R.at],
                        "command.completed")
  <2>1. e = TurnEvent
    BY <1>4, WatchedMessages DEF Event, TurnEvent
  <2>2. closed
    BY <1>4, WatchedMessages
  <2> QED
    BY <2>1, <2>2 DEF WatchedEvent
<1> QED
  BY <1>2, <1>3, <1>4 DEF Projected

\* Without a move of the cut-off, the id of an item stands for what it says.
LEMMA WatchedShown ==
  ASSUME CodexShape, ~rebased, NEW old, \A d \in ToSet(old) : WatchedEvent(d),
         NEW m \in ToolMessages(WatchedRecord)
  PROVE  \E e \in Grown(old, WatchedRecord) : e.at = m.at /\ e.tool = m.tool /\ e.text = m.text
<1>1. log \in Seq(Items) /\ Len(log) \in Nat /\ cut \in 0 .. Len(log)
  BY DEF CodexShape
<1> DEFINE R == WatchedRecord
           n == Event(m, "tool.completed")
<1>2. m \in ToSet(R.messages) /\ m.tool # ""
  BY DEF ToolMessages
<1>3. PICK i \in cut + 1 .. Len(log) :
        m.id = MessageId(i) /\ m.at = i /\ m.tool = log[i].tool /\ m.text = log[i].text
  BY <1>2, WatchedMessages
<1>4. n \in Projected(R)
  BY WatchedMessages DEF Projected
<1>5. /\ n.at = m.at /\ n.tool = m.tool /\ n.text = m.text
      /\ n.id = [of |-> MessageId(i), type |-> "tool.completed"]
  BY <1>3 DEF Event
<1>6. CASE \A d \in ToSet(old) : d.id # n.id
  <2> HIDE DEF n
  <2>1. n \in Grown(old, R)
    BY <1>4, <1>6 DEF Grown
  <2> QED
    BY <1>5, <2>1
<1>7. ASSUME NEW d \in ToSet(old), d.id = n.id
      PROVE  d.at = m.at /\ d.tool = m.tool /\ d.text = m.text
  <2> HIDE DEF n
  <2>1. d.id = [of |-> MessageId(i), type |-> "tool.completed"]
    BY <1>5, <1>7
  <2>2. d # TurnEvent
    <3>1. TurnEvent.id.type = "command.completed"
      BY DEF TurnEvent
    <3> QED
      BY <2>1, <3>1
  <2>3. PICK j \in 1 .. Len(log), k \in Int :
          /\ d = ItemEvent(j, IF log[j].named THEN <<"item", j>> ELSE <<"index", k>>)
          /\ k = j - 1 - cut
    BY <2>2 DEF WatchedEvent
  <2>4. d.id.of = (IF log[j].named THEN <<"item", j>> ELSE <<"index", k>>) /\ d.id.of = MessageId(i)
    BY <2>1, <2>3 DEF ItemEvent
  <2>5. j = i
    BY <1>1, <1>3, <2>3, <2>4 DEF MessageId
  <2> QED
    BY <1>3, <2>3, <2>5 DEF ItemEvent
<1>8. CASE \E d \in ToSet(old) : d.id = n.id
  <2> HIDE DEF n
  <2> QED
    BY <1>7, <1>8 DEF Grown
<1> QED
  BY <1>6, <1>8
-----------------------------------------------------------------------------
(* The calls of the proxy *)

\* The messages of a call: what it was asked and what it was answered.
LEMMA MessagesAreSequence ==
  ASSUME NEW k, IsSequence(k.history), IsSequence(k.response.messages)
  PROVE  IsSequence(Messages(k))
<1> DEFINE answered == Answered(k)
<1>1. answered = [i \in DOMAIN k.response.messages |-> answered[i]]
  BY DEF Answered
<1> HIDE DEF answered
<1>2. IsSequence(answered)
  BY <1>1, SequenceMapped
<1>3. Messages(k) = <<>> \/ Messages(k) = k.history \o answered
  BY DEF Messages, answered
<1> QED
  BY <1>2, <1>3, EmptySequence, SequencesJoined

\* The ids of a record's messages and its own are different numbers.
LEMMA CallRecordIs ==
  ASSUME NEW k, IsSequence(k.history), IsSequence(k.response.messages),
         NEW ids \in Orders(k), NEW R, R = CallRecord(k, ids)
  PROVE  \E n \in Nat :
           /\ IsSequence(R.messages) /\ DOMAIN R.messages = 1 .. n
           /\ \A i \in 1 .. n + 1 : ids[i] \in Int
           /\ \A i, j \in 1 .. n + 1 : ids[i] = ids[j] => i = j
           /\ \A i \in 1 .. n : R.messages[i].id = <<"random", ids[i]>>
                                /\ R.messages[i].at \in Int
           /\ R.id = <<"random", ids[n + 1]>> /\ R.at = 2
<1> DEFINE s == Messages(k)
           n == Len(s)
           messages == [i \in DOMAIN s |->
                          [id |-> <<"random", ids[i]>>, role |-> s[i].role,
                           tool |-> s[i].tool, text |-> s[i].text,
                           at |-> IF i <= Len(k.history) THEN 1 ELSE 2]]
<1>1. IsSequence(s)
  BY MessagesAreSequence
<1>2. ids = [i \in 1 .. n + 1 |-> i] \/ ids = [i \in 1 .. n + 1 |-> n + 1 + 1 - i]
  BY DEF Orders
<1>3. R.messages = messages /\ R.id = <<"random", ids[n + 1]>> /\ R.at = 2
  BY DEF CallRecord
<1> HIDE DEF s
<1>4. n \in Nat /\ DOMAIN s = 1 .. n
  BY <1>1, SequenceIs
<1>5. /\ \A i \in 1 .. n + 1 : ids[i] \in Int
      /\ \A i, j \in 1 .. n + 1 : ids[i] = ids[j] => i = j
  <2> HIDE DEF n
  <2> QED
    BY <1>2, <1>4
<1>6. IsSequence(messages) /\ DOMAIN messages = 1 .. n
  <2>1. messages = [i \in DOMAIN s |-> messages[i]]
    OBVIOUS
  <2> HIDE DEF messages, n
  <2> QED
    BY <1>1, <1>4, <2>1, SequenceMapped
<1>7. \A i \in 1 .. n : messages[i].id = <<"random", ids[i]>> /\ messages[i].at \in {1, 2}
  BY <1>4
<1> HIDE DEF messages, n
<1> QED
  BY <1>3, <1>4, <1>5, <1>6, <1>7

\* A call's record projects to events told apart by their random ids.
LEMMA CallOrdered ==
  ASSUME NEW k, IsSequence(k.history), IsSequence(k.response.messages),
         NEW ids \in Orders(k), NEW R, R = CallRecord(k, ids)
  PROVE  /\ Ordered(Projected(R)) /\ IsSequence(R.messages)
         /\ \A e \in Projected(R) : e.id \in EventIds
<1> DEFINE type == IF R.status = "failed" THEN "tool.failed" ELSE "tool.completed"
           done == Event([id |-> R.id, tool |-> "", text |-> <<>>, at |-> R.at],
                         "command.completed")
<1>1. PICK n \in Nat :
           /\ IsSequence(R.messages) /\ DOMAIN R.messages = 1 .. n
           /\ \A i \in 1 .. n + 1 : ids[i] \in Int
           /\ \A i, j \in 1 .. n + 1 : ids[i] = ids[j] => i = j
           /\ \A i \in 1 .. n : R.messages[i].id = <<"random", ids[i]>>
                                /\ R.messages[i].at \in Int
           /\ R.id = <<"random", ids[n + 1]>> /\ R.at = 2
  BY CallRecordIs
<1> DEFINE entry(i) == IF i = n + 1 THEN done ELSE Event(R.messages[i], type)
<1>2. ASSUME NEW i \in 1 .. n + 1
      PROVE  /\ entry(i).id.of = <<"random", ids[i]>> /\ entry(i).at \in Int
             /\ entry(i).id \in EventIds
  <2>1. /\ \A m : Event(m, type).id = [of |-> m.id, type |-> type]
        /\ type \in {"tool.completed", "tool.failed"}
    BY DEF Event
  <2>2. CASE i = n + 1
    <3>1. entry(i).id = [of |-> <<"random", ids[i]>>, type |-> "command.completed"]
          /\ entry(i).at = 2
      BY <1>1, <2>2 DEF Event
    <3>2. <<"random", ids[i]>> \in {"item", "index", "request", "random"} \X Int
      BY <1>1
    <3> HIDE DEF entry
    <3> QED
      BY <3>1, <3>2 DEF EventIds
  <2>3. CASE i # n + 1
    <3>1. i \in 1 .. n
      BY <2>3
    <3>2. entry(i) = Event(R.messages[i], type)
      BY <2>3
    <3>3. R.messages[i].id = <<"random", ids[i]>> /\ R.messages[i].at \in Int
      BY <1>1, <3>1
    <3> HIDE DEF entry
    <3>4. /\ entry(i).id = [of |-> R.messages[i].id, type |-> type]
          /\ entry(i).at = R.messages[i].at
      BY <3>2 DEF Event
    <3>5. <<"random", ids[i]>> \in {"item", "index", "request", "random"} \X Int
      BY <1>1
    <3> HIDE DEF type
    <3> QED
      BY <2>1, <3>3, <3>4, <3>5 DEF EventIds
  <2> QED
    BY <2>2, <2>3
<1>3. ASSUME NEW e \in Projected(R)
      PROVE  \E i \in 1 .. n + 1 : e = entry(i)
  <2>1. CASE e = done
    <3>1. n + 1 \in 1 .. n + 1
      BY <1>1
    <3>2. entry(n + 1) = done
      OBVIOUS
    <3> QED
      BY <2>1, <3>1, <3>2
  <2>2. CASE \E m \in ToolMessages(R) : e = Event(m, type)
    <3>1. PICK i \in 1 .. n : e = Event(R.messages[i], type)
      BY <1>1, <2>2 DEF ToolMessages, ToSet
    <3>2. i \in 1 .. n + 1 /\ i # n + 1
      BY <3>1
    <3> QED
      BY <3>1, <3>2
  <2> HIDE DEF entry
  <2> DEFINE E == {Event(m, type) : m \in ToolMessages(R)}
  <2>3. Projected(R) = E \cup (IF R.status # "ok" THEN {} ELSE {done})
    BY DEF Projected
  <2>4. e \in E => \E m \in ToolMessages(R) : e = Event(m, type)
    <3> HIDE DEF type
    <3> QED
      OBVIOUS
  <2> HIDE DEF E, done
  <2>5. e \in E \/ e = done
    BY <1>3, <2>3
  <2> QED
    BY <2>1, <2>2, <2>4, <2>5
<1> HIDE DEF entry
<1>4. ASSUME NEW d \in Projected(R), NEW e \in Projected(R)
      PROVE  /\ d.at \in Int /\ d.id.of[2] \in Int /\ d.id \in EventIds
             /\ d.at = e.at /\ d.id.of[2] = e.id.of[2] => d = e
  <2>1. PICK i \in 1 .. n + 1, j \in 1 .. n + 1 : d = entry(i) /\ e = entry(j)
    BY <1>3
  <2>2. /\ d.id.of[2] = ids[i] /\ d.at \in Int /\ e.id.of[2] = ids[j] /\ d.id \in EventIds
        /\ ids[i] \in Int /\ (ids[i] = ids[j] => i = j)
    BY <1>1, <1>2, <2>1
  <2> QED
    BY <2>1, <2>2
<1> QED
  BY <1>1, <1>4 DEF Ordered
-----------------------------------------------------------------------------
(* Every step *)

\* Whether the ids of items can be trusted.
LEMMA RebasedSteps ==
  ASSUME [Next]_vars
  PROVE  UNCHANGED rebased \/ Resume \/ Restart
<1>1. CASE UNCHANGED vars
  BY <1>1 DEF vars, storeVars, codex, tables, ghosts
<1>2. CASE ProxyStep
  <2>1. CASE \E c \in Calls : Arrive(c) \/ Unavailable502(c) \/ ClientGone(c) \/ StreamBreaks(c)
    BY <2>1 DEF Arrive, Unavailable502, ClientGone, StreamBreaks, codex, tables, ghosts
  <2>2. CASE \E c \in Calls : Handler(c)
    BY <2>2 DEF Handler, UpstreamAnswers, Read, AddBlock, Write, StreamEnds, ReadPrivacy,
                PersistFails, PersistCall, Save, codex, tables, ghosts
  <2>3. CASE CommandEnds \/ Exit \/ Flip
    BY <2>3 DEF CommandEnds, Exit, Flip, FlipPrompts, codex, tables, ghosts
  <2> QED
    BY <1>2, <2>1, <2>2, <2>3 DEF ProxyStep
<1>3. CASE StoreStep /\ UNCHANGED <<call, wrapper>>
  <2>1. CASE (\E item \in Items : CodexWrites(item)) \/ CodexCompletes
    BY <2>1 DEF CodexWrites, CodexCompletes, codex, tables, ghosts
  <2>2. CASE \E r \in Requests : DeleteSession(r)
    BY <2>2 DEF DeleteSession, codex, tables, ghosts
  <2>3. CASE WatcherStep
    BY <2>3 DEF WatcherStep, SaveWatched, Save, codex, tables, ghosts
  <2>4. CASE EvaluationStep
    BY <2>4 DEF EvaluationStep, ReadEvidence, EvaluationFails, PersistDecision, codex,
      tables, ghosts
  <2>5. CASE McpStep
    BY <2>5 DEF McpStep, AskSession, AskLatest, AskNobody, Ask, ReadLatest, RecordDelivery,
      Answer, codex, tables, ghosts
  <2>6. CASE DashboardStep
    BY <2>6 DEF DashboardStep, ListIds, ReadRow, ReadMessages, ListFails, ListEnds, codex,
      tables, ghosts
  <2> QED
    BY <1>3, <2>1, <2>2, <2>3, <2>4, <2>5, <2>6 DEF StoreStep
<1> QED
  BY <1>1, <1>2, <1>3 DEF Next

\* What r shows of tools is in its evidence.
Shows(r) == \A m \in ToolMessages(request[r]) :
              \E e \in ToSet(events[r]) : e.at = m.at /\ e.tool = m.tool /\ e.text = m.text

\* The evidence of every request: in order and each event once, the watched
\* turn's of its own items, a call's only once it is saved, and nothing a stored
\* message shows is missing.
EvidenceInv ==
  /\ \A r \in Requests : /\ AllDifferent(events[r])
                         /\ request[r] # None /\ ~(r = Watched /\ rebased) => Shows(r)
  /\ \A e \in ToSet(events[Watched]) : WatchedEvent(e)
  /\ request[Watched] = None => events[Watched] = <<>>
  /\ \A c \in Calls : call[c].step # "saved" => events[c] = <<>>

\* What the calls took down, and all of it together.
CaptureInv == \A c \in Calls : CallData(c)

DataInv == ProxyInv /\ CallsInv /\ CaptureInv /\ EvidenceInv

\* A saved call is over.
LEMMA SavedStays ==
  ASSUME ProxyInv, NEW c \in Calls, call[c].step = "saved", [Next]_vars
  PROVE  call'[c].step = "saved"
<1>1. DOMAIN call = Calls /\ DOMAIN call[c] = DOMAIN Unborn
  BY DEF ProxyInv, Shapes, CallShape
<1>2. ASSUME NEW d \in Calls, CallStep(d) PROVE call'[c] = call[c]
  <2>1. d # c
    BY <1>2 DEF CallStep, Handler, Arrive, Unavailable502, ClientGone, StreamBreaks,
                UpstreamAnswers, Read, AddBlock, Write, StreamEnds, ReadPrivacy, PersistCall,
                PersistFails
  <2> QED
    BY <1>2, <2>1, OneCallMoves DEF ProxyInv, Shapes
<1>3. CASE CommandEnds \/ Exit \/ Flip
  BY <1>1, <1>3 DEF CommandEnds, Exit, Flip, Reading, Persisting, Unborn
<1> QED
  BY <1>2, <1>3, CallSteps

\* A session without evidence.
LEMMA NoEvidence == AllDifferent(<<>>) /\ ToSet(<<>>) = {}
<1>1. DOMAIN <<>> = {} /\ {} = 1 .. 0 /\ 0 \in Nat
  BY EmptySequence
<1> QED
  BY <1>1 DEF AllDifferent, ToSet

\* Events of the watched turn stay events of it as the log grows.
LEMMA WatchedEventKept ==
  ASSUME CodexShape, CodexShape', NEW e, WatchedEvent(e),
         \/ UNCHANGED <<log, closed>>
         \/ ~closed /\ \E item \in Items : log' = Append(log, item)
         \/ ~closed /\ UNCHANGED log,
         ~rebased' => ~rebased /\ cut' = cut
  PROVE  WatchedEvent(e)'
<1>1. log \in Seq(Items) /\ Len(log) \in Nat
  BY DEF CodexShape
<1>2. CASE closed /\ e = TurnEvent
  BY <1>2 DEF WatchedEvent, TurnEvent
<1>3. ASSUME NEW i \in 1 .. Len(log), NEW k \in Int,
             log[i].tool # "",
             e = ItemEvent(i, IF log[i].named THEN <<"item", i>> ELSE <<"index", k>>),
             ~rebased => k = i - 1 - cut
      PROVE  WatchedEvent(e)'
  <2>1. i \in 1 .. Len(log') /\ log'[i] = log[i]
    BY <1>1
  <2>2. e = ItemEvent(i, IF log[i].named THEN <<"item", i>> ELSE <<"index", k>>)'
    BY <1>3, <2>1 DEF ItemEvent
  <2> QED
    BY <1>3, <2>1, <2>2 DEF WatchedEvent
<1> QED
  BY <1>2, <1>3 DEF WatchedEvent
-----------------------------------------------------------------------------
(* Each way the rows change *)

\* A save that adds.
LEMMA EvidenceSaved ==
  ASSUME ProxyInv, NEW r \in Requests, NEW record, Save(r, record)
  PROVE  /\ request'[r] = record /\ events'[r] = Merged(events[r], record)
         /\ \A q \in Requests \ {r} : request'[q] = request[q] /\ events'[q] = events[q]
BY DEF ProxyInv, Shapes, TablesShape, Save

\* A step that leaves the rows alone keeps the evidence in order;
LEMMA EvidenceOfTables ==
  ASSUME DataInv, CodexShape', [Next]_vars, UNCHANGED <<request, events>>
  PROVE  EvidenceInv'
<1>1. Watched \in Requests /\ CodexShape
  BY RequestNames DEF DataInv, ProxyInv, Shapes
<1>2. ~rebased' => ~rebased /\ (cut' = cut \/ request[Watched] = None)
  <2>1. CASE Resume
    BY <2>1 DEF Resume
  <2>2. CASE Restart
    <3>1. cut \in Nat
      BY <1>1 DEF CodexShape
    <3>2. rebased' = (rebased \/ cut > 0) /\ cut' = 0
      BY <2>2 DEF Restart
    <3>3. ~rebased' => ~rebased /\ ~(cut > 0)
      BY <3>2, Zenon
    <3>4. ~(cut > 0) => cut' = cut
      BY <3>1, <3>2
    <3> QED
      BY <3>3, <3>4
  <2>3. CASE UNCHANGED rebased /\ ~Resume /\ ~Restart
    <3>1. UNCHANGED cut
      BY <2>3, CodexSteps DEF CodexWrites, CodexCompletes, Flip, FlipPrompts, codex
    <3> QED
      BY <2>3, <3>1
  <2> QED
    BY <2>1, <2>2, <2>3, RebasedSteps
<1>3. \/ UNCHANGED <<log, closed>>
      \/ ~closed /\ \E item \in Items : log' = Append(log, item)
      \/ ~closed /\ UNCHANGED log
  BY CodexSteps DEF CodexWrites, CodexCompletes, Resume, Restart, Flip, FlipPrompts, codex
<1>4. ASSUME NEW e \in ToSet(events[Watched]) PROVE WatchedEvent(e)'
  <2>1. request[Watched] # None
    BY <1>1, <1>4, NoEvidence DEF DataInv, EvidenceInv
  <2>2. WatchedEvent(e)
    BY <1>4 DEF DataInv, EvidenceInv
  <2>3. ~rebased' => ~rebased /\ cut' = cut
    BY <1>2, <2>1
  <2> QED
    BY <1>1, <1>3, <2>2, <2>3, WatchedEventKept
<1>5. ASSUME NEW r \in Requests
      PROVE  /\ AllDifferent(events'[r])
             /\ request'[r] # None /\ ~(r = Watched /\ rebased') => Shows(r)'
  <2>1. Shows(r) => Shows(r)'
    BY DEF Shows
  <2> QED
    BY <1>2, <2>1 DEF DataInv, EvidenceInv
<1>6. \A c \in Calls : call'[c].step # "saved" => events'[c] = <<>>
  BY SavedStays DEF DataInv, EvidenceInv
<1>7. request'[Watched] = None => events'[Watched] = <<>>
  BY DEF DataInv, EvidenceInv
<1> QED
  BY <1>4, <1>5, <1>6, <1>7 DEF EvidenceInv

\* a deletion does,
LEMMA EvidenceOfDeletion ==
  ASSUME DataInv, CodexShape', [Next]_vars, NEW r \in Requests, DeleteSession(r)
  PROVE  EvidenceInv'
<1>1. /\ DOMAIN request = Requests /\ DOMAIN events = Requests
      /\ request' = [request EXCEPT ![r] = None] /\ events' = [events EXCEPT ![r] = <<>>]
      /\ UNCHANGED <<log, closed, cut, rebased>> /\ Watched \in Requests /\ CodexShape
  BY RequestNames DEF DataInv, ProxyInv, Shapes, TablesShape, DeleteSession, codex
<1>2. ASSUME NEW q \in Requests
      PROVE  /\ AllDifferent(events'[q])
             /\ request'[q] # None /\ ~(q = Watched /\ rebased') => Shows(q)'
  <2>1. CASE q = r
    BY <1>1, <2>1, NoEvidence
  <2>2. CASE q # r
    <3>1. request'[q] = request[q] /\ events'[q] = events[q]
      BY <1>1, <2>2
    <3>2. Shows(q) => Shows(q)'
      BY <3>1 DEF Shows
    <3> QED
      BY <1>1, <3>1, <3>2 DEF DataInv, EvidenceInv
  <2> QED
    BY <2>1, <2>2
<1>3. ASSUME NEW e \in ToSet(events'[Watched]) PROVE WatchedEvent(e)'
  <2>1. events'[Watched] = events[Watched] \/ events'[Watched] = <<>>
    BY <1>1
  <2>2. e \in ToSet(events[Watched])
    BY <1>3, <2>1, NoEvidence
  <2>3. WatchedEvent(e)
    BY <2>2 DEF DataInv, EvidenceInv
  <2> QED
    BY <1>1, <2>3, WatchedEventKept
<1>4. \A c \in Calls : call'[c].step # "saved" => events'[c] = <<>>
  <2> SUFFICES ASSUME NEW c \in Calls, call'[c].step # "saved" PROVE events'[c] = <<>>
    OBVIOUS
  <2>1. events[c] = <<>> /\ c \in Requests
    BY SavedStays, RequestNames DEF DataInv, EvidenceInv
  <2> QED
    BY <1>1, <2>1
<1>5. request'[Watched] = None => events'[Watched] = <<>>
  BY <1>1 DEF DataInv, EvidenceInv
<1> QED
  BY <1>2, <1>3, <1>4, <1>5 DEF EvidenceInv

\* the watcher's save,
LEMMA EvidenceOfTurn ==
  ASSUME DataInv, CodexShape', [Next]_vars, SaveWatched
  PROVE  /\ EvidenceInv'
         /\ ToSet(events[Watched]) \subseteq ToSet(events'[Watched])
         /\ \A q \in Calls : events'[q] = events[q]
<1> DEFINE S == Grown(events[Watched], WatchedRecord)
<1>1. Watched \in Requests /\ Watched \notin Calls /\ Calls \subseteq Requests /\ CodexShape
  BY RequestNames DEF DataInv, ProxyInv, Shapes
<1>2. /\ request'[Watched] = WatchedRecord
      /\ events'[Watched] = Merged(events[Watched], WatchedRecord)
      /\ \A q \in Requests \ {Watched} : request'[q] = request[q] /\ events'[q] = events[q]
      /\ UNCHANGED <<log, closed, cut, rebased>> /\ WatchedRecord # None
  BY <1>1, EvidenceSaved, WatchedSaved DEF DataInv, SaveWatched
<1>3. \A e \in ToSet(events[Watched]) : WatchedEvent(e)
  BY DEF DataInv, EvidenceInv
<1>4. \A e \in S : WatchedEvent(e)
  BY <1>1, <1>3, WatchedProjected DEF Grown
<1>5. Ordered(S)
  <2> HIDE DEF S
  <2> QED
    BY <1>1, <1>4, WatchedOrdered
<1>6. ToSet(events'[Watched]) = S /\ AllDifferent(events'[Watched])
  BY <1>1, <1>2, <1>5, MergedIs, WatchedMessages DEF DataInv, EvidenceInv
<1>7. ToSet(events[Watched]) \subseteq S
  BY DEF Grown
<1>8. ASSUME ~rebased PROVE Shows(Watched)'
  <2>1. \A m \in ToolMessages(WatchedRecord) :
          \E e \in S : e.at = m.at /\ e.tool = m.tool /\ e.text = m.text
    BY <1>1, <1>3, <1>8, WatchedShown
  <2> HIDE DEF S
  <2>2. \A m \in ToolMessages(request'[Watched]) :
          \E e \in ToSet(events'[Watched]) : e.at = m.at /\ e.tool = m.tool /\ e.text = m.text
    BY <1>2, <1>6, <2>1
  <2> QED
    BY <2>2 DEF Shows
<1> HIDE DEF S
<1>9. ASSUME NEW q \in Requests
      PROVE  /\ AllDifferent(events'[q])
             /\ request'[q] # None /\ ~(q = Watched /\ rebased') => Shows(q)'
  <2>1. CASE q = Watched
    BY <1>2, <1>6, <1>8, <2>1
  <2>2. CASE q # Watched
    <3>1. request'[q] = request[q] /\ events'[q] = events[q]
      BY <1>2, <2>2
    <3>2. Shows(q) => Shows(q)'
      BY <3>1 DEF Shows
    <3> QED
      BY <1>2, <3>1, <3>2 DEF DataInv, EvidenceInv
  <2> QED
    BY <2>1, <2>2
<1>10. ASSUME NEW e \in ToSet(events'[Watched]) PROVE WatchedEvent(e)'
  <2>1. WatchedEvent(e)
    BY <1>4, <1>6, <1>10
  <2> QED
    BY <1>1, <1>2, <2>1, WatchedEventKept
<1>11. \A c \in Calls : call'[c].step # "saved" => events'[c] = <<>>
  BY <1>1, <1>2, SavedStays DEF DataInv, EvidenceInv
<1>12. EvidenceInv'
  BY <1>2, <1>9, <1>10, <1>11 DEF EvidenceInv
<1> QED
  BY <1>1, <1>2, <1>6, <1>7, <1>12

\* and a call's.
LEMMA EvidenceOfCall ==
  ASSUME DataInv, CodexShape', [Next]_vars, NEW c \in Calls, PersistCall(c)
  PROVE  /\ EvidenceInv' /\ events[c] = <<>>
         /\ \A e \in ToSet(events'[c]) : e.id \in EventIds
         /\ \A q \in Requests \ {c} : events'[q] = events[q]
<1>1. Watched \in Requests /\ Watched \notin Calls /\ Calls \subseteq Requests /\ CodexShape
  BY RequestNames DEF DataInv, ProxyInv, Shapes
<1>2. PICK ids \in Orders(call[c]) : Save(c, CallRecord(call[c], ids))
  BY DEF PersistCall
<1> DEFINE R == CallRecord(call[c], ids)
<1>3. /\ request'[c] = R /\ events'[c] = Merged(events[c], R)
      /\ \A q \in Requests \ {c} : request'[q] = request[q] /\ events'[q] = events[q]
  BY <1>1, <1>2, EvidenceSaved DEF DataInv
<1>4. UNCHANGED <<log, closed, cut, rebased>>
  BY DEF PersistCall, codex
<1>5. events[c] = <<>>
  BY DEF DataInv, EvidenceInv, PersistCall
<1>6. Ordered(Projected(R)) /\ IsSequence(R.messages) /\ \A e \in Projected(R) : e.id \in EventIds
  BY CallOrdered DEF DataInv, CaptureInv, CallData
<1> HIDE DEF R
<1>7. Grown(<<>>, R) = Projected(R)
  BY NoEvidence DEF Grown
<1>8. ToSet(events'[c]) = Projected(R) /\ AllDifferent(events'[c])
  BY <1>3, <1>5, <1>6, <1>7, MergedIs, NoEvidence
<1>9. Shows(c)'
  <2>1. ASSUME NEW m \in ToolMessages(R)
        PROVE  \E e \in Projected(R) : e.at = m.at /\ e.tool = m.tool /\ e.text = m.text
    <3> DEFINE type == IF R.status = "failed" THEN "tool.failed" ELSE "tool.completed"
               e == Event(m, type)
    <3>1. e \in Projected(R)
      BY <2>1 DEF Projected
    <3>2. e.at = m.at /\ e.tool = m.tool /\ e.text = m.text
      BY DEF Event
    <3> HIDE DEF e
    <3> QED
      BY <3>1, <3>2
  <2> QED
    BY <1>3, <1>8, <2>1 DEF Shows
<1>10. ASSUME NEW q \in Requests
      PROVE  /\ AllDifferent(events'[q])
             /\ request'[q] # None /\ ~(q = Watched /\ rebased') => Shows(q)'
  <2>1. CASE q = c
    BY <1>3, <1>8, <1>9, <2>1
  <2>2. CASE q # c
    <3>1. request'[q] = request[q] /\ events'[q] = events[q]
      BY <1>3, <2>2
    <3>2. Shows(q) => Shows(q)'
      BY <3>1 DEF Shows
    <3> QED
      BY <1>4, <3>1, <3>2 DEF DataInv, EvidenceInv
  <2> QED
    BY <2>1, <2>2
<1>11. ASSUME NEW e \in ToSet(events'[Watched]) PROVE WatchedEvent(e)'
  <2>1. events'[Watched] = events[Watched]
    BY <1>1, <1>3
  <2>2. WatchedEvent(e)
    BY <1>11, <2>1 DEF DataInv, EvidenceInv
  <2> QED
    BY <1>1, <1>4, <2>2, WatchedEventKept
<1>12. \A d \in Calls : call'[d].step # "saved" => events'[d] = <<>>
  <2> SUFFICES ASSUME NEW d \in Calls, call'[d].step # "saved" PROVE events'[d] = <<>>
    OBVIOUS
  <2>1. d # c
    BY DEF PersistCall, Goes, DataInv, ProxyInv, Shapes, CallShape, Unborn
  <2> QED
    BY <1>1, <1>3, <2>1, SavedStays DEF DataInv, EvidenceInv
<1>13. request'[Watched] = None => events'[Watched] = <<>>
  BY <1>1, <1>3 DEF DataInv, EvidenceInv
<1> QED
  BY <1>3, <1>5, <1>6, <1>8, <1>10, <1>11, <1>12, <1>13 DEF EvidenceInv
-----------------------------------------------------------------------------
(* The evidence theorems, and what decisions rest on *)

\* Every step does.
LEMMA EvidenceKept ==
  ASSUME DataInv, [Next]_vars
  PROVE  EvidenceInv'
<1>1. CodexShape'
  BY ShapesKept DEF DataInv, ProxyInv, Shapes
<1> QED
  BY <1>1, RowSteps, EvidenceOfTables, EvidenceOfDeletion, EvidenceOfTurn, EvidenceOfCall

\* It starts empty.
LEMMA EvidenceAtStart == Init => EvidenceInv
<1> SUFFICES ASSUME Init PROVE EvidenceInv
  OBVIOUS
<1>1. /\ \A r \in Requests : events[r] = <<>> /\ request[r] = None
      /\ Watched \in Requests /\ Calls \subseteq Requests
  BY DEF Init, StoreInit, Requests
<1> QED
  BY <1>1, NoEvidence DEF EvidenceInv

\* The invariant of the rows and the evidence.
LEMMA DataInvariant == Spec => []DataInv
<1>1. Init => EvidenceInv /\ CaptureInv
  BY EvidenceAtStart, CallDataAtStart DEF CaptureInv
<1>2. DataInv /\ [Next]_vars => EvidenceInv' /\ CaptureInv'
  BY EvidenceKept, CallDataKept DEF DataInv, CaptureInv
<1> QED
  BY <1>1, <1>2, CallsInvariant, PTL DEF Spec, DataInv

\* What a stored turn shows of tools is in its session's evidence, content and all,
\* unless the ids of its items changed (conversations.go:69-112).
THEOREM EvidenceOfAllMessages == Spec => []EvidenceOfMessages
<1>1. DataInv => EvidenceOfMessages
  BY DEF DataInv, EvidenceInv, Shows, EvidenceOfMessages
<1> QED
  BY <1>1, DataInvariant, PTL

\* The place of an item tells its evidence.
LEMMA WatchedApart ==
  ASSUME CodexShape, ~rebased, NEW d, WatchedEvent(d), NEW e, WatchedEvent(e)
  PROVE  d.at = e.at /\ d.tool # "" => d = e
<1>1. Len(log) \in Nat
  BY DEF CodexShape
<1>2. \A i \in 1 .. Len(log) : i # Len(log) + 1
  BY <1>1
<1>3. TurnEvent.at = Len(log) + 1 /\ TurnEvent.tool = ""
  BY DEF TurnEvent
<1>4. CASE d = TurnEvent
  BY <1>3, <1>4
<1> DEFINE Of(i) == IF log[i].named THEN <<"item", i>> ELSE <<"index", i - 1 - cut>>
           IsItem(x, i) == x = ItemEvent(i, Of(i))
<1>5. ASSUME NEW x, WatchedEvent(x), x # TurnEvent
      PROVE  \E i \in 1 .. Len(log) : IsItem(x, i) /\ x.at = i
  <2>1. PICK i \in 1 .. Len(log), k \in Int :
          /\ x = ItemEvent(i, IF log[i].named THEN <<"item", i>> ELSE <<"index", k>>)
          /\ k = i - 1 - cut
    BY <1>5 DEF WatchedEvent
  <2>2. Of(i) = IF log[i].named THEN <<"item", i>> ELSE <<"index", k>>
    BY <2>1
  <2> HIDE DEF Of
  <2>3. x = ItemEvent(i, Of(i))
    BY <2>1, <2>2
  <2> QED
    BY <2>3 DEF ItemEvent
<1> SUFFICES ASSUME d # TurnEvent, d.at = e.at PROVE d = e
  BY <1>4
<1> HIDE DEF IsItem
<1>6. PICK i \in 1 .. Len(log) : IsItem(d, i) /\ d.at = i
  BY <1>5
<1>7. e # TurnEvent
  BY <1>2, <1>3, <1>6
<1>8. PICK j \in 1 .. Len(log) : IsItem(e, j) /\ e.at = j
  BY <1>5, <1>7
<1>9. i = j
  BY <1>6, <1>8
<1> QED
  BY <1>6, <1>8, <1>9 DEF IsItem

\* An item of the watched turn is evidence once, however often the growing turn is
\* saved (conversations.go:85-112).
THEOREM ItemsCountOnce == Spec => []ItemCountsOnce
<1>1. ASSUME DataInv PROVE ItemCountsOnce
  <2> SUFFICES ASSUME ~rebased,
                      NEW i \in DOMAIN events[Watched], NEW j \in DOMAIN events[Watched],
                      i # j, events[Watched][i].tool # "",
                      events[Watched][i].at = events[Watched][j].at
               PROVE  FALSE
    BY DEF ItemCountsOnce, Requests
  <2>1. CodexShape /\ Watched \in Requests
    BY <1>1, RequestNames DEF DataInv, ProxyInv, Shapes
  <2>2. WatchedEvent(events[Watched][i]) /\ WatchedEvent(events[Watched][j])
    BY <1>1 DEF DataInv, EvidenceInv, ToSet
  <2>3. events[Watched][i] # events[Watched][j]
    BY <1>1, <2>1 DEF DataInv, EvidenceInv, AllDifferent
  <2> QED
    BY <2>1, <2>2, <2>3, WatchedApart
<1> QED
  BY <1>1, DataInvariant, PTL
-----------------------------------------------------------------------------
(* What the MCP server answers *)

\* The names of a session's evidence.
EvidenceIds(r) == {e.id : e \in ToSet(events[r])}

\* A decision that rests on evidence of r.
Rests(d, r) ==
  d \in [kind : {"continue", "advise", "redirect", "verify"}, evidence : Seq(EvidenceIds(r))]

\* Short of a deletion evidence is only added to.
LEMMA EvidenceGrows ==
  ASSUME DataInv, [Next]_vars, ~\E q \in Requests : DeleteSession(q), NEW r \in Requests
  PROVE  ToSet(events[r]) \subseteq ToSet(events'[r])
<1>1. CodexShape' /\ Requests = {Watched} \cup Calls
  BY ShapesKept DEF DataInv, ProxyInv, Shapes, Requests
<1>2. CASE UNCHANGED <<request, events>>
  BY <1>2
<1>3. CASE SaveWatched
  BY <1>1, <1>3, EvidenceOfTurn
<1>4. ASSUME NEW c \in Calls, PersistCall(c)
      PROVE  ToSet(events[r]) \subseteq ToSet(events'[r])
  BY <1>1, <1>4, EvidenceOfCall, NoEvidence
<1> QED
  BY <1>2, <1>3, <1>4, RowSteps

\* Guidance names evidence of its session.
LEMMA GuidanceRests ==
  ASSUME NEW r, AllDifferent(events[r])
  PROVE  Rests(Guidance(r), r)
<1> DEFINE s == [i \in DOMAIN events[r] |-> Signal(events[r][i])]
           d == Guidance(r)
<1>1. PICK n \in Nat : DOMAIN events[r] = 1 .. n
  BY DEF AllDifferent
<1>2. d = Evaluate(s)
  BY DEF Guidance
<1>3. \A i \in 1 .. n : s[i].id = events[r][i].id
  BY <1>1 DEF Signal
<1>4. s = [i \in 1 .. n |-> s[i]]
  BY <1>1
<1> HIDE DEF s
<1>5. Len(s) = n /\ (s # <<>> => Len(s) # 0)
  <2>1. IsSequence(s) /\ Len(s) = n
    BY <1>4, SequenceMade
  <2>2. n = 0 => s = <<>>
    BY <1>4
  <2> QED
    BY <2>1, <2>2
<1>6. /\ d = [kind |-> d.kind, evidence |-> d.evidence]
      /\ d.kind \in {"continue", "advise", "redirect", "verify"}
      /\ d.kind = "continue" => d.evidence = <<>>
  <2> HIDE DEF d
  <2> QED
    BY <1>2 DEF Evaluate, Continue, Decision
<1> HIDE DEF d
<1> DEFINE A == EvidenceIds(r)
<1>7. ASSUME d.evidence \in Seq(A) PROVE Rests(Guidance(r), r)
  <2> HIDE DEF A
  <2>1. d \in [kind : {"continue", "advise", "redirect", "verify"}, evidence : Seq(A)]
    BY <1>6, <1>7
  <2> QED
    BY <2>1 DEF Rests, A, d
<1>8. CASE d.kind = "continue"
  <2>1. d.evidence \in Seq(A)
    <3> HIDE DEF A
    <3>1. d.evidence = <<>>
      BY <1>6, <1>8
    <3>2. <<>> \in Seq(A)
      OBVIOUS
    <3> QED
      BY <3>1, <3>2
  <2> QED
    BY <1>7, <2>1
<1>9. CASE d.kind # "continue"
  <2>1. PICK k \in Nat \ {0} :
           /\ d.evidence = [i \in 1 .. k |-> d.evidence[i]]
           /\ \A i \in 1 .. k : \E j \in 1 .. Len(s) :
                d.evidence[i] = s[j].id /\ Grounds(d.kind, s[j].kind)
    BY <1>2, <1>5, <1>9, EvidenceGiven
  <2>2. \A i \in 1 .. k : d.evidence[i] \in EvidenceIds(r)
    <3>1. ASSUME NEW j \in 1 .. n PROVE s[j].id \in EvidenceIds(r)
      <4>1. events[r][j] \in ToSet(events[r])
        BY <1>1 DEF ToSet
      <4>2. events[r][j].id \in EvidenceIds(r)
        BY <4>1 DEF EvidenceIds
      <4> QED
        BY <1>3, <4>2
    <3> QED
      BY <1>5, <2>1, <3>1
  <2>3. d.evidence \in Seq(A)
    <3> DEFINE q == d.evidence
    <3>1. q = [i \in 1 .. k |-> q[i]] /\ \A i \in 1 .. k : q[i] \in A
      BY <2>1, <2>2
    <3> HIDE DEF q, A
    <3>2. q \in [1 .. k -> A]
      BY <3>1
    <3>3. q \in Seq(A)
      BY <3>2
    <3> QED
      BY <3>3 DEF q
  <2> QED
    BY <1>7, <2>3
<1> QED
  BY <1>8, <1>9

\* What a decision rests on stays.
LEMMA RestsStill ==
  ASSUME NEW d, NEW r, Rests(d, r), ToSet(events[r]) \subseteq ToSet(events'[r])
  PROVE  Rests(d, r)'
<1> DEFINE A == EvidenceIds(r)
           B == EvidenceIds(r)'
<1>1. A \subseteq B
  BY DEF EvidenceIds
<1>2. d \in [kind : {"continue", "advise", "redirect", "verify"}, evidence : Seq(A)]
  BY DEF Rests
<1> HIDE DEF A, B
<1>3. Seq(A) \subseteq Seq(B)
  BY <1>1
<1>4. d \in [kind : {"continue", "advise", "redirect", "verify"}, evidence : Seq(B)]
  BY <1>2, <1>3
<1> QED
  BY <1>4 DEF Rests, B

\* Evidence is named as the store expects, deliveries are counted.
NamesInv == /\ \A r \in Requests : EvidenceIds(r) \subseteq EventIds
            /\ \A r \in Requests : receipt[r] = None \/ receipt[r].count \in Nat

\* What the MCP server has at hand is on record, unless the session was deleted
\* since it asked.
AtHand(m) ==
  LET recorded == {"recorded", "answered"}
      decided == {"decided"} \cup recorded
  IN  /\ m.step \in {"latest", "read", "persist"} \cup decided => m.session \in Requests
      /\ ~m.gone =>
           /\ m.step \in {"persist"} \cup decided => Rests(m.decision, m.session)
           /\ m.step \in decided /\ m.decision.kind # "continue" =>
                m.decision \in decisions[m.session]
           /\ m.step \in recorded => /\ receipt[m.session] # None
                                     /\ receipt[m.session].decision = m.decision
           /\ m.step = "answered" => m.precision = "exact" \/ Spent("fails")

\* What the one MCP client under way has at hand.
McpInv == AtHand(evaluation[Mcp])

\* Names and counts stay what the store expects.
LEMMA NamesKept ==
  ASSUME DataInv, NamesInv, [Next]_vars
  PROVE  NamesInv'
<1>1. /\ CodexShape' /\ Requests = {Watched} \cup Calls
      /\ DOMAIN events = Requests /\ DOMAIN receipt = Requests
  BY ShapesKept DEF DataInv, ProxyInv, Shapes, TablesShape, Requests
<1>2. ASSUME NEW r \in Requests PROVE (EvidenceIds(r) \subseteq EventIds)'
  <2>1. CASE ToSet(events'[r]) \subseteq ToSet(events[r])
    BY <2>1 DEF NamesInv, EvidenceIds
  <2>2. CASE UNCHANGED <<request, events>>
    BY <2>1, <2>2
  <2>3. ASSUME NEW q \in Requests, DeleteSession(q) PROVE (EvidenceIds(r) \subseteq EventIds)'
    <3>1. events'[r] = events[r] \/ events'[r] = <<>>
      BY <1>1, <2>3 DEF DeleteSession
    <3> QED
      BY <2>1, <3>1, NoEvidence
  <2>4. CASE SaveWatched
    <3>1. CASE r = Watched
      <4>1. EvidenceInv'
        BY <1>1, <2>4, EvidenceOfTurn
      <4>2. ASSUME NEW e \in ToSet(events'[r]) PROVE e.id \in EventIds
        <5>1. WatchedEvent(e)'
          BY <3>1, <4>1, <4>2 DEF EvidenceInv
        <5>2. CASE e = TurnEvent'
          <6>1. e.id = [of |-> <<"request", 0>>, type |-> "command.completed"]
            BY <5>2 DEF TurnEvent
          <6> QED
            BY <6>1 DEF EventIds
        <5>3. CASE e # TurnEvent'
          <6>1. PICK i \in 1 .. Len(log'), k \in Int :
                  e = ItemEvent(i, IF log[i].named THEN <<"item", i>> ELSE <<"index", k>>)'
            BY <5>1, <5>3 DEF WatchedEvent
          <6>2. \E of \in {<<"item", i>>, <<"index", k>>} :
                  e.id = [of |-> of, type |-> "tool.completed"]
            BY <6>1 DEF ItemEvent
          <6>3. i \in Int
            OBVIOUS
          <6> QED
            BY <6>2, <6>3 DEF EventIds
        <5> QED
          BY <5>2, <5>3
      <4> QED
        BY <4>2 DEF EvidenceIds
    <3>2. CASE r # Watched
      BY <1>1, <2>1, <2>4, <3>2, EvidenceOfTurn
    <3> QED
      BY <3>1, <3>2
  <2>5. ASSUME NEW c \in Calls, PersistCall(c) PROVE (EvidenceIds(r) \subseteq EventIds)'
    <3>1. CASE r = c
      <4>1. \A e \in ToSet(events'[c]) : e.id \in EventIds
        BY <1>1, <2>5, EvidenceOfCall
      <4> QED
        BY <3>1, <4>1 DEF EvidenceIds
    <3>2. CASE r # c
      BY <1>1, <2>1, <2>5, <3>2, EvidenceOfCall
    <3> QED
      BY <3>1, <3>2
  <2> QED
    BY <2>2, <2>3, <2>4, <2>5, RowSteps
<1>3. ASSUME NEW r \in Requests PROVE receipt'[r] = None \/ receipt'[r].count \in Nat
  <2>1. CASE UNCHANGED <<receipt>>
    BY <2>1 DEF NamesInv
  <2>2. ASSUME NEW q \in Requests, DeleteSession(q)
        PROVE  receipt'[r] = None \/ receipt'[r].count \in Nat
    BY <1>1, <2>2 DEF DeleteSession, NamesInv
  <2>3. CASE RecordDelivery
    <3>1. \/ receipt'[r] = receipt[r]
          \/ \E d : receipt'[r] = [count |-> IF receipt[r] = None THEN 1 ELSE receipt[r].count + 1,
                                   decision |-> d]
      BY <1>1, <2>3 DEF RecordDelivery
    <3>2. CASE receipt'[r] = receipt[r]
      BY <3>2 DEF NamesInv
    <3>3. CASE \E d : receipt'[r] = [count |-> IF receipt[r] = None THEN 1
                                               ELSE receipt[r].count + 1, decision |-> d]
      <4>1. receipt'[r].count = IF receipt[r] = None THEN 1 ELSE receipt[r].count + 1
        BY <3>3
      <4>2. receipt[r] = None \/ receipt[r].count \in Nat
        BY DEF NamesInv
      <4> DEFINE n == receipt[r].count
      <4>3. n \in Nat => n + 1 \in Nat
        OBVIOUS
      <4> QED
        BY <4>1, <4>2, <4>3
    <3> QED
      BY <3>1, <3>2, <3>3
  <2> QED
    BY <2>1, <2>2, <2>3, ReceiptSteps
<1> QED
  BY <1>2, <1>3 DEF NamesInv
-----------------------------------------------------------------------------
(* What the MCP server has at hand *)

\* What is at hand stays so while nothing but more of it comes.
LEMMA StillAtHand ==
  ASSUME NEW m, AtHand(m), UNCHANGED <<receipt>>, Spent("fails") => Spent("fails")',
         \A r \in Requests : ToSet(events[r]) \subseteq ToSet(events'[r])
                             /\ decisions[r] \subseteq decisions'[r]
  PROVE  AtHand(m)'
<1>1. m.session \in Requests /\ Rests(m.decision, m.session) => Rests(m.decision, m.session)'
  BY RestsStill
<1> QED
  BY <1>1 DEF AtHand

\* A deletion marks the session of the question as gone.
LEMMA AtHandAfterDeletion ==
  ASSUME ProxyInv, NEW m, AtHand(m), NEW r \in Requests, DeleteSession(r),
         Spent("fails") => Spent("fails")',
         NEW n, n.step = m.step, n.session = m.session, n.decision = m.decision,
         n.precision = m.precision, n.gone = (m.gone \/ m.session = r)
  PROVE  AtHand(n)'
<1>1. DOMAIN events = Requests /\ DOMAIN decisions = Requests /\ DOMAIN receipt = Requests
  BY DEF ProxyInv, Shapes, TablesShape
<1>2. /\ events' = [events EXCEPT ![r] = <<>>]
      /\ decisions' = [decisions EXCEPT ![r] = {}] /\ receipt' = [receipt EXCEPT ![r] = None]
  BY DEF DeleteSession
<1>3. CASE m.session = r
  BY <1>3 DEF AtHand
<1>4. CASE m.session # r
  <2>1. m.session \in Requests => /\ events'[m.session] = events[m.session]
                                  /\ decisions'[m.session] = decisions[m.session]
                                  /\ receipt'[m.session] = receipt[m.session]
    BY <1>1, <1>2, <1>4
  <2>2. m.session \in Requests /\ Rests(m.decision, m.session)
        => Rests(m.decision, m.session)'
    BY <2>1, RestsStill
  <2> QED
    BY <1>4, <2>1, <2>2 DEF AtHand
<1> QED
  BY <1>3, <1>4

\* So it does for the question under way.
LEMMA McpAfterDeletion ==
  ASSUME ProxyInv, McpInv, NEW r \in Requests, DeleteSession(r), UNCHANGED scenario
  PROVE  McpInv'
<1>0. Spent("fails") => Spent("fails")'
  BY Spending DEF DeleteSession, ProxyInv, Bounds
<1> DEFINE m == evaluation[Mcp]
           n == evaluation'[Mcp]
<1>1. DOMAIN evaluation = Requests \cup {Mcp} /\ DOMAIN m = DOMAIN Idle
  BY EvaluationNames
<1>2. n = [m EXCEPT !.gone = @ \/ m.session = r]
  BY <1>1 DEF DeleteSession
<1>3. /\ n.step = m.step /\ n.session = m.session /\ n.decision = m.decision
      /\ n.precision = m.precision /\ n.gone = (m.gone \/ m.session = r)
  BY <1>1, <1>2 DEF Idle
<1>4. \A x : AtHand(x) /\ n.step = x.step /\ n.session = x.session /\ n.decision = x.decision
             /\ n.precision = x.precision /\ n.gone = (x.gone \/ x.session = r)
             => \A y : y = n => AtHand(y)'
  BY <1>0, AtHandAfterDeletion
<1> QED
  BY <1>3, <1>4 DEF McpInv

\* A question, or the end of one, has nothing at hand yet.
LEMMA NothingAtHand ==
  ASSUME NEW m, m.step \notin {"persist", "decided", "recorded", "answered"},
         m.step \in {"latest", "read"} => m.session \in Requests
  PROVE  AtHand(m)'
BY DEF AtHand

\* To continue rests on no evidence at all.
LEMMA ContinueRests ==
  ASSUME NEW r
  PROVE  Rests(Continue, r) /\ Continue.kind = "continue"
<1> DEFINE A == EvidenceIds(r)
<1> HIDE DEF A
<1>1. <<>> \in Seq(A)
  OBVIOUS
<1>2. Continue = [kind |-> "continue", evidence |-> <<>>]
  BY DEF Continue, Decision
<1>3. Continue \in [kind : {"continue", "advise", "redirect", "verify"}, evidence : Seq(A)]
  BY <1>1, <1>2
<1> QED
  BY <1>2, <1>3 DEF Rests, A

\* Nothing to say: the answer is to continue.
LEMMA ContinueAtHand ==
  ASSUME UNCHANGED <<events>>, NEW m, m.session \in Requests, Rests(m.decision, m.session),
         m.step = "decided", m.decision.kind = "continue"
  PROVE  AtHand(m)'
<1>1. Rests(m.decision, m.session)'
  BY RestsStill
<1> QED
  BY <1>1 DEF AtHand

\* It is stored.
LEMMA StoredAtHand ==
  ASSUME UNCHANGED <<events>>, NEW m, AtHand(m), m.step = "persist", DOMAIN decisions = Requests,
         NEW n, n.step = "decided", n.session = m.session, n.decision = m.decision,
         n.gone = m.gone,
         decisions' = [decisions EXCEPT ![m.session] = @ \cup {m.decision}]
  PROVE  AtHand(n)'
<1>1. m.session \in Requests /\ (~m.gone => Rests(m.decision, m.session))
  BY DEF AtHand
<1>2. ~m.gone => Rests(m.decision, m.session)'
  BY <1>1, RestsStill
<1>3. m.decision \in decisions'[m.session]
  BY <1>1
<1> QED
  BY <1>1, <1>2, <1>3 DEF AtHand

\* Its delivery is recorded.
LEMMA RecordedAtHand ==
  ASSUME NamesInv, UNCHANGED <<events, decisions>>, NEW m, AtHand(m), m.step = "decided",
         DOMAIN receipt = Requests,
         NEW n, n.step = "recorded", n.session = m.session, n.decision = m.decision,
         n.gone = m.gone,
         receipt' = [receipt EXCEPT ![m.session] =
                       [count |-> IF @ = None THEN 1 ELSE @.count + 1, decision |-> m.decision]]
  PROVE  AtHand(n)'
<1> DEFINE count == IF receipt[m.session] = None THEN 1 ELSE receipt[m.session].count + 1
           new == [count |-> count, decision |-> m.decision]
<1>1. /\ m.session \in Requests
      /\ ~m.gone => /\ Rests(m.decision, m.session)
                    /\ m.decision.kind # "continue" => m.decision \in decisions[m.session]
  BY DEF AtHand
<1>2. ~m.gone => Rests(m.decision, m.session)'
  BY <1>1, RestsStill
<1>3. receipt'[m.session] = new
  BY <1>1
<1>4. count \in Nat
  <2> DEFINE old == receipt[m.session].count
  <2>1. receipt[m.session] = None \/ old \in Nat
    BY <1>1 DEF NamesInv
  <2>2. old \in Nat => old + 1 \in Nat
    OBVIOUS
  <2> QED
    BY <2>1, <2>2
<1>5. ASSUME ~m.gone PROVE new # None
  <2> DEFINE A == EvidenceIds(m.session)
             D(S) == [kind : {"continue", "advise", "redirect", "verify"}, evidence : Seq(S)]
  <2>1. m.decision \in D(A) /\ A \subseteq EventIds
    BY <1>1, <1>5 DEF Rests, NamesInv
  <2> HIDE DEF A
  <2>2. Seq(A) \subseteq Seq(EventIds)
    BY <2>1
  <2>3. m.decision \in D(EventIds)
    BY <2>1, <2>2
  <2> HIDE DEF D, count
  <2>4. new \in [count : Nat, decision : D(EventIds)]
    BY <1>4, <2>3
  <2>5. Receipts = [count : Nat, decision : D(EventIds)]
    BY DEF Receipts, D
  <2> HIDE DEF new
  <2> QED
    BY <2>4, <2>5, StoreConstants
<1>6. new.decision = m.decision
  OBVIOUS
<1> HIDE DEF new
<1> QED
  BY <1>1, <1>2, <1>3, <1>5, <1>6 DEF AtHand

\* What a decision rests on is in place.
LEMMA RestsInPlace ==
  ASSUME NEW r, NEW d, Rests(d, r)
  PROVE  InPlace(r, d)
<1> DEFINE A == EvidenceIds(r)
<1>1. d \in [kind : {"continue", "advise", "redirect", "verify"}, evidence : Seq(A)]
  BY DEF Rests
<1> HIDE DEF A
<1> DEFINE q == d.evidence
<1>2. q \in Seq(A)
  BY <1>1
<1> HIDE DEF q
<1>3. ToSet(q) \subseteq A
  BY <1>2 DEF ToSet
<1> QED
  BY <1>3 DEF InPlace, EvidenceIds, A, q

\* The answer says how far it can be trusted.
LEMMA AnswerAtHand ==
  ASSUME UNCHANGED <<events, decisions, receipt>>, NEW m, AtHand(m), m.step = "recorded",
         NEW n, n.step = "answered", n.session = m.session, n.decision = m.decision,
         n.gone = m.gone, Precision(m.session, m.decision, n.precision),
         Spend("fails") => Spent("fails")'
  PROVE  AtHand(n)'
<1>1. ~m.gone => Rests(m.decision, m.session)
  BY DEF AtHand
<1>2. ~m.gone => Rests(m.decision, m.session)'
  BY <1>1, RestsStill
<1>3. ~m.gone => n.precision = "exact" \/ Spent("fails")'
  BY <1>1, RestsInPlace DEF Precision
<1> QED
  BY <1>2, <1>3 DEF AtHand
-----------------------------------------------------------------------------
(* The steps of an MCP question *)

\* How the MCP server concludes.
LEMMA McpConcludes ==
  ASSUME ProxyInv, NEW step, NEW decision, Concluded(Mcp, step, decision)
  PROVE  /\ evaluation'[Mcp].step = step /\ evaluation'[Mcp].decision = decision
         /\ evaluation'[Mcp].session = evaluation[Mcp].session
         /\ evaluation'[Mcp].gone = evaluation[Mcp].gone
<1>1. DOMAIN evaluation = Requests \cup {Mcp} /\ DOMAIN evaluation[Mcp] = DOMAIN Idle
  BY EvaluationNames
<1> QED
  BY <1>1 DEF Concluded, Idle

\* A question that ends in an error holds nothing.
LEMMA McpFails ==
  ASSUME ProxyInv, NEW decision, Concluded(Mcp, "failed", decision)
  PROVE  McpInv'
<1>1. evaluation'[Mcp].step = "failed"
  BY McpConcludes
<1> QED
  BY <1>1, NothingAtHand DEF McpInv

\* One whose session has nothing to say is told to continue.
LEMMA McpDecides ==
  ASSUME ProxyInv, UNCHANGED <<events>>, evaluation[Mcp].session \in Requests,
         Concluded(Mcp, "decided", Continue)
  PROVE  McpInv'
<1> DEFINE n == evaluation'[Mcp]
<1>1. n.step = "decided" /\ n.decision = Continue /\ n.session \in Requests
  BY McpConcludes
<1>2. Rests(n.decision, n.session) /\ n.decision.kind = "continue"
  BY <1>1, ContinueRests
<1> HIDE DEF n
<1>3. \A x : x = n => AtHand(x)'
  BY <1>1, <1>2, ContinueAtHand
<1> QED
  BY <1>3 DEF McpInv, n

\* How it takes the decision it computed.
LEMMA McpTakes ==
  ASSUME ProxyInv, UNCHANGED <<events>>, evaluation[Mcp].session \in Requests,
         NEW d, Rests(d, evaluation[Mcp].session),
         evaluation' = [evaluation EXCEPT ![Mcp] = [@ EXCEPT !.step = "persist", !.decision = d]]
  PROVE  McpInv'
<1> DEFINE n == evaluation'[Mcp]
<1>1. DOMAIN evaluation = Requests \cup {Mcp} /\ DOMAIN evaluation[Mcp] = DOMAIN Idle
  BY EvaluationNames
<1>2. n.step = "persist" /\ n.decision = d /\ n.session = evaluation[Mcp].session
  BY <1>1 DEF Idle
<1>3. n.session \in Requests /\ Rests(n.decision, n.session)
  BY <1>2
<1> HIDE DEF n
<1>4. \A x : x = n => AtHand(x)'
  <2>1. ASSUME NEW x, x = n PROVE AtHand(x)'
    <3>1. x.session \in Requests /\ Rests(x.decision, x.session) /\ x.step = "persist"
      BY <1>2, <1>3, <2>1
    <3>2. Rests(x.decision, x.session)'
      BY <3>1, RestsStill
    <3> QED
      BY <3>1, <3>2 DEF AtHand
  <2> QED
    BY <2>1
<1> QED
  BY <1>4 DEF McpInv, n

\* It reads the evidence and evaluates it.
LEMMA McpReads ==
  ASSUME DataInv, McpInv, ReadEvidence(Mcp)
  PROVE  McpInv'
<1> DEFINE m == evaluation[Mcp]
           d == Guidance(m.session)
<1>1. /\ DOMAIN evaluation = Requests \cup {Mcp} /\ DOMAIN m = DOMAIN Idle
      /\ UNCHANGED <<events>> /\ m.step = "read"
  BY EvaluationNames DEF DataInv, ReadEvidence, tables
<1>2. m.session \in Requests
  BY <1>1 DEF McpInv, AtHand
<1>3. Rests(d, m.session)
  BY <1>2, GuidanceRests DEF DataInv, EvidenceInv
<1>4. CASE Concluded(Mcp, "failed", Continue)
  BY <1>4, McpFails DEF DataInv
<1>5. CASE Concluded(Mcp, "decided", Continue)
  BY <1>1, <1>2, <1>5, McpDecides DEF DataInv
<1>6. CASE evaluation' = [evaluation EXCEPT ![Mcp] = [@ EXCEPT !.step = "persist", !.decision = d]]
  <2> HIDE DEF d
  <2> QED
    BY <1>1, <1>2, <1>3, <1>6, McpTakes DEF DataInv
<1> QED
  BY <1>4, <1>5, <1>6 DEF ReadEvidence

\* It stores the decision.
LEMMA McpPersists ==
  ASSUME DataInv, McpInv, PersistDecision(Mcp)
  PROVE  McpInv'
<1> DEFINE m == evaluation[Mcp]
           n == evaluation'[Mcp]
<1>1. UNCHANGED <<events>> /\ m.step = "persist" /\ DOMAIN decisions = Requests
  BY DEF DataInv, ProxyInv, Shapes, TablesShape, PersistDecision
<1>2. CASE Concluded(Mcp, "failed", Continue)
  BY <1>2, McpFails DEF DataInv
<1>3. CASE /\ decisions' = [decisions EXCEPT ![m.session] = @ \cup {m.decision}]
           /\ Concluded(Mcp, "decided", m.decision)
  <2>1. /\ n.step = "decided" /\ n.decision = m.decision /\ n.session = m.session
        /\ n.gone = m.gone
    BY <1>3, McpConcludes DEF DataInv
  <2>2. AtHand(m)
    BY DEF McpInv
  <2> HIDE DEF m, n
  <2>3. \A x, y : x = m /\ y = n => AtHand(y)'
    BY <1>1, <1>3, <2>1, <2>2, StoredAtHand
  <2> QED
    BY <2>3 DEF McpInv, n
<1> QED
  BY <1>2, <1>3 DEF PersistDecision

\* It records the delivery.
LEMMA McpRecords ==
  ASSUME DataInv, NamesInv, McpInv, RecordDelivery
  PROVE  McpInv'
<1> DEFINE m == evaluation[Mcp]
           n == evaluation'[Mcp]
<1>1. UNCHANGED <<events, decisions>> /\ m.step = "decided" /\ DOMAIN receipt = Requests
  BY DEF DataInv, ProxyInv, Shapes, TablesShape, RecordDelivery
<1>2. CASE Concluded(Mcp, "failed", m.decision)
  BY <1>2, McpFails DEF DataInv
<1>3. CASE /\ receipt' = [receipt EXCEPT ![m.session] =
                   [count |-> IF @ = None THEN 1 ELSE @.count + 1, decision |-> m.decision]]
           /\ Concluded(Mcp, "recorded", m.decision)
  <2>1. /\ n.step = "recorded" /\ n.decision = m.decision /\ n.session = m.session
        /\ n.gone = m.gone
    BY <1>3, McpConcludes DEF DataInv
  <2>2. AtHand(m)
    BY DEF McpInv
  <2> HIDE DEF m, n
  <2>3. \A x, y : x = m /\ y = n => AtHand(y)'
    BY <1>1, <1>3, <2>1, <2>2, RecordedAtHand
  <2> QED
    BY <2>3 DEF McpInv, n
<1> QED
  BY <1>2, <1>3 DEF RecordDelivery

\* It answers.
LEMMA McpAnswers ==
  ASSUME DataInv, McpInv, Answer, UNCHANGED scenario
  PROVE  McpInv'
<1> DEFINE m == evaluation[Mcp]
           n == evaluation'[Mcp]
<1>1. /\ DOMAIN evaluation = Requests \cup {Mcp} /\ DOMAIN m = DOMAIN Idle
      /\ UNCHANGED <<events, decisions, receipt>> /\ m.step = "recorded"
  BY EvaluationNames DEF DataInv, Answer, tables
<1>2. /\ n.step = "answered" /\ n.session = m.session /\ n.decision = m.decision
      /\ n.gone = m.gone /\ Precision(m.session, m.decision, n.precision)
  BY <1>1 DEF Answer, Idle
<1>5. Spend("fails") => Spent("fails")'
  BY Spending DEF DataInv, ProxyInv, Bounds
<1>3. AtHand(m)
  BY DEF McpInv
<1> HIDE DEF m, n
<1>4. \A x, y : x = m /\ y = n => AtHand(y)'
  BY <1>1, <1>2, <1>3, <1>5, AnswerAtHand
<1> QED
  BY <1>4 DEF McpInv, n

\* A new question starts over.
LEMMA McpAsks ==
  ASSUME ProxyInv, \/ \E r \in Requests : AskSession(r) \/ AskLatest(r)
                   \/ AskNobody
  PROVE  McpInv'
<1>1. \E session, step : /\ evaluation' = [evaluation EXCEPT ![Mcp] =
                                             [Idle EXCEPT !.step = step, !.session = session]]
                         /\ (step \in {"read", "latest"} /\ session \in Requests) \/ step = "failed"
  BY DEF AskSession, AskLatest, AskNobody, Ask
<1>2. /\ evaluation'[Mcp].step \in {"read", "latest", "failed"}
      /\ evaluation'[Mcp].step \in {"latest", "read"} => evaluation'[Mcp].session \in Requests
  BY <1>1, EvaluationNames DEF Idle
<1> QED
  BY <1>2, NothingAtHand DEF McpInv

\* It looks up the latest session.
LEMMA McpReadsLatest ==
  ASSUME DataInv, McpInv, ReadLatest
  PROVE  McpInv'
<1>1. /\ evaluation[Mcp].step = "latest" /\ UNCHANGED <<events>>
      /\ DOMAIN evaluation = Requests \cup {Mcp} /\ DOMAIN evaluation[Mcp] = DOMAIN Idle
  BY EvaluationNames DEF DataInv, ReadLatest, tables
<1>2. evaluation[Mcp].session \in Requests
  BY <1>1 DEF McpInv, AtHand
<1>3. CASE Concluded(Mcp, "decided", Continue)
  BY <1>1, <1>2, <1>3, McpDecides DEF DataInv
<1>4. CASE evaluation' = [evaluation EXCEPT ![Mcp].step = "read"]
  <2>1. evaluation'[Mcp].step = "read" /\ evaluation'[Mcp].session = evaluation[Mcp].session
    BY <1>1, <1>4 DEF Idle
  <2> QED
    BY <1>2, <2>1, NothingAtHand DEF McpInv
<1> QED
  BY <1>3, <1>4 DEF ReadLatest

\* Who else does not touch it.
LEMMA OthersGoOn ==
  ASSUME DataInv, [Next]_vars, ~McpStep, ~\E r \in Requests : DeleteSession(r),
         ~(ReadEvidence(Mcp) \/ PersistDecision(Mcp) \/ EvaluationFails(Mcp))
  PROVE  /\ evaluation'[Mcp] = evaluation[Mcp] /\ UNCHANGED <<receipt>>
         /\ \A r \in Requests : decisions[r] \subseteq decisions'[r]
<1>1. /\ DOMAIN evaluation = Requests \cup {Mcp} /\ DOMAIN decisions = Requests
      /\ Mcp \notin Requests /\ Requests = {Watched} \cup Calls
  BY EvaluationNames DEF DataInv, Requests
<1>2. UNCHANGED <<receipt>>
  BY ReceiptSteps DEF McpStep
<1>3. CASE UNCHANGED <<decisions, evaluation, missed>>
  BY <1>2, <1>3
<1>4. ASSUME NEW r \in Requests, NEW record, Save(r, record)
      PROVE  evaluation'[Mcp] = evaluation[Mcp] /\ UNCHANGED decisions
  BY <1>1, <1>4 DEF Save
<1>5. CASE Restart
  BY <1>1, <1>2, <1>5 DEF Restart, tables
<1>6. CASE Exit
  BY <1>1, <1>2, <1>6 DEF Exit, tables
<1>7. CASE EvaluationStep
  <2> SUFFICES ASSUME NEW p \in Requests,
                      ReadEvidence(p) \/ PersistDecision(p) \/ EvaluationFails(p)
               PROVE  /\ evaluation'[Mcp] = evaluation[Mcp]
                      /\ \A r \in Requests : decisions[r] \subseteq decisions'[r]
    BY <1>2, <1>7 DEF EvaluationStep
  <2>1. ASSUME NEW step, NEW decision, Concluded(p, step, decision)
        PROVE  evaluation'[Mcp] = evaluation[Mcp]
    BY <1>1, <2>1 DEF Concluded
  <2>2. CASE ReadEvidence(p)
    BY <1>1, <2>1, <2>2 DEF ReadEvidence, tables
  <2>3. CASE EvaluationFails(p)
    BY <1>1, <2>1, <2>3 DEF EvaluationFails, tables
  <2>4. CASE PersistDecision(p)
    <3>1. evaluation'[Mcp] = evaluation[Mcp]
      BY <2>1, <2>4 DEF PersistDecision
    <3>2. \A r \in Requests : decisions[r] \subseteq decisions'[r]
      BY <1>1, <2>4 DEF PersistDecision
    <3> QED
      BY <3>1, <3>2
  <2> QED
    BY <2>2, <2>3, <2>4
<1>8. CASE SaveWatched
  BY <1>1, <1>2, <1>4, <1>8 DEF SaveWatched
<1>9. CASE \E c \in Calls : PersistCall(c)
  BY <1>1, <1>2, <1>4, <1>9 DEF PersistCall
<1> QED
  BY <1>3, <1>5, <1>6, <1>7, <1>8, <1>9, EvaluationSteps

\* Every step keeps what is at hand on record.
LEMMA McpKept ==
  ASSUME DataInv, NamesInv, McpInv, [Next]_vars
  PROVE  McpInv'
<1>0. UNCHANGED scenario /\ (Spent("fails") => Spent("fails")')
  BY StepSpends, BudgetFalls DEF DataInv, ProxyInv, Bounds
<1>1. CASE McpStep
  BY <1>0, <1>1, McpAsks, McpReadsLatest, McpRecords, McpAnswers DEF McpStep, DataInv
<1>2. ASSUME NEW r \in Requests, DeleteSession(r) PROVE McpInv'
  BY <1>0, <1>2, McpAfterDeletion DEF DataInv
<1>3. CASE EvaluationFails(Mcp)
  BY <1>3, McpFails DEF EvaluationFails, DataInv
<1>4. CASE ReadEvidence(Mcp) \/ PersistDecision(Mcp)
  BY <1>4, McpReads, McpPersists
<1>5. CASE /\ ~McpStep /\ ~\E r \in Requests : DeleteSession(r)
           /\ ~(ReadEvidence(Mcp) \/ PersistDecision(Mcp) \/ EvaluationFails(Mcp))
  <2>1. /\ evaluation'[Mcp] = evaluation[Mcp] /\ UNCHANGED <<receipt>>
        /\ \A r \in Requests : decisions[r] \subseteq decisions'[r]
    BY <1>5, OthersGoOn
  <2>2. \A r \in Requests : ToSet(events[r]) \subseteq ToSet(events'[r])
    BY <1>5, EvidenceGrows
  <2>3. \A x : x = evaluation[Mcp] => AtHand(x)'
    BY <1>0, <2>1, <2>2, StillAtHand DEF McpInv
  <2> QED
    BY <2>1, <2>3 DEF McpInv
<1> QED
  BY <1>1, <1>2, <1>3, <1>4, <1>5

\* What the MCP server answered is on record: the session's receipt, the stored
\* decision and its evidence, unless the session was deleted meanwhile; and it is
\* called exact unless the evidence could not be read again
\* (app/guidance.go:65-123).
THEOREM AnswersOnRecord == Spec => []AnswerOnRecord
<1>1. Init => NamesInv /\ McpInv
  <2> SUFFICES ASSUME Init PROVE NamesInv /\ McpInv
    OBVIOUS
  <2>1. /\ \A r \in Requests : events[r] = <<>> /\ receipt[r] = None
        /\ evaluation[Mcp].step = "none"
    BY DEF Init, StoreInit, Idle
  <2>2. NamesInv
    BY <2>1, NoEvidence DEF NamesInv, EvidenceIds
  <2> QED
    BY <2>1, <2>2 DEF McpInv, AtHand
<1>2. DataInv /\ NamesInv /\ McpInv /\ [Next]_vars => NamesInv' /\ McpInv'
  BY NamesKept, McpKept
<1>3. McpInv => AnswerOnRecord
  <2> DEFINE m == evaluation[Mcp]
  <2> SUFFICES ASSUME AtHand(m) PROVE AnswerOnRecord
    BY DEF McpInv
  <2>1. m.step = "answered" /\ ~m.gone => InPlace(m.session, m.decision)
    BY RestsInPlace DEF AtHand
  <2> QED
    BY <2>1 DEF AtHand, AnswerOnRecord, Spent
<1> QED
  BY <1>1, <1>2, <1>3, DataInvariant, PTL DEF Spec
-----------------------------------------------------------------------------
(* Numbers in order *)

\* The place of a number among those of a set.
PlaceIn(S, p) == Cardinality({k \in S : k < p}) + 1

\* Ascending lists a finite set of numbers, each at its place.
LEMMA AscendingIs ==
  ASSUME NEW S, IsFiniteSet(S), S \subseteq Nat
  PROVE  /\ Cardinality(S) \in Nat /\ DOMAIN Ascending(S) = 1 .. Cardinality(S)
         /\ \A j \in 1 .. Cardinality(S) : /\ Ascending(S)[j] \in S
                                           /\ PlaceIn(S, Ascending(S)[j]) = j
         /\ \A p \in S : /\ PlaceIn(S, p) \in 1 .. Cardinality(S)
                         /\ Ascending(S)[PlaceIn(S, p)] = p
<1> DEFINE n == Cardinality(S)
           q == Ascending(S)
           R == {p \in S \X S : p[1] < p[2]}
           rank == Rank(R, S)
           below(e) == {k \in S : k < e}
<1>1. n \in Nat
  BY FS_CardinalityType
<1>2. \A d, e \in S : <<d, e>> \in R <=> d < e
  OBVIOUS
<1>3. TotallyOrders(R, S)
  <2> HIDE DEF R
  <2> QED
    BY <1>2 DEF TotallyOrders
<1>4. \A e \in S : SetLessThan(e, R, S) = below(e)
  <2> HIDE DEF R
  <2> QED
    BY <1>2 DEF SetLessThan
<1>5. /\ \A e \in S : rank[e] = Cardinality(below(e))
      /\ rank \in [S -> 0 .. n - 1]
      /\ \A d, e \in S : rank[d] = rank[e] => d = e
      /\ \A i \in 1 .. n : \E e \in S : rank[e] = i - 1
  <2>1. /\ rank \in [S -> 0 .. n - 1]
        /\ \A d, e \in S : rank[d] = rank[e] => d = e
        /\ \A i \in 1 .. n : \E e \in S : rank[e] = i - 1
    <3>1. rank = Rank(R, S)
      OBVIOUS
    <3> HIDE DEF R, rank, below, n, q
    <3>2. rank \in [S -> 0 .. Cardinality(S) - 1]
      BY <1>3, <3>1, Ranks
    <3>3. \A d, e \in S : rank[d] = rank[e] => d = e
      BY <1>3, <3>1, Ranks
    <3>4. \A i \in 1 .. Cardinality(S) : \E e \in S : rank[e] = i - 1
      BY <1>3, <3>1, Ranks
    <3> QED
      BY <3>2, <3>3, <3>4 DEF n
  <2>2. \A e \in S : rank[e] = Cardinality(below(e))
    <3> HIDE DEF R
    <3>1. \A e \in S : rank[e] = Cardinality(SetLessThan(e, R, S))
      BY DEF Rank
    <3> QED
      BY <1>4, <3>1
  <2> QED
    BY <2>1, <2>2
<1>6. DOMAIN q = 1 .. n /\ \A j \in 1 .. n : q[j] = CHOOSE i \in S : Cardinality(below(i)) = j - 1
  BY DEF Ascending
<1>7. \A p \in S : PlaceIn(S, p) = Cardinality(below(p)) + 1
  BY DEF PlaceIn
<1> HIDE DEF R, rank, below, n, q
<1>8. \A p \in S : rank[p] \in Int /\ PlaceIn(S, p) = rank[p] + 1 /\ PlaceIn(S, p) \in 1 .. n
  BY <1>1, <1>5, <1>7
<1>9. \A j \in 1 .. n : q[j] \in S /\ PlaceIn(S, q[j]) = j
  <2> SUFFICES ASSUME NEW j \in 1 .. n PROVE q[j] \in S /\ PlaceIn(S, q[j]) = j
    OBVIOUS
  <2>1. PICK e \in S : Cardinality(below(e)) = j - 1
    BY <1>5
  <2>2. q[j] \in S /\ Cardinality(below(q[j])) = j - 1
    BY <1>6, <2>1
  <2>3. PlaceIn(S, q[j]) = j - 1 + 1
    BY <1>7, <2>2
  <2>4. j - 1 + 1 = j
    BY <1>1
  <2> QED
    BY <2>2, <2>3, <2>4
<1>10. \A p \in S : q[PlaceIn(S, p)] = p
  <2> SUFFICES ASSUME NEW p \in S PROVE q[PlaceIn(S, p)] = p
    OBVIOUS
  <2> DEFINE j == PlaceIn(S, p)
             e == q[j]
  <2>1. j \in 1 .. n /\ j = rank[p] + 1 /\ rank[p] \in Int
    BY <1>8
  <2>2. e \in S /\ PlaceIn(S, e) = j
    BY <1>9, <2>1
  <2> HIDE DEF e, j
  <2>3. j = rank[e] + 1 /\ rank[e] \in Int
    BY <1>8, <2>2
  <2>4. rank[e] = rank[p]
    BY <2>1, <2>3
  <2>5. e = p
    BY <1>5, <2>2, <2>4
  <2> QED
    BY <2>5 DEF e, j
<1> QED
  BY <1>1, <1>6, <1>8, <1>9, <1>10 DEF n, q

\* A number above all others comes last.
Below(S, m) == IsFiniteSet(S) /\ S \subseteq Nat /\ m \in Nat /\ \A k \in S : k < m

LEMMA AscendingGrows ==
  ASSUME NEW S, NEW m, Below(S, m), NEW T, T = S \cup {m}
  PROVE  /\ IsFiniteSet(T) /\ T \subseteq Nat
         /\ Cardinality(S) \in Nat /\ Cardinality(T) = Cardinality(S) + 1
         /\ \A j \in 1 .. Cardinality(S) : Ascending(T)[j] = Ascending(S)[j]
         /\ Ascending(T)[Cardinality(S) + 1] = m
<1>0. IsFiniteSet(S) /\ S \subseteq Nat /\ m \in Nat /\ \A k \in S : k < m
  BY DEF Below
<1>1. IsFiniteSet(T) /\ T \subseteq Nat
  BY <1>0, FS_AddElement
<1>2. Cardinality(T) = Cardinality(S) + 1 /\ Cardinality(S) \in Nat
  <2>1. m \notin S
    BY <1>0
  <2> QED
    BY <1>0, <2>1, FS_AddElement, FS_CardinalityType
<1>3. /\ \A j \in 1 .. Cardinality(S) : Ascending(S)[j] \in S /\ PlaceIn(S, Ascending(S)[j]) = j
      /\ \A p \in T : Ascending(T)[PlaceIn(T, p)] = p
  BY <1>0, <1>1, AscendingIs
<1>4. PlaceIn(T, m) = Cardinality(S) + 1
  <2>1. m \in T /\ S \subseteq T /\ \A k \in T : k \in S \/ k = m
    OBVIOUS
  <2>2. \A k \in S : k < m
    BY <1>0
  <2>3. ~(m < m)
    BY <1>0
  <2>4. {k \in T : k < m} = S
    BY <2>1, <2>2, <2>3, Zenon
  <2> QED
    BY <2>4 DEF PlaceIn
<1>5. ASSUME NEW p \in S PROVE PlaceIn(T, p) = PlaceIn(S, p)
  <2>1. p < m /\ p \in Nat /\ m \in Nat
    BY <1>0
  <2>2. ~(m < p)
    BY <2>1
  <2>3. {k \in T : k < p} = {k \in S : k < p}
    BY <2>2
  <2> QED
    BY <2>3 DEF PlaceIn
<1>6. ASSUME NEW j \in 1 .. Cardinality(S) PROVE Ascending(T)[j] = Ascending(S)[j]
  BY <1>3, <1>5
<1>7. Ascending(T)[Cardinality(S) + 1] = m
  BY <1>3, <1>4
<1> QED
  BY <1>1, <1>2, <1>6, <1>7

\* The texts at no place, and with one more place.
LEMMA NoTexts ==
  ASSUME NEW f
  PROVE  Texts(f, {}) = <<>>
<1>1. Cardinality({}) = 0
  BY FS_EmptySet
<1> QED
  BY <1>1 DEF Texts

\* Texts has what stands at each place, in order.
IsTexts(t, f, S) == /\ IsSequence(t) /\ Len(t) = Cardinality(S)
                    /\ \A j \in 1 .. Cardinality(S) : t[j] = f[Ascending(S)[j]].text

LEMMA TextsAt ==
  ASSUME NEW f, NEW S, IsFiniteSet(S), S \subseteq Nat
  PROVE  IsTexts(Texts(f, S), f, S)
<1> DEFINE n == Cardinality(S)
           t == Texts(f, S)
<1>1. n \in Nat
  BY FS_CardinalityType
<1>2. t = [j \in 1 .. n |-> Picked(f, S)[j].text]
  BY DEF Texts
<1>3. \A j \in 1 .. n : Picked(f, S)[j] = f[Ascending(S)[j]]
  BY DEF Picked
<1> HIDE DEF n, t
<1>4. t = [j \in 1 .. n |-> t[j]]
  BY <1>2
<1>5. IsSequence(t) /\ Len(t) = n
  BY <1>1, <1>4, SequenceMade
<1>6. \A j \in 1 .. n : t[j] = f[Ascending(S)[j]].text
  BY <1>2, <1>3
<1> QED
  BY <1>5, <1>6 DEF n, t, IsTexts

\* A sequence over any set; and two of the same length with the same elements.
LEMMA SequenceTyped ==
  ASSUME NEW U, NEW t \in Seq(U)
  PROVE  IsSequence(t)
<1>1. t = [i \in 1 .. Len(t) |-> t[i]] /\ Len(t) \in Nat
  OBVIOUS
<1> QED
  BY <1>1, SequenceMade

\* Sequences are the same when they are as long and agree everywhere.
LEMMA SameSequence ==
  ASSUME NEW s, IsSequence(s), NEW t, IsSequence(t), Len(s) = Len(t),
         \A i \in 1 .. Len(s) : s[i] = t[i]
  PROVE  s = t
<1>1. s = [i \in 1 .. Len(s) |-> s[i]] /\ t = [i \in 1 .. Len(t) |-> t[i]]
  BY SequenceIs
<1> QED
  BY <1>1

\* What Append makes of a sequence.
LEMMA SequenceGrows ==
  ASSUME NEW s, IsSequence(s), NEW x
  PROVE  /\ IsSequence(Append(s, x)) /\ Len(s) \in Nat /\ Len(Append(s, x)) = Len(s) + 1
         /\ \A i \in 1 .. Len(s) : Append(s, x)[i] = s[i]
         /\ Append(s, x)[Len(s) + 1] = x
<1> DEFINE U == ToSet(s) \cup {x}
<1>1. s \in Seq(U)
  <2> DEFINE A == ToSet(s)
  <2>1. s \in Seq(A) /\ A \subseteq U
    BY DEF IsSequence
  <2> HIDE DEF A, U
  <2>2. s \in [1 .. Len(s) -> U] /\ Len(s) \in Nat
    BY <2>1
  <2> QED
    BY <2>2
<1>2. x \in U
  OBVIOUS
<1> HIDE DEF U
<1>3. /\ Append(s, x) \in Seq(U) /\ Len(s) \in Nat /\ Len(Append(s, x)) = Len(s) + 1
      /\ \A i \in 1 .. Len(s) : Append(s, x)[i] = s[i]
      /\ Append(s, x)[Len(s) + 1] = x
  BY <1>1, <1>2
<1>4. IsSequence(Append(s, x))
  BY <1>3, SequenceTyped
<1> QED
  BY <1>3, <1>4

\* Appending to the second of two sequences joined; joining with nothing.
LEMMA AppendJoined ==
  ASSUME NEW s, IsSequence(s), NEW t, IsSequence(t), NEW x
  PROVE  s \o Append(t, x) = Append(s \o t, x)
<1> DEFINE u == Append(t, x)
           a == s \o u
           b == s \o t
           c == Append(b, x)
<1>1. /\ Len(s) \in Nat /\ Len(t) \in Nat /\ IsSequence(u) /\ Len(u) = Len(t) + 1
      /\ \A k \in 1 .. Len(t) : u[k] = t[k]
      /\ u[Len(t) + 1] = x
  BY SequenceIs, SequenceGrows
<1>2. IsSequence(b) /\ Len(b) = Len(s) + Len(t)
  BY SequencesJoined
<1>3. \A k \in 1 .. Len(s) + Len(t) : b[k] = IF k <= Len(s) THEN s[k] ELSE t[k - Len(s)]
  BY JoinedAt
<1> HIDE DEF u, b
<1>4. IsSequence(a) /\ Len(a) = Len(s) + Len(t) + 1
  BY <1>1, SequencesJoined
<1>5. \A k \in 1 .. Len(s) + Len(u) : a[k] = IF k <= Len(s) THEN s[k] ELSE u[k - Len(s)]
  BY <1>1, JoinedAt
<1>6. /\ IsSequence(c) /\ Len(c) = Len(b) + 1 /\ \A k \in 1 .. Len(b) : c[k] = b[k]
      /\ c[Len(b) + 1] = x
  BY <1>2, SequenceGrows
<1> HIDE DEF a, c
<1>7. ASSUME NEW k \in 1 .. Len(a) PROVE a[k] = c[k]
  <2>1. CASE k <= Len(s)
    BY <1>1, <1>2, <1>3, <1>4, <1>5, <1>6, <2>1
  <2>2. CASE k > Len(s) /\ k <= Len(s) + Len(t)
    <3>1. k - Len(s) \in 1 .. Len(t) /\ k \in 1 .. Len(s) + Len(t) /\ k \in 1 .. Len(s) + Len(u)
      BY <1>1, <1>4, <2>2
    <3> QED
      BY <1>1, <1>2, <1>3, <1>5, <1>6, <2>2, <3>1
  <2>3. CASE k = Len(s) + Len(t) + 1
    <3>1. k - Len(s) = Len(t) + 1 /\ k \in 1 .. Len(s) + Len(u) /\ ~(k <= Len(s))
      BY <1>1, <2>3
    <3> QED
      BY <1>1, <1>2, <1>5, <1>6, <2>3, <3>1
  <2> QED
    BY <1>1, <1>4, <2>1, <2>2, <2>3
<1>8. a = c
  BY <1>2, <1>4, <1>6, <1>7, SameSequence
<1> QED
  BY <1>8 DEF a, u, b, c

LEMMA NothingJoined ==
  ASSUME NEW s, IsSequence(s)
  PROVE  s \o <<>> = s /\ <<>> \o s = s
<1> DEFINE A == ToSet(s)
<1>1. s \in Seq(A)
  BY DEF IsSequence
<1> HIDE DEF A
<1> QED
  BY <1>1

\* Texts looks at its places only;
Agree(f, g, S) == \A k \in S : g[k] = f[k]

LEMMA SameTexts ==
  ASSUME NEW f, NEW g, NEW S, NEW m, Below(S, m), Agree(f, g, S)
  PROVE  Texts(g, S) = Texts(f, S)
<1>1. \A j \in 1 .. Cardinality(S) : Ascending(S)[j] \in S
  BY AscendingIs DEF Below
<1>2. \A j \in 1 .. Cardinality(S) : g[Ascending(S)[j]] = f[Ascending(S)[j]]
  BY <1>1 DEF Agree
<1>3. Picked(g, S) = Picked(f, S)
  BY <1>2 DEF Picked
<1> QED
  BY <1>3 DEF Texts

\* a later place adds its text.
LEMMA TextsGrow ==
  ASSUME NEW f, NEW g, NEW S, NEW m, Below(S, m), Agree(f, g, S)
  PROVE  Texts(g, S \cup {m}) = Append(Texts(f, S), g[m].text)
<1>1. \E T : /\ T = S \cup {m} /\ IsFiniteSet(T) /\ T \subseteq Nat /\ Cardinality(S) \in Nat
             /\ Cardinality(T) = Cardinality(S) + 1
             /\ \A j \in 1 .. Cardinality(S) : Ascending(T)[j] = Ascending(S)[j]
             /\ Ascending(T)[Cardinality(S) + 1] = m
  BY AscendingGrows
<1>2. \A j \in 1 .. Cardinality(S) : Ascending(S)[j] \in S
  BY AscendingIs DEF Below
<1>3. IsTexts(Texts(f, S), f, S)
  BY TextsAt DEF Below
<1>4. PICK T : /\ T = S \cup {m} /\ Cardinality(S) \in Nat
               /\ Cardinality(T) = Cardinality(S) + 1
               /\ \A j \in 1 .. Cardinality(S) : Ascending(T)[j] = Ascending(S)[j]
               /\ Ascending(T)[Cardinality(S) + 1] = m
               /\ IsTexts(Texts(g, T), g, T)
  BY <1>1, TextsAt
<1> DEFINE t == Texts(f, S)
           u == Texts(g, T)
           v == Append(t, g[m].text)
           n == Cardinality(S)
<1>5. /\ IsSequence(v) /\ Len(v) = Len(t) + 1
      /\ \A i \in 1 .. Len(t) : v[i] = t[i]
      /\ v[Len(t) + 1] = g[m].text
  <2>1. IsSequence(t)
    BY <1>3 DEF IsTexts
  <2> HIDE DEF t, u, n
  <2> QED
    BY <2>1, SequenceGrows
<1>6. /\ n \in Nat /\ Len(t) = n /\ Len(u) = n + 1 /\ IsSequence(u)
      /\ \A j \in 1 .. n : Ascending(T)[j] = Ascending(S)[j] /\ Ascending(S)[j] \in S
      /\ Ascending(T)[n + 1] = m
      /\ \A j \in 1 .. n : t[j] = f[Ascending(S)[j]].text
      /\ \A j \in 1 .. n + 1 : u[j] = g[Ascending(T)[j]].text
  BY <1>2, <1>3, <1>4 DEF IsTexts
<1> HIDE DEF t, u, n, v
<1>7. ASSUME NEW i \in 1 .. n + 1 PROVE u[i] = v[i]
  <2>1. CASE i = n + 1
    BY <1>5, <1>6, <2>1
  <2>2. CASE i # n + 1
    <3>1. i \in 1 .. n
      BY <1>6, <2>2
    <3>2. Ascending(T)[i] = Ascending(S)[i] /\ Ascending(S)[i] \in S
      BY <1>6, <3>1
    <3>3. u[i] = g[Ascending(S)[i]].text
      BY <1>6, <3>2
    <3>4. v[i] = f[Ascending(S)[i]].text
      BY <1>5, <1>6, <3>1
    <3> QED
      BY <3>2, <3>3, <3>4 DEF Agree
  <2> QED
    BY <2>1, <2>2
<1>8. u = v
  BY <1>5, <1>6, <1>7, SameSequence
<1> QED
  BY <1>4, <1>8 DEF u, v, t
-----------------------------------------------------------------------------
(* What the assemblers put together *)

\* What the fragments say so far of a tool, or of a block since its last start.
Tool(f, i) == [kind |-> "tool", text |-> <<>>, input |-> Texts(f, About(f, {"tool"}, i))]
StartOf(f, i) == Max({0} \cup About(f, {"start"}, i))
Since(f, type, i) == {k \in About(f, {type}, i) : k > StartOf(f, i)}
Carried(f, i) == IF StartOf(f, i) = 0 THEN Blank ELSE f[StartOf(f, i)].given
Block(f, i) == [kind |-> IF StartOf(f, i) = 0 THEN "text" ELSE f[StartOf(f, i)].text,
                text |-> Carried(f, i).text \o Texts(f, Since(f, "text", i)),
                input |-> Carried(f, i).input \o Texts(f, Since(f, "tool", i))]

\* The tools or blocks that fragments are about.
Indexes(f, types) == {f[k].at : k \in Places(f, types)}

\* What is reported of the usage so far.
UsageOf(protocol, f) == AnswerUsage([protocol |-> protocol, fragments |-> f])

\* The parts an assembler has by then, and the whole of it.
ToolParts(f) == [i \in Indexes(f, {"tool"}) |-> Tool(f, i)]
BlockParts(f) == [i \in Indexes(f, {"start", "text", "tool"}) |-> Block(f, i)]

OpenAIAssembly(f) == [text |-> Texts(f, Places(f, {"text"})), parts |-> ToolParts(f),
                      usage |-> UsageOf("openai", f)]

AnthropicAssembly(f) == [text |-> <<>>, parts |-> BlockParts(f), usage |-> UsageOf("anthropic", f)]

AssemblyOf(protocol, f) ==
  IF protocol = "anthropic" THEN AnthropicAssembly(f) ELSE OpenAIAssembly(f)

\* What fragments carry are sequences.
Sequenced(f) == \A k \in DOMAIN f : IsSequence(f[k].given.text) /\ IsSequence(f[k].given.input)

\* g is f and one more fragment.
Extends(g, f, m) == /\ m \in Nat \ {0} /\ DOMAIN f = 1 .. m - 1 /\ DOMAIN g = 1 .. m
                    /\ \A k \in DOMAIN f : g[k] = f[k]

\* f has finitely many places.
LEMMA PlacesFinite ==
  ASSUME NEW f, NEW n \in Nat, DOMAIN f = 1 .. n, NEW types
  PROVE  /\ Places(f, types) \subseteq 1 .. n /\ IsFiniteSet(Places(f, types))
         /\ \A i : About(f, types, i) \subseteq 1 .. n /\ IsFiniteSet(About(f, types, i))
<1>1. IsFiniteSet(1 .. n)
  BY FS_Interval
<1>2. Places(f, types) \subseteq 1 .. n
  BY DEF Places
<1>3. \A i : About(f, types, i) \subseteq 1 .. n
  BY <1>2 DEF About
<1> QED
  BY <1>1, <1>2, <1>3, FS_Subset

\* Another fragment is at its place, about its tool or block, and nothing else changes.
LEMMA PlacesGrow ==
  ASSUME NEW f, NEW g, NEW m, Extends(g, f, m), NEW types
  PROVE  /\ g[m].type \in types => Places(g, types) = Places(f, types) \cup {m}
         /\ g[m].type \notin types => Places(g, types) = Places(f, types)
<1>1. DOMAIN g = DOMAIN f \cup {m} /\ \A k \in DOMAIN f : g[k] = f[k]
  BY DEF Extends
<1>2. Places(g, types) = Places(f, types) \cup {k \in {m} : g[k].type \in types}
  BY <1>1 DEF Places
<1> QED
  BY <1>2

LEMMA AboutGrows ==
  ASSUME NEW f, NEW g, NEW m, Extends(g, f, m), NEW types, NEW i
  PROVE  /\ g[m].type \in types /\ g[m].at = i =>
              About(g, types, i) = About(f, types, i) \cup {m}
         /\ ~(g[m].type \in types /\ g[m].at = i) => About(g, types, i) = About(f, types, i)
<1>1. \A k \in Places(f, types) : g[k] = f[k]
  BY DEF Extends, Places
<1>2. CASE g[m].type \in types
  <2>1. Places(g, types) = Places(f, types) \cup {m}
    BY <1>2, PlacesGrow
  <2> QED
    BY <1>1, <1>2, <2>1 DEF About
<1>3. CASE g[m].type \notin types
  <2>1. Places(g, types) = Places(f, types)
    BY <1>3, PlacesGrow
  <2> QED
    BY <1>1, <1>3, <2>1 DEF About
<1> QED
  BY <1>2, <1>3

\* Places before the new one keep their texts; the new one adds its own.
Earlier(S, m) == S \subseteq 1 .. m - 1

LEMMA TextsOfPlaces ==
  ASSUME NEW f, NEW g, NEW m, Extends(g, f, m), NEW S, Earlier(S, m)
  PROVE  /\ Texts(g, S) = Texts(f, S) /\ IsSequence(Texts(f, S))
         /\ Texts(g, S \cup {m}) = Append(Texts(f, S), g[m].text)
<1>1. m \in Nat /\ S \subseteq Nat /\ \A k \in S : k < m
  <2>1. m \in Nat /\ S \subseteq 1 .. m - 1
    BY DEF Extends, Earlier
  <2>2. \A k \in 1 .. m - 1 : k \in Nat /\ k < m
    BY <2>1
  <2> QED
    BY <2>1, <2>2
<1>2. Agree(f, g, S)
  BY DEF Extends, Earlier, Agree
<1>3. IsFiniteSet(S)
  <2>1. IsFiniteSet(1 .. m - 1)
    BY <1>1, FS_Interval
  <2> QED
    BY <2>1, FS_Subset DEF Earlier
<1>4. Below(S, m)
  BY <1>1, <1>3 DEF Below
<1> QED
  BY <1>1, <1>2, <1>3, <1>4, SameTexts, TextsGrow, TextsAt DEF IsTexts

\* A new fragment may name a new tool or block.
LEMMA IndexesGrow ==
  ASSUME NEW f, NEW g, NEW m, Extends(g, f, m), NEW types
  PROVE  /\ g[m].type \in types => Indexes(g, types) = Indexes(f, types) \cup {g[m].at}
         /\ g[m].type \notin types => Indexes(g, types) = Indexes(f, types)
<1>1. \A k \in Places(f, types) : g[k] = f[k]
  BY DEF Extends, Places
<1>2. CASE g[m].type \in types
  <2>1. Places(g, types) = Places(f, types) \cup {m}
    BY <1>2, PlacesGrow
  <2> QED
    BY <1>1, <1>2, <2>1 DEF Indexes
<1>3. CASE g[m].type \notin types
  <2>1. Places(g, types) = Places(f, types)
    BY <1>3, PlacesGrow
  <2> QED
    BY <1>1, <1>3, <2>1 DEF Indexes
<1> QED
  BY <1>2, <1>3

\* A part with another input.
LEMMA PartWithInput ==
  ASSUME NEW a, NEW b, NEW c, NEW y
  PROVE  LET p == [kind |-> a, text |-> b, input |-> c]
         IN  p.input = c /\ [p EXCEPT !.input = y] = [kind |-> a, text |-> b, input |-> y]
OBVIOUS

\* A tool's input grows with its fragments; of a tool that is not there yet
\* there is none.
LEMMA ToolGrows ==
  ASSUME NEW f, NEW g, NEW m, Extends(g, f, m), NEW i
  PROVE  /\ g[m].type = "tool" /\ g[m].at = i =>
              Tool(g, i) = [Tool(f, i) EXCEPT !.input = Append(@, g[m].text)]
         /\ ~(g[m].type = "tool" /\ g[m].at = i) => Tool(g, i) = Tool(f, i)
         /\ i \notin Indexes(f, {"tool"}) => Tool(f, i) = Part("tool", Blank)
<1>1. m - 1 \in Nat /\ DOMAIN f = 1 .. m - 1
  BY DEF Extends
<1>2. Earlier(About(f, {"tool"}, i), m)
  BY <1>1 DEF About, Places, Earlier
<1>3. /\ Texts(g, About(f, {"tool"}, i)) = Texts(f, About(f, {"tool"}, i))
      /\ Texts(g, About(f, {"tool"}, i) \cup {m})
           = Append(Texts(f, About(f, {"tool"}, i)), g[m].text)
  BY <1>2, TextsOfPlaces
<1>4. /\ g[m].type = "tool" /\ g[m].at = i =>
           About(g, {"tool"}, i) = About(f, {"tool"}, i) \cup {m}
      /\ ~(g[m].type = "tool" /\ g[m].at = i) => About(g, {"tool"}, i) = About(f, {"tool"}, i)
  BY AboutGrows
<1>5. i \notin Indexes(f, {"tool"}) => Texts(f, About(f, {"tool"}, i)) = <<>>
  <2>1. i \notin Indexes(f, {"tool"}) => About(f, {"tool"}, i) = {}
    BY DEF Indexes, About
  <2> QED
    BY <2>1, NoTexts
<1>6. ASSUME g[m].type = "tool", g[m].at = i
      PROVE  Tool(g, i) = [Tool(f, i) EXCEPT !.input = Append(@, g[m].text)]
  <2>1. Texts(g, About(g, {"tool"}, i)) = Append(Texts(f, About(f, {"tool"}, i)), g[m].text)
    BY <1>3, <1>4, <1>6
  <2> QED
    <3>1. [Tool(f, i) EXCEPT !.input = Append(@, g[m].text)]
            = [kind |-> "tool", text |-> <<>>,
               input |-> Append(Texts(f, About(f, {"tool"}, i)), g[m].text)]
      BY PartWithInput DEF Tool
    <3>2. Tool(g, i) = [kind |-> "tool", text |-> <<>>,
                        input |-> Append(Texts(f, About(f, {"tool"}, i)), g[m].text)]
      BY <2>1 DEF Tool
    <3> QED
      BY <3>1, <3>2
<1>7. ASSUME ~(g[m].type = "tool" /\ g[m].at = i) PROVE Tool(g, i) = Tool(f, i)
  <2>1. About(g, {"tool"}, i) = About(f, {"tool"}, i)
    BY <1>4, <1>7
  <2> QED
    BY <1>3, <2>1 DEF Tool
<1>8. i \notin Indexes(f, {"tool"}) => Tool(f, i) = Part("tool", Blank)
  BY <1>5 DEF Tool, Part, Blank
<1> QED
  BY <1>6, <1>7, <1>8

\* Where a block starts, and what came since.
LEMMA StartOfIs ==
  ASSUME NEW f, NEW n \in Nat, DOMAIN f = 1 .. n, NEW i
  PROVE  /\ StartOf(f, i) \in 0 .. n
         /\ StartOf(f, i) = 0 \/ StartOf(f, i) \in About(f, {"start"}, i)
         /\ \A k \in About(f, {"start"}, i) : k <= StartOf(f, i)
<1> DEFINE T == {0} \cup About(f, {"start"}, i)
<1>1. T \subseteq 0 .. n /\ T # {}
  BY DEF About, Places
<1>2. StartOf(f, i) = Max(T)
  BY DEF StartOf
<1>3. \A k \in About(f, {"start"}, i) : k \in T
  OBVIOUS
<1>4. \A k \in T : k = 0 \/ k \in About(f, {"start"}, i)
  OBVIOUS
<1> HIDE DEF T
<1>5. Max(T) \in T /\ \A k \in T : k <= Max(T)
  BY <1>1, MaxIs
<1> QED
  BY <1>1, <1>2, <1>3, <1>4, <1>5

\* A block starts anew at an announcement, and goes on with anything else.
LEMMA StartGrows ==
  ASSUME NEW f, NEW g, NEW m, Extends(g, f, m), NEW i
  PROVE  /\ g[m].type = "start" /\ g[m].at = i => StartOf(g, i) = m
         /\ ~(g[m].type = "start" /\ g[m].at = i) => StartOf(g, i) = StartOf(f, i)
<1>1. m \in Nat /\ DOMAIN g = 1 .. m
  BY DEF Extends
<1>2. CASE g[m].type = "start" /\ g[m].at = i
  <2>1. m \in About(g, {"start"}, i)
    BY <1>2, AboutGrows
  <2>2. /\ StartOf(g, i) \in 0 .. m
        /\ \A k \in About(g, {"start"}, i) : k <= StartOf(g, i)
    BY <1>1, StartOfIs
  <2> QED
    BY <1>1, <1>2, <2>1, <2>2
<1>3. CASE ~(g[m].type = "start" /\ g[m].at = i)
  BY <1>3, AboutGrows DEF StartOf
<1> QED
  BY <1>2, <1>3

LEMMA SinceGrows ==
  ASSUME NEW f, NEW g, NEW m, Extends(g, f, m), NEW type \in {"text", "tool"}, NEW i
  PROVE  /\ Earlier(Since(f, type, i), m)
         /\ g[m].type = "start" /\ g[m].at = i => Since(g, type, i) = {}
         /\ g[m].type = type /\ g[m].at = i => Since(g, type, i) = Since(f, type, i) \cup {m}
         /\ ~(g[m].type \in {"start", type} /\ g[m].at = i) =>
              Since(g, type, i) = Since(f, type, i)
<1>1. /\ m \in Nat /\ m - 1 \in Nat /\ DOMAIN f = 1 .. m - 1 /\ DOMAIN g = 1 .. m
      /\ About(f, {type}, i) \subseteq 1 .. m - 1 /\ About(g, {type}, i) \subseteq 1 .. m
  BY DEF Extends, About, Places
<1>2. StartOf(f, i) \in 0 .. m - 1
  BY <1>1, StartOfIs
<1>3. /\ g[m].type = type /\ g[m].at = i =>
           About(g, {type}, i) = About(f, {type}, i) \cup {m}
      /\ ~(g[m].type = type /\ g[m].at = i) => About(g, {type}, i) = About(f, {type}, i)
  BY AboutGrows
<1>4. /\ g[m].type = "start" /\ g[m].at = i => StartOf(g, i) = m
      /\ ~(g[m].type = "start" /\ g[m].at = i) => StartOf(g, i) = StartOf(f, i)
  BY StartGrows
<1>5. Earlier(Since(f, type, i), m)
  BY <1>1 DEF Earlier, Since
<1>6. ASSUME g[m].type = "start", g[m].at = i PROVE Since(g, type, i) = {}
  <2>1. StartOf(g, i) = m
    BY <1>4, <1>6
  <2>2. ASSUME NEW k \in About(g, {type}, i) PROVE ~(k > m)
    <3>1. k \in 1 .. m /\ m \in Nat
      BY <1>1
    <3> QED
      BY <3>1
  <2> QED
    BY <2>1, <2>2 DEF Since
<1>7. ASSUME g[m].type = type, g[m].at = i
      PROVE  Since(g, type, i) = Since(f, type, i) \cup {m}
  <2>1. StartOf(g, i) = StartOf(f, i)
    BY <1>4, <1>7
  <2>2. About(g, {type}, i) = About(f, {type}, i) \cup {m}
    BY <1>3, <1>7
  <2>3. m > StartOf(f, i)
    BY <1>1, <1>2
  <2> QED
    BY <2>1, <2>2, <2>3 DEF Since
<1>8. ASSUME ~(g[m].type \in {"start", type} /\ g[m].at = i)
      PROVE  Since(g, type, i) = Since(f, type, i)
  <2>1. StartOf(g, i) = StartOf(f, i)
    BY <1>4, <1>8
  <2>2. About(g, {type}, i) = About(f, {type}, i)
    BY <1>3, <1>8
  <2> QED
    BY <2>1, <2>2 DEF Since
<1> QED
  BY <1>5, <1>6, <1>7, <1>8

\* A block starts anew, or grows by a fragment; one that is not there yet is an
\* empty text.
LEMMA BlockGrows ==
  ASSUME NEW f, NEW g, NEW m, Extends(g, f, m), Sequenced(g), NEW i
  PROVE  /\ g[m].type = "start" /\ g[m].at = i => Block(g, i) = Part(g[m].text, g[m].given)
         /\ g[m].type = "text" /\ g[m].at = i =>
              Block(g, i) = [Block(f, i) EXCEPT !.text = Append(@, g[m].text)]
         /\ g[m].type = "tool" /\ g[m].at = i =>
              Block(g, i) = [Block(f, i) EXCEPT !.input = Append(@, g[m].text)]
         /\ ~(g[m].type \in {"start", "text", "tool"} /\ g[m].at = i) => Block(g, i) = Block(f, i)
         /\ i \notin Indexes(f, {"start", "text", "tool"}) => Block(f, i) = Part("text", Blank)
<1> DEFINE texts(x) == Since(x, "text", i)
           inputs(x) == Since(x, "tool", i)
           given(x) == Carried(x, i)
           kind(x) == IF StartOf(x, i) = 0 THEN "text" ELSE x[StartOf(x, i)].text
<1>1. /\ Texts(g, texts(f)) = Texts(f, texts(f)) /\ IsSequence(Texts(f, texts(f)))
      /\ Texts(g, texts(f) \cup {m}) = Append(Texts(f, texts(f)), g[m].text)
  <2>1. Earlier(texts(f), m)
    BY SinceGrows
  <2> QED
    BY <2>1, TextsOfPlaces
<1>2. /\ Texts(g, inputs(f)) = Texts(f, inputs(f)) /\ IsSequence(Texts(f, inputs(f)))
      /\ Texts(g, inputs(f) \cup {m}) = Append(Texts(f, inputs(f)), g[m].text)
  <2>1. Earlier(inputs(f), m)
    BY SinceGrows
  <2> QED
    BY <2>1, TextsOfPlaces
<1>3. \A x : Block(x, i) = [kind |-> kind(x), text |-> given(x).text \o Texts(x, texts(x)),
                            input |-> given(x).input \o Texts(x, inputs(x))]
  BY DEF Block
<1>4. /\ m \in Nat \ {0} /\ m - 1 \in Nat /\ DOMAIN f = 1 .. m - 1
      /\ \A k \in DOMAIN f : g[k] = f[k]
  BY DEF Extends
<1>5. /\ StartOf(f, i) \in 0 .. m - 1
      /\ StartOf(f, i) = 0 \/ StartOf(f, i) \in About(f, {"start"}, i)
  BY <1>4, StartOfIs
<1>6. ~(g[m].type = "start" /\ g[m].at = i) => kind(g) = kind(f) /\ given(g) = given(f)
  <2> SUFFICES ASSUME ~(g[m].type = "start" /\ g[m].at = i)
               PROVE  kind(g) = kind(f) /\ given(g) = given(f)
    OBVIOUS
  <2>1. StartOf(g, i) = StartOf(f, i)
    BY StartGrows
  <2>2. StartOf(f, i) # 0 => g[StartOf(f, i)] = f[StartOf(f, i)]
    BY <1>4, <1>5
  <2> QED
    BY <2>1, <2>2 DEF Carried
<1>12. IsSequence(given(f).text) /\ IsSequence(given(f).input)
  <2>1. CASE StartOf(f, i) = 0
    BY <2>1, EmptySequence DEF Carried, Blank
  <2>2. CASE StartOf(f, i) # 0
    <3>1. StartOf(f, i) \in DOMAIN f /\ StartOf(f, i) \in DOMAIN g
      BY <1>4, <1>5, <2>2 DEF Extends
    <3> QED
      BY <1>4, <2>2, <3>1 DEF Carried, Sequenced
  <2> QED
    BY <2>1, <2>2
<1>7. ASSUME g[m].type = "start", g[m].at = i PROVE Block(g, i) = Part(g[m].text, g[m].given)
  <2>1. StartOf(g, i) = m /\ m # 0
    BY <1>4, <1>7, StartGrows
  <2>2. Texts(g, texts(g)) = <<>> /\ Texts(g, inputs(g)) = <<>>
    <3>1. Since(g, "text", i) = {} /\ Since(g, "tool", i) = {}
      BY <1>7, SinceGrows
    <3> QED
      BY <3>1, NoTexts
  <2>3. kind(g) = g[m].text /\ given(g) = g[m].given
    BY <2>1 DEF Carried
  <2>4. IsSequence(g[m].given.text) /\ IsSequence(g[m].given.input)
    BY <1>4 DEF Extends, Sequenced
  <2>5. g[m].given.text \o <<>> = g[m].given.text /\ g[m].given.input \o <<>> = g[m].given.input
    BY <2>4, NothingJoined
  <2>6. Block(g, i) = [kind |-> kind(g), text |-> given(g).text \o Texts(g, texts(g)),
                       input |-> given(g).input \o Texts(g, inputs(g))]
    BY <1>3
  <2> HIDE DEF kind, given, texts, inputs
  <2>7. Block(g, i) = [kind |-> g[m].text, text |-> g[m].given.text, input |-> g[m].given.input]
    BY <2>2, <2>3, <2>5, <2>6
  <2> QED
    BY <2>7 DEF Part
<1>8. ASSUME g[m].type = "text", g[m].at = i
      PROVE  Block(g, i) = [Block(f, i) EXCEPT !.text = Append(@, g[m].text)]
  <2>1. kind(g) = kind(f) /\ given(g) = given(f)
    BY <1>6, <1>8
  <2>2. texts(g) = texts(f) \cup {m}
    BY <1>8, SinceGrows
  <2>3. inputs(g) = inputs(f)
    BY <1>8, SinceGrows
  <2> DEFINE a == kind(f)
             b == given(f).text \o Texts(f, texts(f))
             e == given(f).input \o Texts(f, inputs(f))
             y == Append(b, g[m].text)
  <2>4. given(f).text \o Append(Texts(f, texts(f)), g[m].text) = y
    <3> DEFINE s == given(f).text
               t == Texts(f, texts(f))
    <3>1. IsSequence(s) /\ IsSequence(t)
      BY <1>1, <1>12
    <3> HIDE DEF s, t
    <3>2. s \o Append(t, g[m].text) = Append(s \o t, g[m].text)
      BY <3>1, AppendJoined
    <3> QED
      BY <3>2 DEF s, t
  <2>5. Block(f, i) = [kind |-> a, text |-> b, input |-> e]
    BY <1>3
  <2>6. Block(g, i) = [kind |-> a, text |-> y, input |-> e]
    <3>1. Block(g, i) = [kind |-> kind(g), text |-> given(g).text \o Texts(g, texts(g)),
                         input |-> given(g).input \o Texts(g, inputs(g))]
      BY <1>3
    <3> HIDE DEF kind, given, texts, inputs
    <3> QED
      BY <1>1, <1>2, <2>1, <2>2, <2>3, <2>4, <3>1
  <2>7. Block(f, i).text = b
    BY <2>5
  <2> HIDE DEF a, b, e, y
  <2>8. [Block(f, i) EXCEPT !.text = y] = [kind |-> a, text |-> y, input |-> e]
    BY <2>5
  <2> QED
    BY <2>6, <2>7, <2>8 DEF y
<1>9. ASSUME g[m].type = "tool", g[m].at = i
      PROVE  Block(g, i) = [Block(f, i) EXCEPT !.input = Append(@, g[m].text)]
  <2>1. kind(g) = kind(f) /\ given(g) = given(f)
    BY <1>6, <1>9
  <2>2. inputs(g) = inputs(f) \cup {m}
    BY <1>9, SinceGrows
  <2>3. texts(g) = texts(f)
    BY <1>9, SinceGrows
  <2> DEFINE a == kind(f)
             b == given(f).text \o Texts(f, texts(f))
             e == given(f).input \o Texts(f, inputs(f))
             y == Append(e, g[m].text)
  <2>4. given(f).input \o Append(Texts(f, inputs(f)), g[m].text) = y
    <3> DEFINE s == given(f).input
               t == Texts(f, inputs(f))
    <3>1. IsSequence(s) /\ IsSequence(t)
      BY <1>2, <1>12
    <3> HIDE DEF s, t
    <3>2. s \o Append(t, g[m].text) = Append(s \o t, g[m].text)
      BY <3>1, AppendJoined
    <3> QED
      BY <3>2 DEF s, t
  <2>5. Block(f, i) = [kind |-> a, text |-> b, input |-> e]
    BY <1>3
  <2>6. Block(g, i) = [kind |-> a, text |-> b, input |-> y]
    <3>1. Block(g, i) = [kind |-> kind(g), text |-> given(g).text \o Texts(g, texts(g)),
                         input |-> given(g).input \o Texts(g, inputs(g))]
      BY <1>3
    <3> HIDE DEF kind, given, texts, inputs
    <3> QED
      BY <1>1, <1>2, <2>1, <2>2, <2>3, <2>4, <3>1
  <2>7. Block(f, i).input = e
    BY <2>5
  <2> HIDE DEF a, b, e, y
  <2>8. [Block(f, i) EXCEPT !.input = y] = [kind |-> a, text |-> b, input |-> y]
    BY <2>5
  <2> QED
    BY <2>6, <2>7, <2>8 DEF y
<1>10. ASSUME ~(g[m].type \in {"start", "text", "tool"} /\ g[m].at = i)
       PROVE  Block(g, i) = Block(f, i)
  <2>1. kind(g) = kind(f) /\ given(g) = given(f)
    BY <1>6, <1>10
  <2>2. inputs(g) = inputs(f) /\ texts(g) = texts(f)
    BY <1>10, SinceGrows
  <2>3. \A x \in {f, g} :
          Block(x, i) = [kind |-> kind(x), text |-> given(x).text \o Texts(x, texts(x)),
                         input |-> given(x).input \o Texts(x, inputs(x))]
    BY <1>3
  <2> HIDE DEF kind, given, texts, inputs
  <2> QED
    BY <1>1, <1>2, <2>1, <2>2, <2>3
<1>11. ASSUME i \notin Indexes(f, {"start", "text", "tool"}) PROVE Block(f, i) = Part("text", Blank)
  <2>1. \A type \in {"start", "text", "tool"} : About(f, {type}, i) = {}
    BY <1>11 DEF Indexes, About, Places
  <2>2. StartOf(f, i) = 0 /\ texts(f) = {} /\ inputs(f) = {}
    BY <1>5, <2>1 DEF Since
  <2>3. Texts(f, texts(f)) = <<>> /\ Texts(f, inputs(f)) = <<>>
    BY <2>2, NoTexts
  <2>4. kind(f) = "text" /\ given(f).text = <<>> /\ given(f).input = <<>>
    BY <2>2 DEF Carried, Blank
  <2>5. Block(f, i) = [kind |-> kind(f), text |-> given(f).text \o Texts(f, texts(f)),
                       input |-> given(f).input \o Texts(f, inputs(f))]
    BY <1>3
  <2> HIDE DEF kind, given, texts, inputs
  <2>6. Block(f, i) = [kind |-> "text", text |-> <<>>, input |-> <<>>]
    BY <2>3, <2>4, <2>5, EmptySequence, NothingJoined
  <2> QED
    BY <2>6 DEF Part, Blank
<1> QED
  BY <1>7, <1>8, <1>9, <1>10, <1>11

\* The usage of one more report.
LEMMA UsageGrows ==
  ASSUME NEW f, NEW g, NEW m, Extends(g, f, m), NEW protocol
  PROVE  /\ g[m].type # "usage" => UsageOf(protocol, g) = UsageOf(protocol, f)
         /\ g[m].type = "usage" =>
              UsageOf(protocol, g) =
                IF protocol = "anthropic" THEN AnthropicUsage(UsageOf(protocol, f), g[m].counts)
                ELSE OpenAIUsage(UsageOf(protocol, f), g[m].counts)
<1> DEFINE reports(x) == Places(x, {"usage"})
           naming(x, c) == {k \in reports(x) : c \in DOMAIN x[k].counts}
           named(x) == UNION {DOMAIN x[k].counts : k \in reports(x)}
           last(x, c) == x[Max(naming(x, c))].counts[c]
           known(x) == [c \in named(x) |-> last(x, c)]
           total(x) == x[Max(reports(x))].counts
           counts == g[m].counts
<1>1. \A x : UsageOf(protocol, x) =
               IF reports(x) = {} THEN Unavailable
               ELSE [precision |-> "exact",
                     counts |-> IF protocol = "anthropic" THEN known(x) ELSE total(x)]
  BY DEF UsageOf, AnswerUsage
<1>2. /\ m \in Nat /\ m - 1 \in Nat /\ reports(f) \subseteq 1 .. m - 1
      /\ \A k \in reports(f) : g[k] = f[k]
  BY DEF Extends, Places
<1>3. /\ g[m].type # "usage" => reports(g) = reports(f)
      /\ g[m].type = "usage" => reports(g) = reports(f) \cup {m}
  BY PlacesGrow
<1>4. ASSUME NEW T, T \subseteq 0 .. m - 1, T # {} PROVE Max(T) \in T
  BY <1>2, <1>4, MaxIs
<1>5. ASSUME NEW T, T \subseteq 0 .. m - 1 PROVE Max(T \cup {m}) = m
  <2> DEFINE U == T \cup {m}
  <2>1. U \subseteq 0 .. m /\ U # {} /\ m \in U /\ \A k \in U : k \in 0 .. m
    BY <1>2, <1>5
  <2> HIDE DEF U
  <2>2. Max(U) \in U /\ \A k \in U : k <= Max(U)
    BY <1>2, <2>1, MaxIs
  <2>3. Max(U) \in 0 .. m /\ m <= Max(U)
    BY <2>1, <2>2
  <2>4. Max(U) = m
    BY <1>2, <2>3
  <2> QED
    BY <2>4 DEF U
<1>6. \A c : /\ naming(f, c) \subseteq 0 .. m - 1
             /\ c \in named(f) <=> naming(f, c) # {}
  BY <1>2
<1>7. ASSUME g[m].type # "usage" PROVE UsageOf(protocol, g) = UsageOf(protocol, f)
  <2>1. reports(g) = reports(f)
    BY <1>3, <1>7
  <2>2. \A c : naming(g, c) = naming(f, c)
    BY <1>2, <2>1
  <2>3. named(g) = named(f)
    BY <1>2, <2>1
  <2>4. \A c \in named(f) : last(g, c) = last(f, c)
    <3> SUFFICES ASSUME NEW c \in named(f) PROVE last(g, c) = last(f, c)
      OBVIOUS
    <3>1. naming(f, c) # {} /\ naming(f, c) \subseteq 0 .. m - 1
      BY <1>6
    <3>2. Max(naming(f, c)) \in naming(f, c)
      <4> HIDE DEF naming
      <4> QED
        BY <1>4, <3>1
    <3>3. Max(naming(f, c)) \in reports(f)
      BY <3>2
    <3>4. g[Max(naming(f, c))] = f[Max(naming(f, c))]
      BY <1>2, <3>3
    <3> QED
      BY <2>2, <3>4
  <2>5. known(g) = known(f)
    <3> HIDE DEF named, last
    <3> QED
      BY <2>3, <2>4
  <2>6. reports(f) # {} => total(g) = total(f)
    <3>1. reports(f) # {} => Max(reports(f)) \in reports(f)
      <4>1. reports(f) \subseteq 0 .. m - 1
        BY <1>2
      <4> HIDE DEF reports
      <4> QED
        BY <1>4, <4>1
    <3> QED
      BY <1>2, <2>1, <3>1
  <2> HIDE DEF known, total, reports
  <2> QED
    BY <1>1, <2>1, <2>5, <2>6
<1>8. ASSUME g[m].type = "usage", protocol # "anthropic"
      PROVE  UsageOf(protocol, g) = OpenAIUsage(UsageOf(protocol, f), counts)
  <2>1. reports(g) = reports(f) \cup {m}
    BY <1>3, <1>8
  <2>2. Max(reports(g)) = m
    <3>1. reports(f) \subseteq 0 .. m - 1
      BY <1>2
    <3> HIDE DEF reports
    <3> QED
      BY <1>5, <2>1, <3>1
  <2>3. total(g) = counts /\ reports(g) # {}
    BY <2>1, <2>2
  <2> HIDE DEF known, total, reports, counts
  <2> QED
    BY <1>1, <1>8, <2>3 DEF OpenAIUsage
<1>9. ASSUME g[m].type = "usage"
      PROVE  known(g) = [c \in named(f) \cup DOMAIN counts |->
                           IF c \in DOMAIN counts THEN counts[c] ELSE known(f)[c]]
  <2>1. reports(g) = reports(f) \cup {m}
    BY <1>3, <1>9
  <2>2. named(g) = named(f) \cup DOMAIN counts
    BY <1>2, <2>1
  <2>3. ASSUME NEW c \in DOMAIN counts PROVE last(g, c) = counts[c]
    <3>1. naming(g, c) = naming(f, c) \cup {m}
      BY <1>2, <2>1, <2>3
    <3>2. Max(naming(g, c)) = m
      <4>1. naming(f, c) \subseteq 0 .. m - 1
        BY <1>6
      <4> HIDE DEF naming
      <4> QED
        BY <1>5, <3>1, <4>1
    <3> QED
      BY <3>2
  <2>4. ASSUME NEW c \in named(f), c \notin DOMAIN counts PROVE last(g, c) = known(f)[c]
    <3>1. naming(g, c) = naming(f, c)
      BY <1>2, <2>1, <2>4
    <3>2. naming(f, c) # {} /\ naming(f, c) \subseteq 0 .. m - 1
      BY <1>6
    <3>3. Max(naming(f, c)) \in naming(f, c)
      <4> HIDE DEF naming
      <4> QED
        BY <1>4, <3>2
    <3>4. Max(naming(f, c)) \in reports(f)
      BY <3>3
    <3>5. g[Max(naming(f, c))] = f[Max(naming(f, c))]
      BY <1>2, <3>4
    <3>6. last(g, c) = last(f, c)
      BY <3>1, <3>5
    <3> HIDE DEF last, named
    <3> QED
      BY <3>6
  <2> HIDE DEF last, named, counts
  <2> QED
    BY <2>2, <2>3, <2>4
<1>10. ASSUME g[m].type = "usage", protocol = "anthropic"
       PROVE  UsageOf(protocol, g) = AnthropicUsage(UsageOf(protocol, f), counts)
  <2>1. reports(g) # {}
    BY <1>3, <1>10
  <2>2. DOMAIN UsageOf(protocol, f).counts = named(f)
        /\ \A c \in named(f) : UsageOf(protocol, f).counts[c] = known(f)[c]
    <3>1. CASE reports(f) = {}
      <4>1. named(f) = {}
        BY <3>1
      <4>2. UsageOf(protocol, f).counts = <<>>
        <5> HIDE DEF known, reports, total
        <5>1. UsageOf(protocol, f) = Unavailable
          BY <1>1, <3>1
        <5> QED
          BY <5>1 DEF Unavailable
      <4> HIDE DEF named, known
      <4> QED
        BY <4>1, <4>2
    <3>2. CASE reports(f) # {}
      <4>1. UsageOf(protocol, f).counts = known(f)
        <5> HIDE DEF known, reports, total
        <5> QED
          BY <1>1, <1>10, <3>2
      <4>2. DOMAIN known(f) = named(f)
        <5> HIDE DEF named, last
        <5> QED
          OBVIOUS
      <4> HIDE DEF named, known
      <4> QED
        BY <4>1, <4>2
    <3> QED
      BY <3>1, <3>2
  <2> DEFINE usage == UsageOf(protocol, f)
  <2>3. UsageOf(protocol, g) = [precision |-> "exact", counts |-> known(g)]
    <3> HIDE DEF known, reports, total
    <3> QED
      BY <1>1, <1>10, <2>1
  <2>4. known(g) = [c \in DOMAIN usage.counts \cup DOMAIN counts |->
                      IF c \in DOMAIN counts THEN counts[c] ELSE usage.counts[c]]
    <3>1. known(g) = [c \in named(f) \cup DOMAIN counts |->
                        IF c \in DOMAIN counts THEN counts[c] ELSE known(f)[c]]
      BY <1>9, <1>10
    <3> HIDE DEF known, named, counts, usage
    <3>2. DOMAIN usage.counts = named(f) /\ \A c \in named(f) : usage.counts[c] = known(f)[c]
      BY <2>2 DEF usage
    <3> QED
      BY <3>1, <3>2
  <2> HIDE DEF known, usage, counts
  <2> QED
    BY <2>3, <2>4 DEF AnthropicUsage, usage
<1> QED
  BY <1>7, <1>8, <1>10

\* A function that differs at one place was put there.
LEMMA PutIs ==
  ASSUME NEW p, NEW q, NEW x, q = [i \in DOMAIN p \cup {x} |-> q[i]],
         \A i \in DOMAIN p : i # x => q[i] = p[i]
  PROVE  q = Put(p, x, q[x])
BY DEF Put

\* A tool's fragment, or a block's, changes the part of its index as the assembler does.
LEMMA ToolPartsGrow ==
  ASSUME NEW f, NEW g, NEW m, Extends(g, f, m)
  PROVE  /\ g[m].type = "tool" =>
              ToolParts(g) = Put(ToolParts(f), g[m].at,
                                 [PartAt(ToolParts(f), g[m].at, "tool")
                                    EXCEPT !.input = Append(@, g[m].text)])
         /\ g[m].type # "tool" => ToolParts(g) = ToolParts(f)
<1> DEFINE p == ToolParts(f)
           q == ToolParts(g)
           x == g[m].at
<1>1. /\ p = [i \in Indexes(f, {"tool"}) |-> Tool(f, i)]
      /\ q = [i \in Indexes(g, {"tool"}) |-> Tool(g, i)]
  BY DEF ToolParts
<1>2. /\ g[m].type = "tool" => Indexes(g, {"tool"}) = Indexes(f, {"tool"}) \cup {x}
      /\ g[m].type # "tool" => Indexes(g, {"tool"}) = Indexes(f, {"tool"})
  BY IndexesGrow
<1>3. \A i : /\ g[m].type = "tool" /\ x = i =>
                  Tool(g, i) = [Tool(f, i) EXCEPT !.input = Append(@, g[m].text)]
             /\ ~(g[m].type = "tool" /\ x = i) => Tool(g, i) = Tool(f, i)
             /\ i \notin Indexes(f, {"tool"}) => Tool(f, i) = Part("tool", Blank)
  BY ToolGrows
<1> HIDE DEF p, q, x
<1>4. ASSUME g[m].type # "tool" PROVE q = p
  BY <1>1, <1>2, <1>3, <1>4
<1>5. ASSUME g[m].type = "tool"
      PROVE  q = Put(p, x, [PartAt(p, x, "tool") EXCEPT !.input = Append(@, g[m].text)])
  <2>1. DOMAIN p = Indexes(f, {"tool"}) /\ \A i \in DOMAIN p : p[i] = Tool(f, i)
    BY <1>1
  <2>2. q = [i \in DOMAIN p \cup {x} |-> q[i]]
    BY <1>1, <1>2, <1>5, <2>1
  <2>3. \A i \in DOMAIN p \cup {x} : q[i] = Tool(g, i)
    BY <1>1, <1>2, <1>5, <2>1
  <2>4. PartAt(p, x, "tool") = Tool(f, x)
    BY <1>3, <2>1 DEF PartAt
  <2>5. q[x] = [PartAt(p, x, "tool") EXCEPT !.input = Append(@, g[m].text)]
    BY <1>3, <1>5, <2>3, <2>4
  <2>6. \A i \in DOMAIN p : i # x => q[i] = p[i]
    BY <1>3, <2>1, <2>3
  <2>7. q = Put(p, x, q[x])
    BY <2>2, <2>6, PutIs
  <2> QED
    BY <2>5, <2>7
<1> QED
  BY <1>4, <1>5 DEF p, q, x

LEMMA BlockPartsGrow ==
  ASSUME NEW f, NEW g, NEW m, Extends(g, f, m), Sequenced(g)
  PROVE  /\ g[m].type = "start" =>
              BlockParts(g) = Put(BlockParts(f), g[m].at, Part(g[m].text, g[m].given))
         /\ g[m].type = "text" =>
              BlockParts(g) = Put(BlockParts(f), g[m].at,
                                  [PartAt(BlockParts(f), g[m].at, "text")
                                     EXCEPT !.text = Append(@, g[m].text)])
         /\ g[m].type = "tool" =>
              BlockParts(g) = Put(BlockParts(f), g[m].at,
                                  [PartAt(BlockParts(f), g[m].at, "text")
                                     EXCEPT !.input = Append(@, g[m].text)])
         /\ g[m].type \notin {"start", "text", "tool"} => BlockParts(g) = BlockParts(f)
<1> DEFINE types == {"start", "text", "tool"}
           p == BlockParts(f)
           q == BlockParts(g)
           x == g[m].at
<1>1. /\ p = [i \in Indexes(f, types) |-> Block(f, i)]
      /\ q = [i \in Indexes(g, types) |-> Block(g, i)]
  BY DEF BlockParts
<1>2. /\ g[m].type \in types => Indexes(g, types) = Indexes(f, types) \cup {x}
      /\ g[m].type \notin types => Indexes(g, types) = Indexes(f, types)
  BY IndexesGrow
<1>3. \A i : /\ g[m].type = "start" /\ x = i => Block(g, i) = Part(g[m].text, g[m].given)
             /\ g[m].type = "text" /\ x = i =>
                  Block(g, i) = [Block(f, i) EXCEPT !.text = Append(@, g[m].text)]
             /\ g[m].type = "tool" /\ x = i =>
                  Block(g, i) = [Block(f, i) EXCEPT !.input = Append(@, g[m].text)]
  BY BlockGrows
<1>4. \A i : /\ ~(g[m].type \in types /\ x = i) => Block(g, i) = Block(f, i)
             /\ i \notin Indexes(f, types) => Block(f, i) = Part("text", Blank)
  BY BlockGrows
<1>5. types = {"start", "text", "tool"}
  OBVIOUS
<1> HIDE DEF p, q, x, types
<1>6. ASSUME g[m].type \notin types PROVE q = p
  BY <1>1, <1>2, <1>4, <1>6
<1>7. ASSUME g[m].type \in types
      PROVE  /\ q = Put(p, x, q[x]) /\ q[x] = Block(g, x)
             /\ PartAt(p, x, "text") = Block(f, x)
  <2>1. DOMAIN p = Indexes(f, types) /\ \A i \in DOMAIN p : p[i] = Block(f, i)
    BY <1>1
  <2>2. q = [i \in DOMAIN p \cup {x} |-> q[i]]
    BY <1>1, <1>2, <1>7, <2>1
  <2>3. \A i \in DOMAIN p \cup {x} : q[i] = Block(g, i)
    BY <1>1, <1>2, <1>7, <2>1
  <2>4. PartAt(p, x, "text") = Block(f, x)
    BY <1>4, <2>1 DEF PartAt
  <2>5. \A i \in DOMAIN p : i # x => q[i] = p[i]
    BY <1>4, <2>1, <2>3
  <2>6. q = Put(p, x, q[x])
    BY <2>2, <2>5, PutIs
  <2> QED
    BY <2>3, <2>4, <2>6
<1>8. ASSUME g[m].type = "start" PROVE q = Put(p, x, Part(g[m].text, g[m].given))
  BY <1>3, <1>5, <1>7, <1>8
<1>9. ASSUME g[m].type = "text"
      PROVE  q = Put(p, x, [PartAt(p, x, "text") EXCEPT !.text = Append(@, g[m].text)])
  BY <1>3, <1>5, <1>7, <1>9
<1>10. ASSUME g[m].type = "tool"
       PROVE  q = Put(p, x, [PartAt(p, x, "text") EXCEPT !.input = Append(@, g[m].text)])
  BY <1>3, <1>5, <1>7, <1>10
<1> QED
  BY <1>5, <1>6, <1>8, <1>9, <1>10 DEF p, q, x

\* A fragment taken in gives what is to be made of the fragments so far, and of
\* none there is nothing.
LEMMA AssemblyGrows ==
  ASSUME NEW f, NEW g, NEW m, Extends(g, f, m), Sequenced(g), NEW protocol,
         g[m].type \in {"text", "tool", "start", "usage"}
  PROVE  AssemblyOf(protocol, g) = Consume(protocol, AssemblyOf(protocol, f), g[m])
<1> DEFINE a == AssemblyOf(protocol, f)
           b == AssemblyOf(protocol, g)
           p == g[m]
<1>1. /\ p.type # "usage" => UsageOf(protocol, g) = UsageOf(protocol, f)
      /\ p.type = "usage" =>
           UsageOf(protocol, g) = IF protocol = "anthropic"
                                  THEN AnthropicUsage(UsageOf(protocol, f), p.counts)
                                  ELSE OpenAIUsage(UsageOf(protocol, f), p.counts)
  BY UsageGrows
<1>2. ASSUME protocol = "anthropic" PROVE b = AnthropicConsume(a, p)
  <2> DEFINE s == BlockParts(f)
             t == BlockParts(g)
             u == UsageOf(protocol, f)
             v == UsageOf(protocol, g)
  <2>1. /\ p.type = "start" => t = Put(s, p.at, Part(p.text, p.given))
        /\ p.type = "text" =>
             t = Put(s, p.at, [PartAt(s, p.at, "text") EXCEPT !.text = Append(@, p.text)])
        /\ p.type = "tool" =>
             t = Put(s, p.at, [PartAt(s, p.at, "text") EXCEPT !.input = Append(@, p.text)])
        /\ p.type \notin {"start", "text", "tool"} => t = s
    BY BlockPartsGrow
  <2>2. /\ a = [text |-> <<>>, parts |-> s, usage |-> u]
        /\ b = [text |-> <<>>, parts |-> t, usage |-> v]
    BY <1>2 DEF AssemblyOf, AnthropicAssembly
  <2>3. /\ p.type # "usage" => v = u
        /\ p.type = "usage" => v = AnthropicUsage(u, p.counts)
    BY <1>1, <1>2
  <2>4. p.type \in {"text", "tool", "start", "usage"}
    OBVIOUS
  <2> HIDE DEF s, t, u, v, a, b, p
  <2>5. a.parts = s /\ a.usage = u
    BY <2>2
  <2>6. \A y : [a EXCEPT !.parts = y] = [text |-> <<>>, parts |-> y, usage |-> u]
    BY <2>2
  <2>7. \A y : [a EXCEPT !.usage = y] = [text |-> <<>>, parts |-> s, usage |-> y]
    BY <2>2
  <2>8. CASE p.type = "start"
    <3>1. AnthropicConsume(a, p) = [a EXCEPT !.parts = Put(a.parts, p.at, Part(p.text, p.given))]
      BY <2>8 DEF AnthropicConsume
    <3> QED
      BY <2>1, <2>2, <2>3, <2>5, <2>6, <2>8, <3>1
  <2>9. CASE p.type = "text"
    <3> DEFINE y == [PartAt(s, p.at, "text") EXCEPT !.text = Append(@, p.text)]
    <3>1. AnthropicConsume(a, p) = [a EXCEPT !.parts = Put(a.parts, p.at, y)]
      BY <2>5, <2>9 DEF AnthropicConsume
    <3>2. t = Put(s, p.at, y)
      BY <2>1, <2>9
    <3> HIDE DEF y
    <3> QED
      BY <2>2, <2>3, <2>5, <2>6, <2>9, <3>1, <3>2
  <2>10. CASE p.type = "tool"
    <3> DEFINE y == [PartAt(s, p.at, "text") EXCEPT !.input = Append(@, p.text)]
    <3>1. AnthropicConsume(a, p) = [a EXCEPT !.parts = Put(a.parts, p.at, y)]
      BY <2>5, <2>10 DEF AnthropicConsume
    <3>2. t = Put(s, p.at, y)
      BY <2>1, <2>10
    <3> HIDE DEF y
    <3> QED
      BY <2>2, <2>3, <2>5, <2>6, <2>10, <3>1, <3>2
  <2>11. CASE p.type = "usage"
    <3>1. AnthropicConsume(a, p) = [a EXCEPT !.usage = AnthropicUsage(a.usage, p.counts)]
      BY <2>11 DEF AnthropicConsume
    <3>2. t = s
      BY <2>1, <2>11
    <3> QED
      BY <2>2, <2>3, <2>5, <2>7, <2>11, <3>1, <3>2
  <2> QED
    BY <2>4, <2>8, <2>9, <2>10, <2>11
<1>3. ASSUME protocol # "anthropic" PROVE b = OpenAIConsume(a, p)
  <2> DEFINE s == ToolParts(f)
             t == ToolParts(g)
             u == UsageOf("openai", f)
             v == UsageOf("openai", g)
             d == Texts(f, Places(f, {"text"}))
             e == Texts(g, Places(g, {"text"}))
  <2>1. /\ p.type = "tool" =>
             t = Put(s, p.at, [PartAt(s, p.at, "tool") EXCEPT !.input = Append(@, p.text)])
        /\ p.type # "tool" => t = s
    BY ToolPartsGrow
  <2>2. a = [text |-> d, parts |-> s, usage |-> u] /\ b = [text |-> e, parts |-> t, usage |-> v]
    BY <1>3 DEF AssemblyOf, OpenAIAssembly
  <2>3. /\ p.type # "usage" => v = u
        /\ p.type = "usage" => v = OpenAIUsage(u, p.counts)
    BY UsageGrows
  <2>4. /\ p.type = "text" => e = Append(d, p.text)
        /\ p.type # "text" => e = d
    <3>1. Earlier(Places(f, {"text"}), m)
      BY DEF Extends, Earlier, Places
    <3>2. /\ Texts(g, Places(f, {"text"})) = d
          /\ Texts(g, Places(f, {"text"}) \cup {m}) = Append(d, p.text)
      <4> DEFINE S == Places(f, {"text"})
      <4>1. Earlier(S, m)
        BY <3>1
      <4> HIDE DEF S
      <4>2. Texts(g, S) = Texts(f, S) /\ Texts(g, S \cup {m}) = Append(Texts(f, S), g[m].text)
        BY <4>1, TextsOfPlaces
      <4> QED
        BY <4>2 DEF S
    <3>3. /\ p.type = "text" => Places(g, {"text"}) = Places(f, {"text"}) \cup {m}
          /\ p.type # "text" => Places(g, {"text"}) = Places(f, {"text"})
      BY PlacesGrow
    <3> QED
      BY <3>2, <3>3
  <2>5. p.type \in {"text", "tool", "start", "usage"}
    OBVIOUS
  <2> HIDE DEF s, t, u, v, a, b, p, d, e
  <2>6. a.parts = s /\ a.usage = u /\ a.text = d
    BY <2>2
  <2>7. \A y : [a EXCEPT !.parts = y] = [text |-> d, parts |-> y, usage |-> u]
    BY <2>2
  <2>8. \A y : [a EXCEPT !.usage = y] = [text |-> d, parts |-> s, usage |-> y]
    BY <2>2
  <2>9. \A y : [a EXCEPT !.text = y] = [text |-> y, parts |-> s, usage |-> u]
    BY <2>2
  <2>10. CASE p.type = "start"
    <3>1. OpenAIConsume(a, p) = a
      BY <2>10 DEF OpenAIConsume
    <3> QED
      BY <2>1, <2>2, <2>3, <2>4, <2>10, <3>1
  <2>11. CASE p.type = "text"
    <3>1. OpenAIConsume(a, p) = [a EXCEPT !.text = Append(a.text, p.text)]
      BY <2>11 DEF OpenAIConsume
    <3>2. t = s /\ v = u /\ e = Append(d, p.text)
      BY <2>1, <2>3, <2>4, <2>11
    <3> QED
      BY <2>2, <2>6, <2>9, <3>1, <3>2
  <2>12. CASE p.type = "tool"
    <3> DEFINE y == [PartAt(s, p.at, "tool") EXCEPT !.input = Append(@, p.text)]
    <3>1. OpenAIConsume(a, p) = [a EXCEPT !.parts = Put(a.parts, p.at, y)]
      BY <2>6, <2>12 DEF OpenAIConsume
    <3>2. t = Put(s, p.at, y)
      BY <2>1, <2>12
    <3> HIDE DEF y
    <3> QED
      BY <2>2, <2>3, <2>4, <2>6, <2>7, <2>12, <3>1, <3>2
  <2>13. CASE p.type = "usage"
    <3>1. OpenAIConsume(a, p) = [a EXCEPT !.usage = OpenAIUsage(a.usage, p.counts)]
      BY <2>13 DEF OpenAIConsume
    <3> QED
      BY <2>1, <2>2, <2>3, <2>4, <2>6, <2>8, <2>13, <3>1
  <2> QED
    BY <2>5, <2>10, <2>11, <2>12, <2>13
<1> QED
  BY <1>2, <1>3 DEF Consume

\* Before any fragment the assembly is new.
LEMMA AssemblyOfNothing ==
  ASSUME NEW f, DOMAIN f = {}, NEW protocol
  PROVE  AssemblyOf(protocol, f) = NewAssembly
<1>1. \A types : Places(f, types) = {} /\ Indexes(f, types) = {}
  BY DEF Places, Indexes
<1>2. UsageOf("anthropic", f) = Unavailable /\ UsageOf("openai", f) = Unavailable
  <2>1. \A reply : reply.fragments = f => AnswerUsage(reply) = Unavailable
    BY <1>1 DEF AnswerUsage
  <2> QED
    BY <2>1 DEF UsageOf
<1>3. ToolParts(f) = <<>> /\ BlockParts(f) = <<>>
  BY <1>1 DEF ToolParts, BlockParts
<1>4. Texts(f, Places(f, {"text"})) = <<>>
  BY <1>1, NoTexts
<1> QED
  BY <1>2, <1>3, <1>4 DEF AssemblyOf, AnthropicAssembly, OpenAIAssembly, NewAssembly

\* A part of each index, in order.
InOrder(p, D) == /\ Cardinality(D) \in Nat /\ DOMAIN Ascending(D) = 1 .. Cardinality(D)
                 /\ \A j \in 1 .. Cardinality(D) : Ascending(D)[j] \in D
                 /\ Picked(p, D) = [j \in 1 .. Cardinality(D) |-> p[Ascending(D)[j]]]

LEMMA PartsInOrder ==
  ASSUME NEW p, NEW D, IsFiniteSet(D), D \subseteq Nat
  PROVE  InOrder(p, D)
<1>1. /\ Cardinality(D) \in Nat /\ DOMAIN Ascending(D) = 1 .. Cardinality(D)
      /\ \A j \in 1 .. Cardinality(D) : Ascending(D)[j] \in D
  BY AscendingIs
<1> QED
  BY <1>1 DEF Picked, InOrder

\* The tools or blocks of an answer are finitely many.
LEMMA IndexesFinite ==
  ASSUME NEW f, NEW n \in Nat, DOMAIN f = 1 .. n, NEW types
  PROVE  IsFiniteSet(Indexes(f, types))
<1> DEFINE S == Places(f, types)
           T == Indexes(f, types)
           at == [k \in S |-> f[k].at]
<1>1. IsFiniteSet(S)
  BY PlacesFinite
<1>2. at \in Surjection(S, T)
  <2>1. T = {at[k] : k \in S}
    BY DEF Indexes
  <2> HIDE DEF T
  <2> QED
    BY <2>1 DEF Surjection
<1> HIDE DEF S, T, at
<1>3. IsFiniteSet(T)
  BY <1>1, <1>2, FS_Surjection
<1> QED
  BY <1>3 DEF T

\* At the end of a stream the assembly is the answer.
LEMMA AssembledIs ==
  ASSUME NEW reply, NEW n \in Nat, DOMAIN reply.fragments = 1 .. n, reply.stream,
         \A k \in 1 .. n : reply.fragments[k].at \in Nat
  PROVE  Assembled(AssemblyOf(reply.protocol, reply.fragments))
           = [messages |-> AnswerMessages(reply), usage |-> AnswerUsage(reply)]
<1> DEFINE f == reply.fragments
           a == AssemblyOf(reply.protocol, f)
           inOrder == Picked(a.parts, DOMAIN a.parts)
           parts == [i \in DOMAIN inOrder |-> PartMessage(inOrder[i])]
<1>1. \A types : IsFiniteSet(Indexes(f, types)) /\ Indexes(f, types) \subseteq Nat
  <2>1. \A types : Places(f, types) \subseteq 1 .. n
    BY PlacesFinite
  <2>2. \A types : Indexes(f, types) \subseteq Nat
    BY <2>1 DEF Indexes
  <2> HIDE DEF f
  <2>3. DOMAIN f = 1 .. n
    BY DEF f
  <2> QED
    BY <2>2, <2>3, IndexesFinite
<1>2. Assembled(a) = [messages |-> (IF a.text = <<>> THEN <<>>
                                    ELSE <<[role |-> "assistant", text |-> a.text]>>) \o parts,
                      usage |-> a.usage]
  BY DEF Assembled
<1>3. CASE reply.protocol = "anthropic"
  <2> DEFINE D == Indexes(f, {"start", "text", "tool"})
             q == Ascending(D)
             isTool(i) == StartOf(f, i) # 0 /\ f[StartOf(f, i)].text = "tool"
             message(i) == IF isTool(i)
                           THEN [role |-> "tool",
                                 text |-> Carried(f, i).input \o Texts(f, Since(f, "tool", i))]
                           ELSE [role |-> "assistant",
                                 text |-> Carried(f, i).text \o Texts(f, Since(f, "text", i))]
             answer == [j \in DOMAIN q |-> message(q[j])]
  <2>1. a.text = <<>> /\ a.parts = BlockParts(f) /\ a.usage = UsageOf("anthropic", f)
    BY <1>3 DEF AssemblyOf, AnthropicAssembly
  <2>2. AnthropicAnswer(f) = answer
    BY DEF AnthropicAnswer, Indexes, StartOf, Since, Carried
  <2>3. BlockParts(f) = [i \in D |-> Block(f, i)]
    BY DEF BlockParts
  <2>4. \A i : PartMessage(Block(f, i)) = message(i)
    BY DEF Block, PartMessage
  <2>5. IsFiniteSet(D) /\ D \subseteq Nat
    BY <1>1
  <2> HIDE DEF D, message, a, parts, inOrder
  <2>6. DOMAIN BlockParts(f) = D /\ \A i \in D : BlockParts(f)[i] = Block(f, i)
    BY <2>3
  <2>7. /\ Cardinality(D) \in Nat /\ DOMAIN q = 1 .. Cardinality(D)
        /\ \A j \in 1 .. Cardinality(D) : q[j] \in D
        /\ Picked(BlockParts(f), D) = [j \in 1 .. Cardinality(D) |-> BlockParts(f)[q[j]]]
    BY <2>5, PartsInOrder DEF InOrder
  <2>8. inOrder = [j \in 1 .. Cardinality(D) |-> Block(f, q[j])]
    BY <2>1, <2>6, <2>7 DEF inOrder
  <2> HIDE DEF q
  <2>9. parts = [j \in 1 .. Cardinality(D) |-> message(q[j])]
    BY <2>4, <2>8 DEF parts
  <2>10. answer = parts
    BY <2>7, <2>9
  <2>11. IsSequence(parts)
    <3>1. parts = [j \in 1 .. Cardinality(D) |-> parts[j]]
      BY <2>9
    <3> QED
      BY <2>7, <3>1, SequenceMade
  <2>12. <<>> \o parts = parts
    BY <2>11 DEF IsSequence
  <2>13. AnswerMessages(reply) = answer
    BY <1>3, <2>2 DEF AnswerMessages, f
  <2>14. AnswerUsage(reply) = UsageOf("anthropic", f)
    BY <1>3 DEF AnswerUsage, UsageOf, f
  <2> HIDE DEF f, answer
  <2>15. Assembled(a) = [messages |-> parts, usage |-> a.usage]
    BY <1>2, <2>1, <2>12
  <2> QED
    BY <2>1, <2>10, <2>13, <2>14, <2>15 DEF a, f
<1>4. CASE reply.protocol # "anthropic"
  <2> DEFINE D == Indexes(f, {"tool"})
             q == Ascending(D)
             S == Places(f, {"text"})
             text == Texts(f, S)
             message(i) == [role |-> "tool", text |-> Texts(f, About(f, {"tool"}, i))]
             answer == [j \in DOMAIN q |-> message(q[j])]
             said == <<[role |-> "assistant", text |-> text]>>
  <2>1. a.text = text /\ a.parts = ToolParts(f) /\ a.usage = UsageOf("openai", f)
    BY <1>4 DEF AssemblyOf, OpenAIAssembly
  <2>2. OpenAIAnswer(f) = (IF S = {} THEN <<>> ELSE said) \o answer
    BY DEF OpenAIAnswer, Indexes
  <2>3. ToolParts(f) = [i \in D |-> Tool(f, i)]
    BY DEF ToolParts
  <2>4. \A i : PartMessage(Tool(f, i)) = message(i)
    BY DEF Tool, PartMessage
  <2>5. IsFiniteSet(D) /\ D \subseteq Nat
    BY <1>1
  <2>6. S = {} <=> text = <<>>
    <3>1. IsFiniteSet(S) /\ S \subseteq Nat
      <4>1. IsFiniteSet(S) /\ S \subseteq 1 .. n
        BY PlacesFinite
      <4> QED
        BY <4>1
    <3> HIDE DEF S
    <3>2. IsTexts(Texts(f, S), f, S)
      BY <3>1, TextsAt
    <3>3. Len(text) = Cardinality(S)
      BY <3>2 DEF IsTexts
    <3>4. S = {} <=> Cardinality(S) = 0
      BY <3>1, FS_EmptySet
    <3>5. S = {} => text = <<>>
      BY NoTexts
    <3>6. Len(<<>>) = 0
      OBVIOUS
    <3> HIDE DEF text
    <3> QED
      BY <3>3, <3>4, <3>5, <3>6
  <2> HIDE DEF D, message, a, parts, inOrder, S, text
  <2>7. DOMAIN ToolParts(f) = D /\ \A i \in D : ToolParts(f)[i] = Tool(f, i)
    BY <2>3
  <2>8. /\ Cardinality(D) \in Nat /\ DOMAIN q = 1 .. Cardinality(D)
        /\ \A j \in 1 .. Cardinality(D) : q[j] \in D
        /\ Picked(ToolParts(f), D) = [j \in 1 .. Cardinality(D) |-> ToolParts(f)[q[j]]]
    BY <2>5, PartsInOrder DEF InOrder
  <2>9. inOrder = [j \in 1 .. Cardinality(D) |-> Tool(f, q[j])]
    BY <2>1, <2>7, <2>8 DEF inOrder
  <2> HIDE DEF q
  <2>10. parts = [j \in 1 .. Cardinality(D) |-> message(q[j])]
    BY <2>4, <2>9 DEF parts
  <2>11. answer = parts
    BY <2>8, <2>10
  <2>12. AnswerMessages(reply) = (IF S = {} THEN <<>> ELSE said) \o answer
    BY <1>4, <2>2 DEF AnswerMessages, f
  <2>13. AnswerUsage(reply) = UsageOf("openai", f)
    BY <1>4 DEF AnswerUsage, UsageOf, f
  <2> HIDE DEF f, answer
  <2>14. Assembled(a) = [messages |-> (IF S = {} THEN <<>> ELSE said) \o parts, usage |-> a.usage]
    BY <1>2, <2>1, <2>6
  <2> QED
    BY <2>1, <2>11, <2>12, <2>13, <2>14 DEF a, f
<1> QED
  BY <1>3, <1>4
-----------------------------------------------------------------------------
(* The lines of a stream and its blocks *)

\* The ends of lines.
LineEnds == {"lf", "crlf"}

\* The first of some places.
LEMMA FirstIs ==
  ASSUME NEW S, S \subseteq Nat, S # {}
  PROVE  First(S) \in S /\ \A j \in S : First(S) <= j
<1>1. PICK n : n \in S
  OBVIOUS
<1>2. \E i \in S : \A j \in S : i <= j
  BY <1>1, LeastNumber
<1> QED
  BY <1>2, Zenon DEF First

\* A stream whose lines all end in z.
Lines(bytes, z) ==
  /\ \A i \in DOMAIN bytes : bytes[i].kind \in {"open", "close", "mark", "other", z}
  /\ \A i, j \in DOMAIN bytes :
       bytes[i].kind \in {"open", "mark"} /\ bytes[j].kind \in {"open", "mark"} /\ i < j =>
         \E k \in i + 1 .. j - 2 : bytes[k].kind = z /\ bytes[k + 1].kind = z
  /\ \A i \in DOMAIN bytes : bytes[i].kind = "open" =>
       i + 1 \in DOMAIN bytes /\ bytes[i + 1] = Token("close", bytes[i].of)
       /\ bytes[i] = Token("open", bytes[i].of)
  /\ \A i \in DOMAIN bytes : bytes[i].kind = "close" =>
       i - 1 \in DOMAIN bytes /\ bytes[i - 1].kind = "open"
  /\ \A i \in DOMAIN bytes : bytes[i].kind = "mark" => bytes[i] = Token("mark", NoPayload)

\* Where a payload's line begins, in all or up to a place.
Opens(bytes) == {i \in DOMAIN bytes : bytes[i].kind = "open"}
OpensUpTo(bytes, n) == {i \in DOMAIN bytes : i <= n /\ bytes[i].kind = "open"}

\* The payloads in a stream are the fragments, in order.
Payloads(fragments, bytes) ==
  /\ fragments = [j \in 1 .. Cardinality(Opens(bytes)) |-> bytes[Ascending(Opens(bytes))[j]].of]
  /\ \A j \in DOMAIN fragments :
       fragments[j].type \in {"text", "tool", "start", "usage"} /\ fragments[j].at \in Nat
  /\ Sequenced(fragments)

\* What a whole stream is, part by part.
LEMMA StreamIs ==
  ASSUME NEW fragments, NEW bytes, WholeStream(fragments, bytes)
  PROVE  Payloads(fragments, bytes) /\ \E z \in LineEnds : Lines(bytes, z)
<1> DEFINE of(kinds) == {i \in DOMAIN bytes : bytes[i].kind \in kinds}
           said == Picked(bytes, of({"open"}))
<1>1. /\ \E z \in {"lf", "crlf"} :
           /\ of({"open", "close", "mark", "other", z}) = DOMAIN bytes
           /\ \A i, j \in of({"open", "mark"}) : i < j =>
                \E k \in i + 1 .. j - 2 : {k, k + 1} \subseteq of({z})
      /\ \A i \in of({"open"}) : /\ i + 1 \in DOMAIN bytes
                                 /\ bytes[i + 1] = Token("close", bytes[i].of)
      /\ \A i \in of({"close"}) : i - 1 \in of({"open"})
      /\ \A i \in of({"mark"}) : bytes[i] = Token("mark", NoPayload)
      /\ \A i \in of({"open"}) : bytes[i] = Token("open", bytes[i].of)
      /\ fragments = [j \in DOMAIN said |-> said[j].of]
      /\ \A j \in DOMAIN fragments :
           /\ fragments[j].type \in {"text", "tool", "start", "usage"}
           /\ fragments[j].at \in Nat
           /\ IsSequence(fragments[j].given.text) /\ IsSequence(fragments[j].given.input)
  BY Zenon DEF WholeStream
<1>2. of({"open"}) = Opens(bytes)
  BY DEF Opens
<1>3. Payloads(fragments, bytes)
  <2>1. said = [j \in 1 .. Cardinality(Opens(bytes)) |-> bytes[Ascending(Opens(bytes))[j]]]
    BY <1>2 DEF Picked
  <2> HIDE DEF said
  <2>2. fragments = [j \in 1 .. Cardinality(Opens(bytes)) |-> bytes[Ascending(Opens(bytes))[j]].of]
    BY <1>1, <2>1
  <2> QED
    BY <1>1, <2>2 DEF Payloads, Sequenced
<1>4. \A kinds, i : i \in of(kinds) <=> i \in DOMAIN bytes /\ bytes[i].kind \in kinds
  OBVIOUS
<1>5. PICK z \in LineEnds :
        /\ of({"open", "close", "mark", "other", z}) = DOMAIN bytes
        /\ \A i, j \in of({"open", "mark"}) : i < j =>
             \E k \in i + 1 .. j - 2 : {k, k + 1} \subseteq of({z})
  BY <1>1 DEF LineEnds
<1> HIDE DEF of, said
<1>6. \A i \in DOMAIN bytes : bytes[i].kind \in {"open", "close", "mark", "other", z}
  BY <1>4, <1>5
<1>7. \A i, j \in DOMAIN bytes :
        bytes[i].kind \in {"open", "mark"} /\ bytes[j].kind \in {"open", "mark"} /\ i < j =>
          \E k \in i + 1 .. j - 2 : bytes[k].kind = z /\ bytes[k + 1].kind = z
  BY <1>4, <1>5
<1>8. \A i \in DOMAIN bytes : bytes[i].kind = "open" =>
        i + 1 \in DOMAIN bytes /\ bytes[i + 1] = Token("close", bytes[i].of)
        /\ bytes[i] = Token("open", bytes[i].of)
  BY <1>1, <1>4
<1>9. \A i \in DOMAIN bytes : bytes[i].kind = "close" =>
        i - 1 \in DOMAIN bytes /\ bytes[i - 1].kind = "open"
  BY <1>1, <1>4
<1>10. \A i \in DOMAIN bytes : bytes[i].kind = "mark" => bytes[i] = Token("mark", NoPayload)
  BY <1>1, <1>4
<1>11. Lines(bytes, z)
  BY <1>6, <1>7, <1>8, <1>9, <1>10 DEF Lines
<1> QED
  BY <1>3, <1>11

\* In such a stream a block ends at every empty line.
LEMMA SeparatorsAre ==
  ASSUME NEW z \in LineEnds, NEW buffer,
         \A i \in 1 .. Len(buffer) : buffer[i].kind \in {"open", "close", "mark", "other", z},
         Len(buffer) \in Nat
  PROVE  Separators(buffer) = {i \in 1 .. Len(buffer) - 1 :
                                 buffer[i].kind = z /\ buffer[i + 1].kind = z}
<1> DEFINE ends(kinds, kind) == {i \in 1 .. Len(buffer) - 1 :
                                   buffer[i].kind \in kinds /\ buffer[i + 1].kind = kind}
           both == {i \in 1 .. Len(buffer) - 1 : buffer[i].kind = z /\ buffer[i + 1].kind = z}
<1>1. Separators(buffer) = IF ends({"lf", "crlf"}, "lf") # {} THEN ends({"lf", "crlf"}, "lf")
                           ELSE ends({"crlf"}, "crlf")
  BY DEF Separators
<1>2. \A i \in 1 .. Len(buffer) - 1 : i \in 1 .. Len(buffer) /\ i + 1 \in 1 .. Len(buffer)
  OBVIOUS
<1>3. CASE z = "lf"
  <2>1. ends({"lf", "crlf"}, "lf") = both
    BY <1>2, <1>3
  <2>2. ends({"crlf"}, "crlf") = {}
    BY <1>2, <1>3
  <2> HIDE DEF ends, both
  <2>3. Separators(buffer) = both
    BY <1>1, <2>1, <2>2
  <2> QED
    BY <2>3 DEF both
<1>4. CASE z = "crlf"
  <2>1. ends({"lf", "crlf"}, "lf") = {}
    BY <1>2, <1>4
  <2>2. ends({"crlf"}, "crlf") = both
    BY <1>4
  <2> HIDE DEF ends, both
  <2>3. Separators(buffer) = both
    BY <1>1, <2>1, <2>2
  <2> QED
    BY <2>3 DEF both
<1> QED
  BY <1>3, <1>4 DEF LineEnds

\* A block: the tokens after base up to the next empty line or the end.
IsBlock(block, bytes, base, z) ==
  /\ base \in Nat /\ Len(block) \in Nat /\ DOMAIN block = 1 .. Len(block)
  /\ base + Len(block) <= Len(bytes)
  /\ \A i \in 1 .. Len(block) : block[i] = bytes[base + i]
  /\ base = 0 \/ bytes[base].kind = z
  /\ base + Len(block) = Len(bytes) \/ bytes[base + Len(block) + 1].kind = z
  /\ \A i \in 1 .. Len(block) - 1 : ~(block[i].kind = z /\ block[i + 1].kind = z)

\* Where payloads begin between two places.
OpensIn(bytes, base, n) == {i \in DOMAIN bytes : i > base /\ i <= n /\ bytes[i].kind = "open"}

\* It holds nothing, the mark, or a payload.
LEMMA BlockHolds ==
  ASSUME NEW z \in LineEnds, NEW bytes, IsSequence(bytes), Lines(bytes, z),
         NEW base, NEW block, IsBlock(block, bytes, base, z)
  PROVE  \/ Data(block) = {} /\ OpensIn(bytes, base, base + Len(block)) = {}
         \/ \E i \in 1 .. Len(block) :
              /\ Data(block) = {i} /\ block[i] = Token("mark", NoPayload)
              /\ OpensIn(bytes, base, base + Len(block)) = {}
         \/ \E i \in 1 .. Len(block) :
              /\ Data(block) = {i, i + 1}
              /\ block[i] = Token("open", block[i].of)
              /\ block[i + 1] = Token("close", block[i].of)
              /\ OpensIn(bytes, base, base + Len(block)) = {base + i}
<1> DEFINE n == Len(block)
           N == Len(bytes)
<1>1. /\ base \in Nat /\ n \in Nat /\ DOMAIN block = 1 .. n /\ base + n <= N
      /\ \A i \in 1 .. n : block[i] = bytes[base + i]
      /\ base = 0 \/ bytes[base].kind = z
      /\ base + n = N \/ bytes[base + n + 1].kind = z
      /\ \A i \in 1 .. n - 1 : ~(block[i].kind = z /\ block[i + 1].kind = z)
  BY DEF IsBlock
<1>2. N \in Nat /\ DOMAIN bytes = 1 .. N
  BY SequenceIs
<1>3. \A i \in 1 .. n : base + i \in 1 .. N
  <2>1. base \in Nat /\ n \in Nat /\ base + n <= N /\ N \in Nat
    BY <1>1, <1>2
  <2> HIDE DEF n, N
  <2> QED
    BY <2>1
<1>4. z \notin {"open", "close", "mark", "other"}
  BY DEF LineEnds
<1>5. /\ \A i, j \in 1 .. N :
           bytes[i].kind \in {"open", "mark"} /\ bytes[j].kind \in {"open", "mark"} /\ i < j =>
             \E k \in i + 1 .. j - 2 : bytes[k].kind = z /\ bytes[k + 1].kind = z
      /\ \A i \in 1 .. N : bytes[i].kind = "open" =>
           i + 1 \in 1 .. N /\ bytes[i + 1] = Token("close", bytes[i].of)
           /\ bytes[i] = Token("open", bytes[i].of)
      /\ \A i \in 1 .. N : bytes[i].kind = "close" =>
           i - 1 \in 1 .. N /\ bytes[i - 1].kind = "open"
      /\ \A i \in 1 .. N : bytes[i].kind = "mark" => bytes[i] = Token("mark", NoPayload)
  BY <1>2 DEF Lines
<1>6. \A i : i \in Data(block) <=> i \in 1 .. n /\ block[i].kind \in {"open", "close", "mark"}
  BY <1>1 DEF Data
<1>7. \A i : i \in OpensIn(bytes, base, base + n) <=>
               i \in 1 .. N /\ i > base /\ i <= base + n /\ bytes[i].kind = "open"
  BY <1>2 DEF OpensIn
<1> HIDE DEF n, N
<1>8. \A i \in 1 .. n : \A j \in 1 .. n :
        block[i].kind \in {"open", "mark"} /\ block[j].kind \in {"open", "mark"} => i = j
  <2>1. ASSUME NEW i \in 1 .. n, NEW j \in 1 .. n, i < j,
               block[i].kind \in {"open", "mark"}, block[j].kind \in {"open", "mark"}
        PROVE  FALSE
    <3>1. base + i < base + j /\ bytes[base + i].kind \in {"open", "mark"}
          /\ bytes[base + j].kind \in {"open", "mark"}
      BY <1>1, <2>1
    <3>2. PICK k \in (base + i) + 1 .. (base + j) - 2 : bytes[k].kind = z /\ bytes[k + 1].kind = z
      BY <1>3, <1>5, <3>1
    <3>3. k - base \in 1 .. n - 1 /\ base + (k - base) = k /\ base + (k - base + 1) = k + 1
          /\ k - base \in 1 .. n /\ k - base + 1 \in 1 .. n
      BY <1>1, <2>1
    <3>4. block[k - base] = bytes[k] /\ block[k - base + 1] = bytes[k + 1]
      BY <1>1, <3>3
    <3> QED
      BY <1>1, <3>2, <3>3, <3>4
  <2>2. \A i, j \in 1 .. n : i < j \/ j < i \/ i = j
    BY <1>1
  <2> QED
    BY <2>1, <2>2
<1>9. ASSUME NEW i \in 1 .. n, block[i].kind = "close"
      PROVE  i - 1 \in 1 .. n /\ block[i - 1].kind = "open"
  <2>1. (base + i) - 1 \in 1 .. N /\ bytes[(base + i) - 1].kind = "open"
    BY <1>1, <1>3, <1>5, <1>9
  <2>2. i # 1
    <3> SUFFICES ASSUME i = 1 PROVE FALSE
      OBVIOUS
    <3>1. (base + i) - 1 = base
      BY <1>1
    <3> QED
      BY <1>1, <1>4, <2>1, <3>1
  <2>3. i - 1 \in 1 .. n /\ base + (i - 1) = (base + i) - 1
    BY <1>1, <2>2
  <2> QED
    BY <1>1, <2>1, <2>3
<1>10. ASSUME NEW i \in 1 .. n, block[i].kind = "open"
       PROVE  /\ i + 1 \in 1 .. n /\ block[i + 1] = Token("close", block[i].of)
              /\ block[i] = Token("open", block[i].of)
  <2>1. bytes[base + i].kind = "open" /\ block[i] = bytes[base + i]
    BY <1>1, <1>10
  <2>2. /\ (base + i) + 1 \in 1 .. N /\ bytes[(base + i) + 1] = Token("close", block[i].of)
        /\ block[i] = Token("open", block[i].of)
    BY <1>3, <1>5, <2>1
  <2>3. bytes[(base + i) + 1].kind = "close"
    BY <2>2 DEF Token
  <2>4. i # n
    <3> SUFFICES ASSUME i = n PROVE FALSE
      OBVIOUS
    <3>1. base + n # N
      BY <1>1, <1>2, <2>2
    <3> QED
      BY <1>1, <1>4, <2>3, <3>1
  <2>5. i + 1 \in 1 .. n /\ base + (i + 1) = (base + i) + 1
    BY <1>1, <2>4
  <2> QED
    BY <1>1, <2>2, <2>5
<1>11. ASSUME \A i \in 1 .. n : block[i].kind # "open"
       PROVE  /\ OpensIn(bytes, base, base + n) = {}
              /\ \A i \in 1 .. n : block[i].kind # "close"
  <2>1. ASSUME NEW i \in OpensIn(bytes, base, base + n) PROVE FALSE
    <3>1. i - base \in 1 .. n /\ base + (i - base) = i /\ bytes[i].kind = "open"
      BY <1>1, <1>2, <1>7, <2>1
    <3> QED
      BY <1>1, <1>11, <3>1
  <2>2. OpensIn(bytes, base, base + n) = {}
    BY <2>1
  <2>3. \A i \in 1 .. n : block[i].kind # "close"
    BY <1>9, <1>11
  <2> QED
    BY <2>2, <2>3
<1>12. CASE \A i \in 1 .. n : block[i].kind \notin {"open", "mark"}
  <2>1. OpensIn(bytes, base, base + n) = {} /\ \A i \in 1 .. n : block[i].kind # "close"
    BY <1>11, <1>12
  <2>2. Data(block) = {}
    BY <1>6, <1>12, <2>1
  <2> QED
    BY <2>1, <2>2 DEF n
<1>13. CASE \E i \in 1 .. n : block[i].kind = "mark"
  <2>1. PICK i \in 1 .. n : block[i].kind = "mark"
    BY <1>13
  <2>2. \A j \in 1 .. n : block[j].kind # "open"
    BY <1>8, <2>1
  <2>3. OpensIn(bytes, base, base + n) = {} /\ \A j \in 1 .. n : block[j].kind # "close"
    BY <1>11, <2>2
  <2>4. Data(block) = {i}
    BY <1>6, <1>8, <2>1, <2>2, <2>3
  <2>5. block[i] = Token("mark", NoPayload)
    BY <1>1, <1>3, <1>5, <2>1
  <2> QED
    BY <2>3, <2>4, <2>5 DEF n
<1>14. CASE \E i \in 1 .. n : block[i].kind = "open"
  <2>1. PICK i \in 1 .. n : block[i].kind = "open"
    BY <1>14
  <2>2. /\ i + 1 \in 1 .. n /\ block[i + 1] = Token("close", block[i].of)
        /\ block[i] = Token("open", block[i].of)
    BY <1>10, <2>1
  <2>3. block[i + 1].kind = "close"
    BY <2>2 DEF Token
  <2>4. Data(block) = {i, i + 1}
    <3>1. \A j \in Data(block) : j \in {i, i + 1}
      <4> SUFFICES ASSUME NEW j \in Data(block) PROVE j \in {i, i + 1}
        OBVIOUS
      <4>1. j \in 1 .. n /\ block[j].kind \in {"open", "close", "mark"}
        BY <1>6
      <4>2. CASE block[j].kind = "close"
        <5>1. j - 1 \in 1 .. n /\ block[j - 1].kind = "open"
          BY <1>9, <4>1, <4>2
        <5>2. j - 1 = i
          BY <1>8, <2>1, <5>1
        <5> QED
          BY <4>1, <5>2
      <4>3. CASE block[j].kind \in {"open", "mark"}
        BY <1>8, <2>1, <4>1, <4>3
      <4> QED
        BY <4>1, <4>2, <4>3
    <3>2. i \in Data(block) /\ i + 1 \in Data(block)
      BY <1>6, <2>1, <2>2, <2>3
    <3> QED
      BY <3>1, <3>2
  <2>5. OpensIn(bytes, base, base + n) = {base + i}
    <3>1. ASSUME NEW j \in OpensIn(bytes, base, base + n) PROVE j = base + i
      <4>1. j - base \in 1 .. n /\ base + (j - base) = j /\ bytes[j].kind = "open"
        BY <1>1, <1>2, <1>7, <3>1
      <4>2. j - base = i
        BY <1>1, <1>8, <2>1, <4>1
      <4> QED
        BY <1>1, <4>1, <4>2
    <3>2. base + i \in 1 .. N /\ base + i > base /\ base + i <= base + n
      BY <1>1, <1>3
    <3>3. bytes[base + i].kind = "open"
      BY <1>1, <2>1
    <3>4. base + i \in OpensIn(bytes, base, base + n)
      BY <1>7, <3>2, <3>3
    <3> QED
      BY <3>1, <3>4
  <2> QED
    BY <2>2, <2>4, <2>5 DEF n
<1> QED
  BY <1>12, <1>13, <1>14

\* The fragments whose payload begins among the first n tokens.
Heard(fragments, bytes, n) == SubSeq(fragments, 1, Cardinality(OpensUpTo(bytes, n)))

\* The payloads' beginnings are finitely many, and grow by what begins in between.
LEMMA OpensFinite ==
  ASSUME NEW bytes, IsSequence(bytes)
  PROVE  /\ IsFiniteSet(Opens(bytes)) /\ Opens(bytes) \subseteq Nat
         /\ \A n : IsFiniteSet(OpensUpTo(bytes, n)) /\ Cardinality(OpensUpTo(bytes, n)) \in Nat
<1>1. Len(bytes) \in Nat /\ DOMAIN bytes = 1 .. Len(bytes)
  BY SequenceIs
<1>2. IsFiniteSet(1 .. Len(bytes)) /\ 1 .. Len(bytes) \subseteq Nat
  BY <1>1, FS_Interval
<1>3. Opens(bytes) \subseteq 1 .. Len(bytes) /\ \A n : OpensUpTo(bytes, n) \subseteq 1 .. Len(bytes)
  BY <1>1 DEF Opens, OpensUpTo
<1> QED
  BY <1>2, <1>3, FS_Subset, FS_CardinalityType

LEMMA OpensGrow ==
  ASSUME NEW bytes, IsSequence(bytes), NEW base \in Nat, NEW n \in Nat, base <= n
  PROVE  OpensUpTo(bytes, n) = OpensUpTo(bytes, base) \cup OpensIn(bytes, base, n)
<1>1. \A i \in DOMAIN bytes : i \in Nat
  BY SequenceIs
<1>2. \A i \in DOMAIN bytes : i <= n <=> i <= base \/ (i > base /\ i <= n)
  BY <1>1
<1> QED
  BY <1>2 DEF OpensUpTo, OpensIn

\* The next payload to begin is that of the next fragment.
LEMMA NextHeard ==
  ASSUME NEW fragments, NEW bytes, IsSequence(bytes), Payloads(fragments, bytes),
         NEW base \in Nat, NEW n \in Nat, base <= n, NEW p, OpensIn(bytes, base, n) = {p}
  PROVE  /\ Cardinality(OpensUpTo(bytes, base)) \in Nat
         /\ Cardinality(OpensUpTo(bytes, n)) = Cardinality(OpensUpTo(bytes, base)) + 1
         /\ IsSequence(fragments)
         /\ Cardinality(OpensUpTo(bytes, base)) + 1 \in 1 .. Len(fragments)
         /\ fragments[Cardinality(OpensUpTo(bytes, base)) + 1] = bytes[p].of
<1> DEFINE S == Opens(bytes)
           H == OpensUpTo(bytes, base)
           h == Cardinality(H)
<1>1. /\ IsFiniteSet(S) /\ S \subseteq Nat /\ IsFiniteSet(H) /\ h \in Nat
  BY OpensFinite
<1>2. p \in DOMAIN bytes /\ p > base /\ p <= n /\ bytes[p].kind = "open" /\ p \in Nat /\ p \in S
  <2>1. p \in DOMAIN bytes /\ p > base /\ p <= n /\ bytes[p].kind = "open"
    BY DEF OpensIn
  <2> QED
    BY <2>1, SequenceIs DEF Opens
<1>3. OpensUpTo(bytes, n) = H \cup {p}
  BY OpensGrow
<1>4. p \notin H
  BY <1>2 DEF OpensUpTo
<1>5. Cardinality(OpensUpTo(bytes, n)) = h + 1
  <2> HIDE DEF H
  <2> QED
    BY <1>1, <1>3, <1>4, FS_AddElement
<1>6. {k \in S : k < p} = H
  <2>1. ASSUME NEW k \in S, k < p PROVE k \in H
    <3>1. k \in DOMAIN bytes /\ bytes[k].kind = "open" /\ k \in Nat
      BY <1>1 DEF Opens
    <3>2. CASE k > base
      <4>1. k <= n
        BY <1>2, <2>1, <3>1
      <4>2. k \in OpensIn(bytes, base, n)
        BY <3>1, <3>2, <4>1 DEF OpensIn
      <4> QED
        BY <1>2, <2>1, <3>1, <4>2
    <3>3. CASE ~(k > base)
      BY <3>1, <3>3 DEF OpensUpTo
    <3> QED
      BY <3>2, <3>3
  <2>2. ASSUME NEW k \in H PROVE k \in S /\ k < p
    <3>1. k \in DOMAIN bytes /\ k <= base /\ bytes[k].kind = "open"
      BY DEF OpensUpTo
    <3>2. k \in Nat
      BY <3>1, SequenceIs
    <3> QED
      BY <1>2, <3>1, <3>2 DEF Opens
  <2> HIDE DEF S, H
  <2> QED
    BY <2>1, <2>2
<1>7. PlaceIn(S, p) = h + 1
  BY <1>6 DEF PlaceIn
<1>8. /\ Cardinality(S) \in Nat /\ h + 1 \in 1 .. Cardinality(S) /\ Ascending(S)[h + 1] = p
  <2> HIDE DEF S, h
  <2>1. /\ Cardinality(S) \in Nat /\ PlaceIn(S, p) \in 1 .. Cardinality(S)
        /\ Ascending(S)[PlaceIn(S, p)] = p
    BY <1>1, <1>2, AscendingIs
  <2> QED
    BY <1>7, <2>1
<1>9. fragments = [j \in 1 .. Cardinality(S) |-> bytes[Ascending(S)[j]].of]
  BY DEF Payloads
<1> HIDE DEF S, H, h
<1>10. fragments[h + 1] = bytes[p].of
  BY <1>8, <1>9
<1>11. IsSequence(fragments) /\ Len(fragments) = Cardinality(S)
  <2>1. fragments = [j \in 1 .. Cardinality(S) |-> fragments[j]]
    BY <1>9
  <2> QED
    BY <1>8, <2>1, SequenceMade
<1> QED
  BY <1>1, <1>5, <1>8, <1>10, <1>11 DEF h, H

\* Some of a sequence's beginning, and one more of it.
LEMMA Beginning ==
  ASSUME NEW s, IsSequence(s), NEW n \in 0 .. Len(s)
  PROVE  /\ DOMAIN SubSeq(s, 1, n) = 1 .. n /\ \A i \in 1 .. n : SubSeq(s, 1, n)[i] = s[i]
         /\ n + 1 \in 1 .. Len(s) => Extends(SubSeq(s, 1, n + 1), SubSeq(s, 1, n), n + 1)
<1>1. Len(s) \in Nat /\ n \in Nat
  BY SequenceIs
<1>2. ASSUME NEW k \in 0 .. Len(s)
      PROVE  DOMAIN SubSeq(s, 1, k) = 1 .. k /\ \A i \in 1 .. k : SubSeq(s, 1, k)[i] = s[i]
  <2>1. SubSeq(s, 1, k) = [i \in 1 .. k |-> s[i]]
    BY <1>1
  <2> QED
    BY <2>1
<1>3. ASSUME n + 1 \in 1 .. Len(s)
      PROVE  Extends(SubSeq(s, 1, n + 1), SubSeq(s, 1, n), n + 1)
  <2> DEFINE f == SubSeq(s, 1, n)
             g == SubSeq(s, 1, n + 1)
  <2>1. n + 1 \in Nat \ {0} /\ (n + 1) - 1 = n /\ n + 1 \in 0 .. Len(s)
    BY <1>1, <1>3
  <2>2. DOMAIN f = 1 .. n /\ \A i \in 1 .. n : f[i] = s[i]
    BY <1>2
  <2>3. DOMAIN g = 1 .. n + 1 /\ \A i \in 1 .. n + 1 : g[i] = s[i]
    BY <1>2, <2>1
  <2> HIDE DEF f, g
  <2>4. \A k \in DOMAIN f : g[k] = f[k]
    BY <1>1, <2>2, <2>3
  <2>5. Extends(g, f, n + 1)
    BY <2>1, <2>2, <2>3, <2>4 DEF Extends
  <2> QED
    BY <2>5 DEF f, g
<1> QED
  BY <1>2, <1>3

\* A block taken in leaves what is to be made of the fragments so far.
LEMMA BlockTaken ==
  ASSUME NEW fragments, NEW bytes, IsSequence(bytes), Payloads(fragments, bytes),
         NEW z \in LineEnds, Lines(bytes, z), NEW base, NEW block, IsBlock(block, bytes, base, z),
         NEW protocol, NEW d, DOMAIN d = DOMAIN NewDecoder, ~d.failed,
         d.assembly = AssemblyOf(protocol, Heard(fragments, bytes, base))
  PROVE  LET e == TakeBlock(protocol, d, block)
         IN  /\ DOMAIN e = DOMAIN NewDecoder /\ ~e.failed
             /\ e.buffer = d.buffer /\ e.total = d.total
             /\ e.assembly = AssemblyOf(protocol, Heard(fragments, bytes, base + Len(block)))
<1> DEFINE n == base + Len(block)
           e == TakeBlock(protocol, d, block)
           H == OpensUpTo(bytes, base)
           I == OpensUpTo(bytes, n)
           h == Cardinality(H)
<1>1. base \in Nat /\ n \in Nat /\ base <= n /\ Len(block) \in Nat
  BY DEF IsBlock
<1>2. \/ Data(block) = {} /\ OpensIn(bytes, base, n) = {}
      \/ \E i \in 1 .. Len(block) :
           /\ Data(block) = {i} /\ block[i] = Token("mark", NoPayload)
           /\ OpensIn(bytes, base, n) = {}
      \/ \E i \in 1 .. Len(block) :
           /\ Data(block) = {i, i + 1}
           /\ block[i] = Token("open", block[i].of)
           /\ block[i + 1] = Token("close", block[i].of)
           /\ OpensIn(bytes, base, n) = {base + i}
  BY BlockHolds
<1>3. I = H \cup OpensIn(bytes, base, n)
  BY <1>1, OpensGrow
<1>4. \A i \in 1 .. Len(block) : block[i] = bytes[base + i] /\ i \in Nat
  BY DEF IsBlock
<1>5. e = IF Ignored(block) THEN d
          ELSE IF Decodes(block)
               THEN [d EXCEPT !.assembly = Consume(protocol, @, block[First(Data(block))].of)]
               ELSE [d EXCEPT !.failed = TRUE]
  BY DEF TakeBlock
<1> HIDE DEF n, e, H, I
<1>6. ASSUME Ignored(block), OpensIn(bytes, base, n) = {}
      PROVE  /\ DOMAIN e = DOMAIN NewDecoder /\ ~e.failed
             /\ e.buffer = d.buffer /\ e.total = d.total
             /\ e.assembly = AssemblyOf(protocol, Heard(fragments, bytes, n))
  <2>1. I = H
    BY <1>3, <1>6
  <2>2. Heard(fragments, bytes, n) = Heard(fragments, bytes, base)
    BY <2>1 DEF Heard, I, H
  <2> QED
    BY <1>5, <1>6, <2>2
<1>7. CASE Data(block) = {} /\ OpensIn(bytes, base, n) = {}
  <2>1. Ignored(block)
    BY <1>7 DEF Ignored
  <2> QED
    BY <1>6, <1>7, <2>1 DEF e, n
<1>8. CASE \E i \in 1 .. Len(block) :
             /\ Data(block) = {i} /\ block[i] = Token("mark", NoPayload)
             /\ OpensIn(bytes, base, n) = {}
  <2>1. PICK i \in 1 .. Len(block) :
               /\ Data(block) = {i} /\ block[i] = Token("mark", NoPayload)
               /\ OpensIn(bytes, base, n) = {}
    BY <1>8
  <2>2. Ignored(block)
    BY <2>1 DEF Ignored
  <2> QED
    BY <1>6, <2>1, <2>2 DEF e, n
<1>9. CASE \E i \in 1 .. Len(block) :
              /\ Data(block) = {i, i + 1}
              /\ block[i] = Token("open", block[i].of)
              /\ block[i + 1] = Token("close", block[i].of)
              /\ OpensIn(bytes, base, n) = {base + i}
  <2>1. PICK i \in 1 .. Len(block) :
               /\ Data(block) = {i, i + 1}
               /\ block[i] = Token("open", block[i].of)
               /\ block[i + 1] = Token("close", block[i].of)
               /\ OpensIn(bytes, base, n) = {base + i}
    BY <1>9
  <2> DEFINE p == block[i].of
             f == SubSeq(fragments, 1, h)
             g == SubSeq(fragments, 1, h + 1)
  <2>2. i \in Nat /\ i < i + 1 /\ First(Data(block)) = i
    <3>1. i \in Nat /\ i + 1 \in Nat /\ i < i + 1 /\ ~(i + 1 <= i)
      BY <1>4
    <3>2. Data(block) \subseteq Nat /\ i \in Data(block)
      BY <2>1, <3>1
    <3>3. First(Data(block)) \in Data(block) /\ First(Data(block)) <= i
      BY <3>2, FirstIs
    <3> QED
      BY <2>1, <3>1, <3>3
  <2>3. /\ h \in Nat /\ Cardinality(I) = h + 1 /\ IsSequence(fragments)
        /\ h + 1 \in 1 .. Len(fragments) /\ fragments[h + 1] = bytes[base + i].of
    <3> DEFINE q == base + i
    <3>1. OpensIn(bytes, base, n) = {q}
      BY <2>1
    <3> HIDE DEF q
    <3>2. /\ Cardinality(OpensUpTo(bytes, base)) \in Nat
          /\ Cardinality(OpensUpTo(bytes, n)) = Cardinality(OpensUpTo(bytes, base)) + 1
          /\ IsSequence(fragments)
          /\ Cardinality(OpensUpTo(bytes, base)) + 1 \in 1 .. Len(fragments)
          /\ fragments[Cardinality(OpensUpTo(bytes, base)) + 1] = bytes[q].of
      <4>1. base \in Nat /\ n \in Nat /\ base <= n
        BY <1>1
      <4> HIDE DEF h
      <4> QED
        BY <3>1, <4>1, NextHeard, SMTT(60)
    <3> QED
      BY <3>2 DEF h, H, I, q
  <2>4. fragments[h + 1] = p
    BY <1>4, <2>3
  <2>5. h \in 0 .. Len(fragments)
    <3>1. Len(fragments) \in Nat
      BY <2>3, SequenceIs
    <3> HIDE DEF h
    <3> QED
      BY <2>3, <3>1
  <2>6. p.type \in {"text", "tool", "start", "usage"}
    <3>1. h + 1 \in DOMAIN fragments
      BY <2>3, SequenceIs
    <3> QED
      BY <2>4, <3>1 DEF Payloads
  <2> HIDE DEF h, p
  <2>7. Extends(g, f, h + 1) /\ g[h + 1] = p
    <3>1. Extends(g, f, h + 1)
      BY <2>3, <2>5, Beginning
    <3>2. h + 1 \in 0 .. Len(fragments) /\ h + 1 \in 1 .. h + 1
      BY <2>3
    <3>3. \A k \in 0 .. Len(fragments) : \A j \in 1 .. k : SubSeq(fragments, 1, k)[j] = fragments[j]
      BY <2>3, Beginning
    <3>4. g[h + 1] = fragments[h + 1]
      BY <3>2, <3>3
    <3> QED
      BY <2>4, <3>1, <3>4
  <2>16. Sequenced(g)
    <3>1. h + 1 \in 0 .. Len(fragments) /\ DOMAIN fragments = 1 .. Len(fragments)
      BY <2>3, SequenceIs
    <3>2. \A k \in 0 .. Len(fragments) :
            /\ DOMAIN SubSeq(fragments, 1, k) = 1 .. k
            /\ \A j \in 1 .. k : SubSeq(fragments, 1, k)[j] = fragments[j]
      BY <2>3, Beginning
    <3>3. Sequenced(fragments)
      BY DEF Payloads
    <3>4. \A j \in DOMAIN g : j \in DOMAIN fragments /\ g[j] = fragments[j]
      BY <3>1, <3>2
    <3> QED
      BY <3>3, <3>4 DEF Sequenced
  <2>8. AssemblyOf(protocol, g) = Consume(protocol, AssemblyOf(protocol, f), p)
    <3> HIDE DEF f, g
    <3> DEFINE k == h + 1
    <3>1. /\ Extends(g, f, k) /\ Sequenced(g) /\ g[k] = p
          /\ g[k].type \in {"text", "tool", "start", "usage"}
      BY <2>6, <2>7, <2>16
    <3> HIDE DEF k
    <3> QED
      BY <3>1, AssemblyGrows
  <2>9. f = Heard(fragments, bytes, base) /\ g = Heard(fragments, bytes, n)
    BY <2>3 DEF Heard, h, H, I
  <2>10. ~Ignored(block)
    <3>1. i \in Data(block) /\ i + 1 \in Data(block) /\ i # i + 1
      BY <2>1, <2>2
    <3> QED
      BY <3>1 DEF Ignored
  <2>11. Decodes(block) /\ block[First(Data(block))].of = p
    <3>1. p.type # "bad"
      BY <2>6
    <3>2. /\ i \in Data(block) /\ i + 1 \in Data(block) /\ i < i + 1
          /\ Data(block) = {i, i + 1} /\ block[i].of.type # "bad"
          /\ block[i] = Token("open", block[i].of) /\ block[i + 1] = Token("close", block[i].of)
      BY <2>1, <2>2, <3>1 DEF p
    <3>3. Decodes(block)
      BY <3>2 DEF Decodes
    <3> QED
      BY <2>2, <3>3 DEF p
  <2>12. e = [d EXCEPT !.assembly = Consume(protocol, d.assembly, p)]
    BY <1>5, <2>10, <2>11
  <2>13. Consume(protocol, d.assembly, p) = AssemblyOf(protocol, Heard(fragments, bytes, n))
    BY <2>8, <2>9
  <2> DEFINE y == AssemblyOf(protocol, Heard(fragments, bytes, n))
  <2>14. e = [d EXCEPT !.assembly = y]
    BY <2>12, <2>13
  <2> HIDE DEF y, f, g
  <2>15. /\ DOMAIN e = DOMAIN NewDecoder /\ ~e.failed
         /\ e.buffer = d.buffer /\ e.total = d.total /\ e.assembly = y
    BY <2>14 DEF NewDecoder
  <2> QED
    BY <2>15 DEF y, e, n
<1> QED
  BY <1>2, <1>7, <1>8, <1>9
-----------------------------------------------------------------------------
(* Pieces of a sequence *)

\* t is s from the place after i to the place j.
IsPiece(t, s, i, j) == /\ IsSequence(t) /\ Len(t) = j - i
                       /\ \A k \in 1 .. j - i : t[k] = s[i + k]

\* SubSeq cuts a piece; two of the same place are the same.
LEMMA PieceIs ==
  ASSUME NEW s, IsSequence(s), NEW i \in Nat, NEW j \in Nat, i <= j, j <= Len(s)
  PROVE  IsPiece(SubSeq(s, i + 1, j), s, i, j)
<1> DEFINE t == SubSeq(s, i + 1, j)
<1>1. s \in Seq(ToSet(s)) /\ Len(s) \in Nat
  BY DEF IsSequence
<1>2. j - i \in Nat
  OBVIOUS
<1>3. t \in Seq(ToSet(s)) /\ Len(t) = j - i /\ \A k \in 1 .. j - i : t[k] = s[i + k]
  <2> DEFINE U == ToSet(s)
  <2>1. s \in Seq(U)
    BY <1>1
  <2> HIDE DEF U
  <2>2. s \in [1 .. Len(s) -> U]
    BY <2>1
  <2>3. t = [k \in 1 .. j - i |-> s[k + i]]
    BY <1>1, <1>2
  <2>4. \A k \in 1 .. j - i : k + i \in 1 .. Len(s) /\ k + i = i + k
    BY <1>1, <1>2
  <2>5. t \in [1 .. j - i -> U]
    BY <2>2, <2>3, <2>4
  <2> HIDE DEF t
  <2>6. t \in Seq(U) /\ Len(t) = j - i
    BY <1>2, <2>5
  <2> QED
    BY <2>3, <2>4, <2>6 DEF U
<1> HIDE DEF t
<1>4. IsSequence(t)
  BY <1>3, SequenceTyped
<1> QED
  BY <1>3, <1>4 DEF IsPiece, t

LEMMA SamePiece ==
  ASSUME NEW s, NEW i, NEW j, NEW t, NEW u, IsPiece(t, s, i, j), IsPiece(u, s, i, j)
  PROVE  t = u
<1>1. /\ IsSequence(t) /\ IsSequence(u) /\ Len(t) = j - i /\ Len(u) = j - i
      /\ \A k \in 1 .. j - i : t[k] = s[i + k] /\ u[k] = s[i + k]
  BY DEF IsPiece
<1>2. \A k \in 1 .. Len(t) : t[k] = u[k]
  BY <1>1
<1> QED
  BY <1>1, <1>2, SameSequence

\* Pieces put together, and a piece of a piece.
LEMMA PiecesJoined ==
  ASSUME NEW s, NEW i \in Nat, NEW j \in Nat, NEW l \in Nat, i <= j, j <= l,
         NEW t, IsPiece(t, s, i, j), NEW u, IsPiece(u, s, j, l)
  PROVE  IsPiece(t \o u, s, i, l)
<1>1. /\ IsSequence(t) /\ IsSequence(u) /\ Len(t) = j - i /\ Len(u) = l - j
      /\ \A k \in 1 .. j - i : t[k] = s[i + k]
      /\ \A k \in 1 .. l - j : u[k] = s[j + k]
  BY DEF IsPiece
<1>2. IsSequence(t \o u) /\ Len(t \o u) = l - i
  <2>1. IsSequence(t \o u) /\ Len(t \o u) = Len(t) + Len(u)
    BY <1>1, SequencesJoined
  <2> QED
    BY <1>1, <2>1
<1>3. ASSUME NEW k \in 1 .. l - i PROVE (t \o u)[k] = s[i + k]
  <2>1. (t \o u)[k] = IF k <= Len(t) THEN t[k] ELSE u[k - Len(t)]
    <3>1. k \in 1 .. Len(t) + Len(u)
      BY <1>1
    <3> QED
      BY <1>1, <3>1, JoinedAt
  <2>2. CASE k <= Len(t)
    BY <1>1, <2>1, <2>2
  <2>3. CASE ~(k <= Len(t))
    <3>1. k - (j - i) \in 1 .. l - j /\ j + (k - (j - i)) = i + k
      BY <1>1, <2>3
    <3> QED
      BY <1>1, <2>1, <2>3, <3>1
  <2> QED
    BY <2>2, <2>3
<1> QED
  BY <1>2, <1>3 DEF IsPiece

LEMMA PieceOfPiece ==
  ASSUME NEW s, NEW i \in Nat, NEW j \in Nat, i <= j, NEW t, IsPiece(t, s, i, j),
         NEW a \in Nat, NEW b \in Nat, a <= b, b <= j - i
  PROVE  IsPiece(SubSeq(t, a + 1, b), s, i + a, i + b)
<1>1. /\ IsSequence(t) /\ Len(t) = j - i /\ \A k \in 1 .. j - i : t[k] = s[i + k]
  BY DEF IsPiece
<1> DEFINE u == SubSeq(t, a + 1, b)
<1>2. IsPiece(u, t, a, b)
  BY <1>1, PieceIs
<1>3. /\ IsSequence(u) /\ Len(u) = b - a /\ \A k \in 1 .. b - a : u[k] = t[a + k]
  BY <1>2 DEF IsPiece
<1> HIDE DEF u
<1>4. ASSUME NEW k \in 1 .. (i + b) - (i + a) PROVE u[k] = s[(i + a) + k]
  <2>1. k \in 1 .. b - a /\ a + k \in 1 .. j - i /\ i + (a + k) = (i + a) + k
    OBVIOUS
  <2> QED
    BY <1>1, <1>3, <2>1
<1>5. Len(u) = (i + b) - (i + a)
  BY <1>3
<1> QED
  BY <1>3, <1>4, <1>5 DEF IsPiece, u
-----------------------------------------------------------------------------
(* The decoder at work *)

\* Of what was read of a stream the decoder has taken in the blocks up to base,
\* the end of a line, and keeps the rest.
Buffered(reply, d, read, base) ==
  /\ base \in Nat /\ read \in Nat /\ base <= read /\ read <= Len(reply.bytes)
  /\ base = 0 \/ reply.bytes[base].kind \in LineEnds
  /\ IsPiece(d.buffer, reply.bytes, base, read)
  /\ d.assembly = AssemblyOf(reply.protocol, Heard(reply.fragments, reply.bytes, base))
  /\ d.total = read /\ ~d.failed /\ DOMAIN d = DOMAIN NewDecoder

\* The decoder starts with nothing read and nothing taken in,
LEMMA DecoderStarts ==
  ASSUME NEW reply, IsSequence(reply.bytes), IsSequence(reply.fragments)
  PROVE  Buffered(reply, NewDecoder, 0, 0)
<1> DEFINE bytes == reply.bytes
           heard == Heard(reply.fragments, bytes, 0)
<1>1. Len(bytes) \in Nat /\ DOMAIN bytes = 1 .. Len(bytes)
  BY SequenceIs
<1>2. OpensUpTo(bytes, 0) = {}
  BY <1>1 DEF OpensUpTo
<1>3. Cardinality(OpensUpTo(bytes, 0)) = 0
  BY <1>2, FS_EmptySet
<1>4. DOMAIN heard = {}
  <2>1. heard = SubSeq(reply.fragments, 1, 0)
    BY <1>3 DEF Heard
  <2>2. DOMAIN SubSeq(reply.fragments, 1, 0) = 1 .. 0
    <3>1. Len(reply.fragments) \in Nat
      BY SequenceIs
    <3>2. 0 \in 0 .. Len(reply.fragments)
      BY <3>1
    <3> QED
      BY <3>2, Beginning
  <2> QED
    BY <2>1, <2>2
<1>5. AssemblyOf(reply.protocol, heard) = NewAssembly
  <2> HIDE DEF heard
  <2> QED
    BY <1>4, AssemblyOfNothing
<1>6. IsPiece(<<>>, bytes, 0, 0)
  <2>1. Len(<<>>) = 0 - 0 /\ 1 .. 0 - 0 = {}
    OBVIOUS
  <2> QED
    BY <2>1, EmptySequence DEF IsPiece
<1>7. /\ NewDecoder.buffer = <<>> /\ NewDecoder.assembly = NewAssembly
      /\ NewDecoder.total = 0 /\ ~NewDecoder.failed
  BY DEF NewDecoder
<1> QED
  BY <1>1, <1>5, <1>6, <1>7 DEF Buffered

\* a chunk goes to the end of its buffer,
LEMMA ChunkFills ==
  ASSUME NEW reply, IsSequence(reply.bytes), NEW d, NEW read, NEW base,
         Buffered(reply, d, read, base), NEW limit, NEW n \in 1 .. Len(reply.bytes) - read
  PROVE  LET e == Filled(limit, d, SubSeq(reply.bytes, read + 1, read + n))
         IN  /\ read + n > limit => e.failed
             /\ ~(read + n > limit) => Buffered(reply, e, read + n, base)
<1> DEFINE bytes == reply.bytes
           chunk == SubSeq(bytes, read + 1, read + n)
           e == Filled(limit, d, chunk)
<1>1. /\ base \in Nat /\ read \in Nat /\ base <= read /\ read <= Len(bytes)
      /\ base = 0 \/ bytes[base].kind \in LineEnds
      /\ IsPiece(d.buffer, bytes, base, read)
      /\ d.assembly = AssemblyOf(reply.protocol, Heard(reply.fragments, bytes, base))
      /\ d.total = read /\ ~d.failed /\ DOMAIN d = DOMAIN NewDecoder
  BY DEF Buffered
<1>2. /\ Len(bytes) \in Nat /\ n \in Nat /\ read + n \in Nat
      /\ read <= read + n /\ read + n <= Len(bytes)
  <2>1. Len(bytes) \in Nat
    BY SequenceIs
  <2>2. read \in Nat /\ read <= Len(bytes)
    BY <1>1
  <2> HIDE DEF bytes
  <2>3. n \in 1 .. Len(bytes) - read
    BY DEF bytes
  <2> QED
    BY <2>1, <2>2, <2>3
<1>3. IsPiece(chunk, bytes, read, read + n)
  <2> HIDE DEF bytes
  <2>1. IsSequence(bytes)
    BY DEF bytes
  <2> DEFINE m == read + n
  <2>2. m \in Nat /\ read <= m /\ m <= Len(bytes) /\ read \in Nat
    BY <1>1, <1>2
  <2> HIDE DEF m
  <2>3. IsPiece(SubSeq(bytes, read + 1, m), bytes, read, m)
    BY <2>1, <2>2, PieceIs
  <2> QED
    BY <2>3 DEF m
<1>4. Len(chunk) = n
  <2> HIDE DEF chunk, bytes
  <2>1. Len(chunk) = (read + n) - read
    BY <1>3 DEF IsPiece
  <2> QED
    BY <1>1, <1>2, <2>1
<1>5. IsPiece(d.buffer \o chunk, bytes, base, read + n)
  <2> HIDE DEF chunk, bytes
  <2> QED
    BY <1>1, <1>2, <1>3, PiecesJoined
<1> HIDE DEF chunk, bytes
<1>6. e = IF read + n > limit THEN [d EXCEPT !.total = read + n, !.failed = TRUE]
          ELSE [d EXCEPT !.total = read + n, !.buffer = @ \o chunk]
  BY <1>1, <1>4 DEF Filled
<1>7. ASSUME read + n > limit PROVE e.failed
  BY <1>1, <1>6, <1>7 DEF NewDecoder
<1>8. ASSUME ~(read + n > limit) PROVE Buffered(reply, e, read + n, base)
  <2> DEFINE b == d.buffer \o chunk
             m == read + n
  <2>1. e = [d EXCEPT !.total = m, !.buffer = b]
    BY <1>6, <1>8
  <2> HIDE DEF b, m, e
  <2>2. /\ e.total = m /\ e.buffer = b /\ e.assembly = d.assembly /\ ~e.failed
        /\ DOMAIN e = DOMAIN NewDecoder
    BY <1>1, <2>1 DEF NewDecoder
  <2>3. IsPiece(e.buffer, bytes, base, m)
    BY <1>5, <2>2 DEF b, m
  <2>4. m \in Nat /\ base <= m /\ m <= Len(bytes)
    BY <1>1, <1>2 DEF m
  <2>5. Buffered(reply, e, m, base)
    BY <1>1, <2>2, <2>3, <2>4 DEF Buffered, bytes
  <2> QED
    BY <2>5 DEF m
<1> QED
  BY <1>7, <1>8 DEF e, chunk, bytes

\* Where a buffer has empty lines.
EmptyLines(buffer, z) == {i \in 1 .. Len(buffer) - 1 :
                            buffer[i].kind = z /\ buffer[i + 1].kind = z}

\* What a buffer has of a stream whose lines end in z.
LEMMA BufferHas ==
  ASSUME NEW bytes, IsSequence(bytes), NEW z \in LineEnds, Lines(bytes, z),
         NEW buffer, NEW base \in Nat, NEW read \in Nat, base <= read, read <= Len(bytes),
         IsPiece(buffer, bytes, base, read), base = 0 \/ bytes[base].kind \in LineEnds
  PROVE  /\ base = 0 \/ bytes[base].kind = z
         /\ Separators(buffer) = EmptyLines(buffer, z)
<1>1. /\ IsSequence(buffer) /\ Len(buffer) = read - base
      /\ \A k \in 1 .. read - base : buffer[k] = bytes[base + k]
  BY DEF IsPiece
<1>2. \A i \in 1 .. Len(bytes) : bytes[i].kind \in {"open", "close", "mark", "other", z}
  BY SequenceIs DEF Lines
<1>3. Len(bytes) \in Nat
  BY SequenceIs
<1>4. base = 0 \/ bytes[base].kind = z
  <2>1. base # 0 => base \in 1 .. Len(bytes)
    BY <1>3
  <2> QED
    BY <1>2, <2>1 DEF LineEnds
<1>5. \A i \in 1 .. Len(buffer) : buffer[i].kind \in {"open", "close", "mark", "other", z}
  <2> SUFFICES ASSUME NEW i \in 1 .. Len(buffer)
               PROVE  buffer[i].kind \in {"open", "close", "mark", "other", z}
    OBVIOUS
  <2>1. i \in 1 .. read - base
    BY <1>1
  <2>2. base + i \in 1 .. Len(bytes)
    BY <1>3, <2>1
  <2> QED
    BY <1>1, <1>2, <2>1, <2>2
<1>6. Len(buffer) \in Nat
  BY <1>1, SequenceIs
<1> QED
  BY <1>4, <1>5, <1>6, SeparatorsAre DEF EmptyLines

\* A block that is complete is taken in and leaves the buffer,
LEMMA BlockGoes ==
  ASSUME NEW reply, IsSequence(reply.bytes), WholeStream(reply.fragments, reply.bytes),
         NEW d, NEW read, NEW base, Buffered(reply, d, read, base), Separators(d.buffer) # {}
  PROVE  \E after \in Nat : Buffered(reply, NextBlock(reply.protocol, d), read, after)
<1> DEFINE bytes == reply.bytes
           fragments == reply.fragments
           protocol == reply.protocol
           buffer == d.buffer
           end == First(Separators(buffer))
           block == SubSeq(buffer, 1, end - 1)
           rest == SubSeq(buffer, end + 2, Len(buffer))
           c == [d EXCEPT !.buffer = rest]
           e == TakeBlock(protocol, c, block)
           m == base + (end - 1)
           after == base + (end + 1)
<1>1. /\ base \in Nat /\ read \in Nat /\ base <= read /\ read <= Len(bytes)
      /\ base = 0 \/ bytes[base].kind \in LineEnds
      /\ IsPiece(buffer, bytes, base, read)
      /\ d.assembly = AssemblyOf(protocol, Heard(fragments, bytes, base))
      /\ d.total = read /\ ~d.failed /\ DOMAIN d = DOMAIN NewDecoder
  BY DEF Buffered
<1>2. Payloads(fragments, bytes) /\ IsSequence(bytes)
  BY StreamIs
<1>3. PICK z \in LineEnds : Lines(bytes, z)
  BY StreamIs
<1>4. NextBlock(protocol, d) = e
  BY DEF NextBlock
<1>5. Separators(buffer) # {}
  OBVIOUS
<1> HIDE DEF bytes, fragments, protocol, buffer
<1>6. /\ base = 0 \/ bytes[base].kind = z
      /\ Separators(buffer) = {i \in 1 .. Len(buffer) - 1 :
                                 buffer[i].kind = z /\ buffer[i + 1].kind = z}
  <2>1. (base = 0 \/ bytes[base].kind = z) /\ Separators(buffer) = EmptyLines(buffer, z)
    BY <1>1, <1>2, <1>3, BufferHas
  <2> QED
    BY <2>1 DEF EmptyLines
<1>7. /\ IsSequence(buffer) /\ Len(buffer) = read - base
      /\ \A k \in 1 .. read - base : buffer[k] = bytes[base + k]
  BY <1>1 DEF IsPiece
<1>8. /\ end \in Separators(buffer) /\ \A i \in Separators(buffer) : end <= i
  <2>1. Separators(buffer) \subseteq Nat
    BY <1>6
  <2> QED
    BY <1>5, <2>1, FirstIs
<1> HIDE DEF end
<1>9. /\ end \in 1 .. (read - base) - 1 /\ buffer[end].kind = z /\ buffer[end + 1].kind = z
  BY <1>6, <1>7, <1>8
<1>10. /\ end - 1 \in Nat /\ end + 1 \in Nat /\ end + 1 <= read - base /\ end \in Nat
       /\ m \in Nat /\ after \in Nat /\ m <= after /\ after <= read /\ base <= m
       /\ read - base \in Nat
  BY <1>1, <1>9
<1>11. IsPiece(block, bytes, base, m)
  <2>1. 0 \in Nat /\ 0 <= end - 1 /\ end - 1 <= read - base /\ 0 + 1 = 1 /\ base + 0 = base
    BY <1>1, <1>10
  <2>2. IsPiece(SubSeq(buffer, 0 + 1, end - 1), bytes, base + 0, base + (end - 1))
    BY <1>1, <1>10, <2>1, PieceOfPiece
  <2> QED
    BY <2>1, <2>2
<1>12. IsPiece(rest, bytes, after, read)
  <2>1. (end + 1) + 1 = end + 2 /\ base + (read - base) = read /\ read - base <= read - base
    BY <1>1, <1>10
  <2>2. IsPiece(SubSeq(buffer, (end + 1) + 1, read - base), bytes, base + (end + 1),
                base + (read - base))
    BY <1>1, <1>10, <2>1, PieceOfPiece
  <2> QED
    BY <1>7, <2>1, <2>2
<1> HIDE DEF block, rest
<1>13. /\ IsSequence(block) /\ Len(block) = end - 1 /\ base + Len(block) = m
       /\ \A k \in 1 .. end - 1 : block[k] = bytes[base + k]
       /\ DOMAIN block = 1 .. Len(block)
  <2>1. /\ IsSequence(block) /\ Len(block) = m - base
        /\ \A k \in 1 .. m - base : block[k] = bytes[base + k]
    BY <1>11 DEF IsPiece
  <2>2. m - base = end - 1
    BY <1>1, <1>10
  <2> HIDE DEF m
  <2>3. DOMAIN block = 1 .. Len(block)
    BY <2>1, SequenceIs
  <2> QED
    BY <2>1, <2>2, <2>3 DEF m
<1>14. /\ bytes[m + 1].kind = z /\ bytes[m + 2].kind = z /\ m + 2 = after
       /\ m + 2 <= Len(bytes)
  <2>1. base + end = m + 1 /\ base + (end + 1) = m + 2
    BY <1>1, <1>10
  <2>2. end \in 1 .. read - base /\ end + 1 \in 1 .. read - base
    BY <1>1, <1>9
  <2>3. buffer[end] = bytes[m + 1] /\ buffer[end + 1] = bytes[m + 2]
    BY <1>7, <2>1, <2>2
  <2>4. m + 2 = after
    BY <2>1
  <2>5. Len(bytes) \in Nat
    BY <1>2, SequenceIs
  <2> HIDE DEF m, after
  <2>6. after <= Len(bytes)
    BY <1>1, <1>10, <2>5
  <2> QED
    BY <1>9, <2>3, <2>4, <2>6
<1>15. IsBlock(block, bytes, base, z)
  <2>1. ASSUME NEW i \in 1 .. Len(block) - 1, block[i].kind = z, block[i + 1].kind = z PROVE FALSE
    <3>1. /\ i \in 1 .. end - 1 /\ i + 1 \in 1 .. end - 1 /\ i < end
          /\ i \in 1 .. read - base /\ i + 1 \in 1 .. read - base /\ i \in 1 .. Len(buffer) - 1
      <4>1. Len(block) = end - 1 /\ Len(buffer) = read - base
        BY <1>7, <1>13
      <4>2. end \in Nat /\ read - base \in Nat /\ end + 1 <= read - base
        BY <1>10
      <4>3. i \in 1 .. (end - 1) - 1
        BY <4>1
      <4> HIDE DEF m, after, c, e
      <4> QED
        BY <4>1, <4>2, <4>3
    <3>2. block[i] = buffer[i] /\ block[i + 1] = buffer[i + 1]
      BY <1>7, <1>13, <3>1
    <3>3. i \in Separators(buffer)
      BY <1>6, <2>1, <3>1, <3>2
    <3> QED
      BY <1>8, <1>10, <3>1, <3>3
  <2>2. Len(block) \in Nat /\ base + Len(block) <= Len(bytes)
    <3>1. Len(bytes) \in Nat
      BY <1>2, SequenceIs
    <3> HIDE DEF m
    <3> QED
      BY <1>10, <1>13, <1>14, <3>1
  <2>3. bytes[base + Len(block) + 1].kind = z
    <3> HIDE DEF m
    <3> QED
      BY <1>13, <1>14
  <2>4. \A i \in 1 .. Len(block) : block[i] = bytes[base + i]
    BY <1>13
  <2>5. \A i \in 1 .. Len(block) - 1 : ~(block[i].kind = z /\ block[i + 1].kind = z)
    BY <2>1
  <2> QED
    BY <1>1, <1>6, <1>13, <2>2, <2>3, <2>4, <2>5 DEF IsBlock
<1>16. /\ DOMAIN c = DOMAIN NewDecoder /\ ~c.failed /\ c.buffer = rest /\ c.total = read
       /\ c.assembly = AssemblyOf(protocol, Heard(fragments, bytes, base))
  BY <1>1 DEF NewDecoder
<1> HIDE DEF c
<1>17. /\ DOMAIN e = DOMAIN NewDecoder /\ ~e.failed /\ e.buffer = rest /\ e.total = read
       /\ e.assembly = AssemblyOf(protocol, Heard(fragments, bytes, m))
  <2>1. LET x == TakeBlock(protocol, c, block)
        IN  /\ DOMAIN x = DOMAIN NewDecoder /\ ~x.failed
            /\ x.buffer = c.buffer /\ x.total = c.total
            /\ x.assembly = AssemblyOf(protocol, Heard(fragments, bytes, base + Len(block)))
    BY <1>2, <1>3, <1>15, <1>16, BlockTaken
  <2> QED
    BY <1>13, <1>16, <2>1
<1> HIDE DEF e
<1>18. Heard(fragments, bytes, after) = Heard(fragments, bytes, m)
  <2>1. OpensUpTo(bytes, after) = OpensUpTo(bytes, m) \cup OpensIn(bytes, m, after)
    <3> HIDE DEF m, after
    <3> QED
      BY <1>2, <1>10, OpensGrow
  <2>2. OpensIn(bytes, m, after) = {}
    <3>1. ASSUME NEW i \in DOMAIN bytes, i > m, i <= after, bytes[i].kind = "open" PROVE FALSE
      <4>1. i \in Nat
        BY <1>2, SequenceIs
      <4> HIDE DEF m, after
      <4>2. i = m + 1 \/ i = m + 2
        BY <1>10, <1>14, <3>1, <4>1
      <4> QED
        BY <1>14, <3>1, <4>2 DEF LineEnds
    <3> QED
      BY <3>1 DEF OpensIn
  <2> QED
    BY <2>1, <2>2 DEF Heard
<1> HIDE DEF m
<1>19. after = 0 \/ bytes[after].kind \in LineEnds
  BY <1>14
<1>20. Buffered(reply, e, read, after)
  <2> HIDE DEF after
  <2> QED
    BY <1>1, <1>10, <1>12, <1>17, <1>18, <1>19 DEF Buffered, bytes, fragments, protocol
<1> QED
  BY <1>4, <1>10, <1>20 DEF protocol

\* and at the end of the stream the last one is, and the answer is there.
LEMMA StreamCompletes ==
  ASSUME NEW reply, IsSequence(reply.bytes), WholeStream(reply.fragments, reply.bytes),
         reply.stream, NEW d, NEW read, read = Len(reply.bytes), NEW base,
         Buffered(reply, d, read, base), Separators(d.buffer) = {}
  PROVE  Complete(reply.protocol, d)
           = [messages |-> AnswerMessages(reply), usage |-> AnswerUsage(reply)]
<1> DEFINE bytes == reply.bytes
           fragments == reply.fragments
           protocol == reply.protocol
           buffer == d.buffer
           e == TakeBlock(protocol, d, buffer)
           n == Cardinality(Opens(bytes))
<1>1. /\ base \in Nat /\ read \in Nat /\ base <= read /\ read <= Len(bytes)
      /\ base = 0 \/ bytes[base].kind \in LineEnds
      /\ IsPiece(buffer, bytes, base, read)
      /\ d.assembly = AssemblyOf(protocol, Heard(fragments, bytes, base))
      /\ d.total = read /\ ~d.failed /\ DOMAIN d = DOMAIN NewDecoder
  BY DEF Buffered
<1>2. Payloads(fragments, bytes) /\ IsSequence(bytes) /\ read = Len(bytes)
  BY StreamIs
<1>3. PICK z \in LineEnds : Lines(bytes, z)
  BY StreamIs
<1>4. Complete(protocol, d) = IF e.failed THEN Spoiled ELSE Assembled(e.assembly)
  BY DEF Complete
<1>5. Separators(buffer) = {}
  OBVIOUS
<1> HIDE DEF bytes, fragments, protocol, buffer
<1>6. /\ base = 0 \/ bytes[base].kind = z
      /\ Separators(buffer) = {i \in 1 .. Len(buffer) - 1 :
                                 buffer[i].kind = z /\ buffer[i + 1].kind = z}
  <2>1. IsSequence(bytes) /\ IsPiece(buffer, bytes, base, read)
        /\ (base = 0 \/ bytes[base].kind \in LineEnds)
    BY <1>1, <1>2
  <2>2. base \in Nat /\ read \in Nat /\ base <= read /\ read <= Len(bytes)
    BY <1>1
  <2>3. (base = 0 \/ bytes[base].kind = z) /\ Separators(buffer) = EmptyLines(buffer, z)
    BY <1>3, <2>1, <2>2, BufferHas
  <2> QED
    BY <2>3 DEF EmptyLines
<1>7. /\ IsSequence(buffer) /\ Len(buffer) = read - base
      /\ \A k \in 1 .. read - base : buffer[k] = bytes[base + k]
  BY <1>1 DEF IsPiece
<1>8. base + Len(buffer) = Len(bytes) /\ Len(buffer) \in Nat /\ DOMAIN buffer = 1 .. Len(buffer)
  <2>1. Len(buffer) \in Nat /\ DOMAIN buffer = 1 .. Len(buffer)
    BY <1>7, SequenceIs
  <2> QED
    BY <1>1, <1>2, <1>7, <2>1
<1>9. IsBlock(buffer, bytes, base, z)
  <2>1. \A i \in 1 .. Len(buffer) : buffer[i] = bytes[base + i]
    BY <1>7
  <2>2. \A i \in 1 .. Len(buffer) - 1 : ~(buffer[i].kind = z /\ buffer[i + 1].kind = z)
    BY <1>5, <1>6
  <2>3. Len(bytes) \in Nat
    BY <1>2, SequenceIs
  <2>4. base + Len(buffer) <= Len(bytes)
    BY <1>8, <2>3
  <2> QED
    BY <1>1, <1>6, <1>8, <2>1, <2>2, <2>4 DEF IsBlock
<1>10. ~e.failed /\ e.assembly = AssemblyOf(protocol, Heard(fragments, bytes, Len(bytes)))
  <2>1. LET x == TakeBlock(protocol, d, buffer)
        IN  /\ DOMAIN x = DOMAIN NewDecoder /\ ~x.failed
            /\ x.buffer = d.buffer /\ x.total = d.total
            /\ x.assembly = AssemblyOf(protocol, Heard(fragments, bytes, base + Len(buffer)))
    BY <1>1, <1>2, <1>3, <1>9, BlockTaken
  <2> QED
    BY <1>8, <2>1
<1> HIDE DEF e
<1>11. OpensUpTo(bytes, Len(bytes)) = Opens(bytes)
  <2>1. \A i \in DOMAIN bytes : i <= Len(bytes)
    BY <1>2, SequenceIs
  <2> QED
    BY <2>1 DEF OpensUpTo, Opens
<1>12. n \in Nat
  BY <1>2, OpensFinite, FS_CardinalityType
<1>13. fragments = [j \in 1 .. n |-> fragments[j]] /\ \A j \in 1 .. n : fragments[j].at \in Nat
  <2>1. fragments = [j \in 1 .. n |-> bytes[Ascending(Opens(bytes))[j]].of]
    BY <1>2 DEF Payloads
  <2> HIDE DEF n
  <2>2. DOMAIN fragments = 1 .. n
    BY <2>1
  <2> QED
    BY <1>2, <2>1, <2>2 DEF Payloads
<1>14. Heard(fragments, bytes, Len(bytes)) = fragments
  <2>1. Heard(fragments, bytes, Len(bytes)) = SubSeq(fragments, 1, n)
    BY <1>11 DEF Heard
  <2> HIDE DEF n
  <2>2. IsSequence(fragments) /\ Len(fragments) = n
    BY <1>12, <1>13, SequenceMade
  <2>3. SubSeq(fragments, 1, n) = fragments
    <3>1. fragments \in Seq(ToSet(fragments))
      BY <2>2 DEF IsSequence
    <3>2. SubSeq(fragments, 1, n) = [i \in 1 .. n |-> fragments[i]]
      BY <1>12, <2>2, <3>1
    <3> QED
      BY <1>13, <3>2
  <2> QED
    BY <2>1, <2>3
<1>15. DOMAIN fragments = 1 .. n
  <2> HIDE DEF n
  <2> QED
    BY <1>13
<1>16. Assembled(AssemblyOf(protocol, fragments))
         = [messages |-> AnswerMessages(reply), usage |-> AnswerUsage(reply)]
  <2> HIDE DEF n
  <2>1. DOMAIN reply.fragments = 1 .. n /\ \A k \in 1 .. n : reply.fragments[k].at \in Nat
    BY <1>13, <1>15 DEF fragments
  <2>2. Assembled(AssemblyOf(reply.protocol, reply.fragments))
          = [messages |-> AnswerMessages(reply), usage |-> AnswerUsage(reply)]
    BY <1>12, <2>1, AssembledIs
  <2> QED
    BY <2>2 DEF protocol, fragments
<1>17. Complete(protocol, d) = Assembled(e.assembly)
  BY <1>4, <1>10
<1> QED
  BY <1>10, <1>14, <1>16, <1>17 DEF protocol
-----------------------------------------------------------------------------
(* What is taken down of a whole answer *)

\* A body that was read whole, and the one report it may have.
LEMMA BodyParses ==
  ASSUME NEW reply, ~reply.stream, IsSequence(reply.fragments),
         WholeBody(reply.fragments, reply.bytes)
  PROVE  ParseResponse(reply.protocol, reply.bytes, reply.fragments)
           = [messages |-> AnswerMessages(reply), usage |-> AnswerUsage(reply)]
<1> DEFINE f == reply.fragments
           said == Picked(f, Places(f, {"text", "tool"}))
           messages == [i \in DOMAIN said |->
                          [role |-> IF said[i].type = "tool" THEN "tool" ELSE "assistant",
                           text |-> <<said[i].text>>]]
           reports == Places(f, {"usage"})
           usage(counts) == IF reply.protocol = "anthropic" THEN AnthropicUsage(Unavailable, counts)
                            ELSE OpenAIUsage(Unavailable, counts)
           naming(n) == {k \in reports : n \in DOMAIN f[k].counts}
           named == UNION {DOMAIN f[k].counts : k \in reports}
<1>1. reply.bytes = Body
  BY DEF WholeBody
<1>2. AnswerMessages(reply) = messages
  BY DEF AnswerMessages, BodyAnswer
<1>3. reports = {i \in DOMAIN f : f[i].type = "usage"}
  BY DEF Places
<1>4. Places(f, {"text", "tool"}) = {i \in DOMAIN f : f[i].type \in {"text", "tool"}}
  BY DEF Places
<1>5. ParseResponse(reply.protocol, reply.bytes, f)
        = [messages |-> messages,
           usage |-> IF reports = {} THEN Unavailable ELSE usage(f[Max(reports)].counts)]
  <2> HIDE DEF usage
  <2> QED
    BY <1>1, <1>3, <1>4 DEF ParseResponse, usage
<1>6. AnswerUsage(reply) =
        IF reports = {} THEN Unavailable
        ELSE [precision |-> "exact",
              counts |-> IF reply.protocol = "anthropic"
                         THEN [n \in named |-> f[Max(naming(n))].counts[n]]
                         ELSE f[Max(reports)].counts]
  BY DEF AnswerUsage
<1>7. ASSUME reports # {} PROVE AnswerUsage(reply) = usage(f[Max(reports)].counts)
  <2>1. PICK p \in reports : TRUE
    BY <1>7
  <2>2. \A k \in reports : k = p
    <3>1. \A i, j \in DOMAIN f : f[i].type = "usage" /\ f[j].type = "usage" => i = j
      BY DEF WholeBody
    <3> QED
      BY <1>3, <2>1, <3>1
  <2>3. reports = {p}
    BY <2>1, <2>2
  <2>4. p \in Nat
    <3>1. p \in DOMAIN f
      BY <1>3, <2>1
    <3> QED
      BY <3>1, SequenceIs
  <2>5. Max({p}) = p
    <3> DEFINE T == {p}
    <3>1. T \subseteq 0 .. p /\ T # {}
      BY <2>4
    <3>2. Max(T) \in T
      <4> HIDE DEF T
      <4> QED
        BY <2>4, <3>1, MaxIs
    <3> QED
      BY <3>2
  <2> DEFINE counts == f[p].counts
  <2>6. Max(reports) = p
    BY <2>3, <2>5
  <2>7. CASE reply.protocol # "anthropic"
    <3>1. AnswerUsage(reply) = [precision |-> "exact", counts |-> counts]
      <4> HIDE DEF reports, naming, named
      <4> QED
        BY <1>6, <1>7, <2>6, <2>7
    <3>2. usage(f[Max(reports)].counts) = [precision |-> "exact", counts |-> counts]
      BY <2>6, <2>7 DEF OpenAIUsage
    <3> QED
      BY <3>1, <3>2
  <2>8. CASE reply.protocol = "anthropic"
    <3> DEFINE known == [n \in named |-> f[Max(naming(n))].counts[n]]
               one == [n \in DOMAIN counts |-> counts[n]]
    <3>1. AnswerUsage(reply) = [precision |-> "exact", counts |-> known]
      <4> HIDE DEF reports, naming, named, known
      <4> QED
        BY <1>6, <1>7, <2>8 DEF known
    <3>2. named = DOMAIN counts
      BY <2>3
    <3>3. \A n \in named : naming(n) = {p}
      BY <2>3, <3>2
    <3>4. \A n \in named : f[Max(naming(n))].counts[n] = counts[n]
      BY <2>5, <3>3
    <3>5. known = one
      <4> HIDE DEF named, naming, counts
      <4> QED
        BY <3>2, <3>4
    <3>6. usage(f[Max(reports)].counts) = [precision |-> "exact", counts |-> one]
      <4>1. usage(counts) = AnthropicUsage(Unavailable, counts)
        BY <2>8
      <4>2. DOMAIN Unavailable.counts = {}
        BY DEF Unavailable
      <4> HIDE DEF counts
      <4>3. [c \in DOMAIN Unavailable.counts \cup DOMAIN counts |->
               IF c \in DOMAIN counts THEN counts[c] ELSE Unavailable.counts[c]]
              = [c \in DOMAIN counts |-> counts[c]]
        BY <4>2
      <4>4. AnthropicUsage(Unavailable, counts) = [precision |-> "exact", counts |-> one]
        BY <4>3 DEF AnthropicUsage
      <4> QED
        BY <2>6, <4>1, <4>4 DEF counts
    <3> QED
      BY <3>1, <3>5, <3>6
  <2> QED
    BY <2>7, <2>8
<1> HIDE DEF messages, reports, usage, f
<1>8. reports = {} => AnswerUsage(reply) = Unavailable
  BY <1>6
<1> QED
  BY <1>2, <1>5, <1>7, <1>8 DEF f

\* The replies of the scenarios.
Given(reply) == /\ IsSequence(reply.bytes) /\ IsSequence(reply.fragments)
                /\ reply.whole => WellFormed(reply)

\* A call that is not there yet has taken down nothing.
Fresh(k) == k.read = 0 /\ k.decoder = NewDecoder /\ k.body = <<>> /\ k.capturing

\* All that was read is in the decoder or the body, up to the limit; between two
\* chunks the decoder has taken in every whole block.
InDecoder(k) == /\ k.read <= CaptureLimit
                /\ \E base \in 0 .. k.read : Buffered(k.reply, k.decoder, k.read, base)

StreamHeld(k) ==
  IF k.step = "adding"
  THEN k.capturing /\ IF k.decoder.failed THEN k.read > CaptureLimit ELSE InDecoder(k)
  ELSE IF k.capturing THEN InDecoder(k) /\ Separators(k.decoder.buffer) = {}
  ELSE k.read > CaptureLimit

\* Of a body the buffer has what was read, or there was too much of it.
BodyHeld(k) ==
  /\ k.step # "adding"
  /\ IF k.capturing THEN k.read <= CaptureLimit /\ IsPiece(k.body, k.reply.bytes, 0, k.read)
     ELSE k.read > CaptureLimit

Held(k) == /\ k.read \in 0 .. Len(k.reply.bytes)
           /\ IF k.reply.stream THEN StreamHeld(k) ELSE BodyHeld(k)

\* What is to be stored of a whole answer.
Expected(reply) ==
  IF Len(reply.bytes) <= CaptureLimit
  THEN [messages |-> AnswerMessages(reply), usage |-> AnswerUsage(reply)]
  ELSE [messages |-> <<>>, usage |-> Unavailable]

\* From the end of the answer on, what was taken down of a whole one is what the
\* provider said.
Answering == Persisting \cup {"saved", "lost"}

Taken(k) == /\ k.step = "none" => Fresh(k)
            /\ k.step \in Reading \cup Answering => Given(k.reply)
            /\ k.step \in Reading /\ k.reply.whole => Held(k)
            /\ k.step \in Answering /\ k.reply.whole => k.response = Expected(k.reply)

\* A call that moves on without reading keeps that.
LEMMA TakenStill ==
  ASSUME NEW k, NEW l, Taken(k), l.reply = k.reply, l.read = k.read, l.decoder = k.decoder,
         l.body = k.body, l.capturing = k.capturing, l.response = k.response,
         \/ l.step = k.step
         \/ l.step \notin {"none"} \cup Reading \cup Answering
         \/ k.step \in Reading \ {"adding"} /\ l.step \in Reading \ {"adding"}
         \/ k.step \in Answering /\ l.step \in Answering
  PROVE  Taken(l)
<1>1. Fresh(k) => Fresh(l)
  BY DEF Fresh
<1>2. l.step = k.step \/ (k.step # "adding" /\ l.step # "adding") => (Held(k) => Held(l))
  <2>1. InDecoder(k) <=> InDecoder(l)
    BY DEF InDecoder
  <2> QED
    BY <2>1 DEF Held, StreamHeld, BodyHeld
<1>3. CASE l.step = k.step
  BY <1>1, <1>2, <1>3 DEF Taken
<1>4. CASE l.step \notin {"none"} \cup Reading \cup Answering
  BY <1>4 DEF Taken
<1>5. CASE k.step \in Reading \ {"adding"} /\ l.step \in Reading \ {"adding"}
  <2>1. l.step \notin Answering /\ l.step # "none"
    BY <1>5 DEF Reading, Answering, Persisting
  <2> QED
    BY <1>2, <1>5, <2>1 DEF Taken
<1>6. CASE k.step \in Answering /\ l.step \in Answering
  <2>1. l.step \notin Reading /\ l.step # "none"
    BY <1>6 DEF Reading, Answering, Persisting
  <2> QED
    BY <1>6, <2>1 DEF Taken
<1> QED
  BY <1>3, <1>4, <1>5, <1>6

\* A call begins with nothing taken down,
LEMMA TakenAtArrival ==
  ASSUME NEW k, Fresh(k), k.step = "waiting", Given(k.reply)
  PROVE  Taken(k)
<1>1. CaptureLimit \in Nat
  BY CaptureConstants
<1>2. IsSequence(k.reply.bytes) /\ IsSequence(k.reply.fragments) /\ Len(k.reply.bytes) \in Nat
  BY SequenceIs DEF Given
<1>3. k.read = 0 /\ k.decoder = NewDecoder /\ k.body = <<>> /\ k.capturing
  BY DEF Fresh
<1>4. k.read \in 0 .. Len(k.reply.bytes) /\ k.read <= CaptureLimit
  BY <1>1, <1>2, <1>3
<1>5. InDecoder(k)
  <2>1. Buffered(k.reply, k.decoder, k.read, 0)
    BY <1>2, <1>3, DecoderStarts
  <2>2. 0 \in 0 .. k.read
    BY <1>3
  <2> QED
    BY <1>4, <2>1, <2>2 DEF InDecoder
<1>6. Separators(k.decoder.buffer) = {}
  <2>1. k.decoder.buffer = <<>> /\ 1 .. Len(<<>>) - 1 = {}
    BY <1>3 DEF NewDecoder
  <2> QED
    BY <2>1 DEF Separators
<1>7. IsPiece(k.body, k.reply.bytes, 0, k.read)
  <2>1. Len(<<>>) = 0 - 0 /\ 1 .. 0 - 0 = {}
    OBVIOUS
  <2> QED
    BY <1>3, <2>1, EmptySequence DEF IsPiece
<1>8. Held(k)
  BY <1>3, <1>4, <1>5, <1>6, <1>7 DEF Held, StreamHeld, BodyHeld
<1> QED
  BY <1>8 DEF Taken, Answering, Persisting

\* reads a chunk,
LEMMA TakenOfChunk ==
  ASSUME NEW k, DOMAIN k = DOMAIN Unborn, Taken(k), k.step = "copying",
         NEW n \in 1 .. Len(k.reply.bytes) - k.read
  PROVE  Taken([Captured(k, SubSeq(k.reply.bytes, k.read + 1, k.read + n)) EXCEPT !.read = @ + n])
<1> DEFINE bytes == k.reply.bytes
           read == k.read
           m == read + n
           chunk == SubSeq(bytes, read + 1, m)
           d == Filled(CaptureLimit, k.decoder, chunk)
           l == [Captured(k, chunk) EXCEPT !.read = @ + n]
           fits == k.capturing /\ Len(k.body) + Len(chunk) <= CaptureLimit
<1>1. Given(k.reply) /\ (k.reply.whole => Held(k)) /\ IsSequence(bytes)
  BY DEF Taken, Given, Reading
<1>2. Len(bytes) \in Nat /\ CaptureLimit \in Nat
  BY <1>1, SequenceIs, CaptureConstants
<1>3. l.reply = k.reply /\ l.step \in {"adding", "writing"} /\ l.read = m
  BY DEF Captured, Unborn
<1>4. ASSUME k.capturing, k.reply.stream
      PROVE  l.step = "adding" /\ l.decoder = d /\ l.capturing = k.capturing
  <2> HIDE DEF chunk, d
  <2>1. Captured(k, chunk) = [k EXCEPT !.step = "adding", !.decoder = d]
    BY <1>4 DEF Captured, d
  <2> QED
    BY <2>1 DEF Unborn
<1>5. ASSUME ~(k.capturing /\ k.reply.stream)
      PROVE  /\ l.step = "writing" /\ l.capturing = fits
             /\ l.body = IF fits THEN k.body \o chunk ELSE k.body
  <2> HIDE DEF chunk, fits
  <2>1. Captured(k, chunk) = [k EXCEPT !.step = "writing", !.capturing = fits,
                                       !.body = IF fits THEN @ \o chunk ELSE @]
    BY <1>5, Zenon DEF Captured, fits
  <2> QED
    BY <2>1 DEF Unborn
<1>6. ASSUME k.reply.whole PROVE Held(l)
  <2>1. Held(k) /\ read \in 0 .. Len(bytes)
    BY <1>1, <1>6 DEF Held
  <2>2. read \in Nat /\ n \in Nat /\ m \in Nat /\ m \in 0 .. Len(bytes) /\ read <= m /\ m > read
    <3>1. n \in 1 .. Len(bytes) - read
      OBVIOUS
    <3> HIDE DEF bytes, read
    <3> QED
      BY <1>2, <2>1, <3>1
  <2>3. l.read \in 0 .. Len(l.reply.bytes)
    BY <1>3, <2>2
  <2>4. CASE k.reply.stream /\ k.capturing
    <3>1. InDecoder(k)
      BY <2>1, <2>4 DEF Held, StreamHeld
    <3>2. PICK base \in 0 .. read : Buffered(k.reply, k.decoder, read, base)
      BY <3>1 DEF InDecoder
    <3>3. /\ m > CaptureLimit => d.failed
          /\ ~(m > CaptureLimit) => Buffered(k.reply, d, m, base)
      <4>1. LET e == Filled(CaptureLimit, k.decoder, SubSeq(k.reply.bytes, read + 1, read + n))
            IN  /\ read + n > CaptureLimit => e.failed
                /\ ~(read + n > CaptureLimit) => Buffered(k.reply, e, read + n, base)
        <5> HIDE DEF read
        <5>1. n \in 1 .. Len(k.reply.bytes) - read /\ IsSequence(k.reply.bytes)
          BY <1>1 DEF read
        <5> QED
          BY <3>2, <5>1, ChunkFills
      <4> QED
        BY <4>1
    <3>4. l.step = "adding" /\ l.decoder = d /\ l.capturing
      BY <1>4, <2>4
    <3> HIDE DEF l, d, m, chunk
    <3>5. ASSUME ~l.decoder.failed PROVE InDecoder(l)
      <4>1. ~(m > CaptureLimit) /\ Buffered(l.reply, l.decoder, l.read, base)
        BY <1>3, <3>3, <3>4, <3>5
      <4>2. m <= CaptureLimit /\ base \in 0 .. m
        BY <1>2, <2>2, <3>2, <4>1
      <4> QED
        BY <1>3, <4>1, <4>2 DEF InDecoder
    <3>6. l.decoder.failed => l.read > CaptureLimit
      <4>1. CASE m > CaptureLimit
        BY <1>3, <4>1
      <4>2. CASE ~(m > CaptureLimit)
        BY <3>3, <3>4, <4>2 DEF Buffered
      <4> QED
        BY <4>1, <4>2
    <3> QED
      BY <1>3, <2>3, <2>4, <3>4, <3>5, <3>6 DEF Held, StreamHeld
  <2>5. CASE k.reply.stream /\ ~k.capturing
    <3>1. read > CaptureLimit
      BY <2>1, <2>5 DEF Held, StreamHeld
    <3>2. m > CaptureLimit
      <4> HIDE DEF read
      <4> QED
        BY <1>2, <2>2, <3>1
    <3>3. l.step = "writing" /\ ~l.capturing
      BY <1>5, <2>5
    <3> HIDE DEF l, m
    <3> QED
      BY <1>3, <2>3, <2>5, <3>2, <3>3 DEF Held, StreamHeld
  <2>6. CASE ~k.reply.stream
    <3>1. /\ l.step = "writing" /\ l.capturing = fits
          /\ l.body = IF fits THEN k.body \o chunk ELSE k.body
      BY <1>5, <2>6
    <3>2. IF k.capturing THEN read <= CaptureLimit /\ IsPiece(k.body, bytes, 0, read)
          ELSE read > CaptureLimit
      BY <2>1, <2>6 DEF Held, BodyHeld
    <3>3. IsPiece(chunk, bytes, read, m) /\ Len(chunk) = n
      <4>1. IsPiece(chunk, bytes, read, m)
        <5> HIDE DEF bytes, read, m
        <5>1. m <= Len(bytes)
          BY <1>2, <2>2
        <5> QED
          BY <1>1, <2>2, <5>1, PieceIs
      <4>2. Len(chunk) = m - read
        BY <4>1 DEF IsPiece
      <4> QED
        BY <2>2, <4>1, <4>2
    <3> HIDE DEF l, chunk
    <3>4. CASE ~k.capturing
      <4>1. read > CaptureLimit /\ ~l.capturing
        BY <3>1, <3>2, <3>4
      <4>2. m > CaptureLimit
        <5> HIDE DEF read
        <5> QED
          BY <1>2, <2>2, <4>1
      <4> HIDE DEF m
      <4> QED
        BY <1>3, <2>3, <2>6, <3>1, <4>1, <4>2 DEF Held, BodyHeld
    <3>5. CASE k.capturing
      <4>1. IsPiece(k.body, bytes, 0, read) /\ Len(k.body) = read
        <5>1. IsPiece(k.body, bytes, 0, read)
          BY <3>2, <3>5
        <5>2. Len(k.body) = read - 0
          BY <5>1 DEF IsPiece
        <5> QED
          BY <2>2, <5>1, <5>2
      <4>2. fits <=> m <= CaptureLimit
        <5> HIDE DEF read
        <5> QED
          BY <3>3, <3>5, <4>1
      <4>3. CASE fits
        <5>1. IsPiece(k.body \o chunk, bytes, 0, m)
          <6> HIDE DEF bytes, read, m
          <6>1. 0 \in Nat /\ 0 <= read
            BY <2>2
          <6> QED
            BY <2>2, <3>3, <4>1, <6>1, PiecesJoined
        <5>2. l.body = k.body \o chunk /\ l.capturing /\ m <= CaptureLimit
          BY <3>1, <4>2, <4>3
        <5> HIDE DEF m
        <5> QED
          BY <1>3, <2>3, <2>6, <3>1, <5>1, <5>2 DEF Held, BodyHeld
      <4>4. CASE ~fits
        <5>1. m > CaptureLimit
          <6> HIDE DEF fits
          <6>1. ~(m <= CaptureLimit)
            BY <4>2, <4>4
          <6> HIDE DEF m
          <6> QED
            BY <1>2, <2>2, <6>1
        <5>2. ~l.capturing
          BY <3>1, <4>4
        <5> HIDE DEF m
        <5> QED
          BY <1>3, <2>3, <2>6, <3>1, <5>1, <5>2 DEF Held, BodyHeld
      <4> QED
        BY <4>3, <4>4
    <3> QED
      BY <3>4, <3>5
  <2> QED
    BY <2>4, <2>5, <2>6
<1> HIDE DEF l
<1>7. Taken(l)
  BY <1>1, <1>3, <1>6 DEF Taken, Reading, Answering, Persisting
<1> QED
  BY <1>7 DEF l, chunk, m, bytes, read

\* takes in what it completes,
LEMMA TakenOfBlock ==
  ASSUME NEW k, DOMAIN k = DOMAIN Unborn, Taken(k), k.step = "adding"
  PROVE  Taken(IF HasBlock(k.decoder)
               THEN [k EXCEPT !.decoder = NextBlock(k.reply.protocol, @)]
               ELSE [k EXCEPT !.step = "writing", !.capturing = ~k.decoder.failed])
<1>1. Given(k.reply) /\ (k.reply.whole => Held(k))
  BY DEF Taken, Reading
<1>2. ASSUME k.reply.whole
      PROVE  /\ k.read \in 0 .. Len(k.reply.bytes) /\ k.reply.stream /\ k.capturing
             /\ IF k.decoder.failed THEN k.read > CaptureLimit ELSE InDecoder(k)
             /\ IsSequence(k.reply.bytes) /\ WholeStream(k.reply.fragments, k.reply.bytes)
  BY <1>1, <1>2 DEF Held, StreamHeld, BodyHeld, Given, WellFormed
<1>3. CASE HasBlock(k.decoder)
  <2> DEFINE d == NextBlock(k.reply.protocol, k.decoder)
             l == [k EXCEPT !.decoder = d]
  <2>1. /\ l.reply = k.reply /\ l.step = "adding" /\ l.read = k.read /\ l.capturing = k.capturing
        /\ l.decoder = d
    BY DEF Unborn
  <2>2. ASSUME k.reply.whole PROVE Held(l)
    <3>1. InDecoder(k) /\ Separators(k.decoder.buffer) # {}
      BY <1>2, <1>3, <2>2 DEF HasBlock
    <3>2. PICK base \in 0 .. k.read : Buffered(k.reply, k.decoder, k.read, base)
      BY <3>1 DEF InDecoder
    <3> HIDE DEF d, l
    <3>3. PICK after \in Nat : Buffered(k.reply, d, k.read, after)
      BY <1>2, <2>2, <3>1, <3>2, BlockGoes DEF d
    <3>4. after \in 0 .. k.read /\ ~d.failed
      BY <3>3 DEF Buffered
    <3>5. InDecoder(l)
      BY <2>1, <3>1, <3>3, <3>4 DEF InDecoder
    <3> QED
      BY <1>2, <2>1, <2>2, <3>4, <3>5 DEF Held, StreamHeld
  <2> HIDE DEF l
  <2>3. Taken(l)
    BY <1>1, <2>1, <2>2 DEF Taken, Reading, Answering, Persisting
  <2> QED
    BY <1>3, <2>3 DEF l, d
<1>4. CASE ~HasBlock(k.decoder)
  <2> DEFINE l == [k EXCEPT !.step = "writing", !.capturing = ~k.decoder.failed]
  <2>1. /\ l.reply = k.reply /\ l.step = "writing" /\ l.read = k.read
        /\ l.capturing = ~k.decoder.failed /\ l.decoder = k.decoder
    BY DEF Unborn
  <2> HIDE DEF l
  <2>2. ASSUME k.reply.whole PROVE Held(l)
    <3>1. CASE k.decoder.failed
      BY <1>2, <2>1, <2>2, <3>1 DEF Held, StreamHeld
    <3>2. CASE ~k.decoder.failed
      <4>1. InDecoder(k) /\ Separators(k.decoder.buffer) = {}
        BY <1>2, <1>4, <2>2, <3>2 DEF HasBlock
      <4>2. InDecoder(l)
        BY <2>1, <4>1 DEF InDecoder
      <4> QED
        BY <1>2, <2>1, <2>2, <3>2, <4>1, <4>2 DEF Held, StreamHeld
    <3> QED
      BY <3>1, <3>2
  <2>3. Taken(l)
    BY <1>1, <2>1, <2>2 DEF Taken, Reading, Answering, Persisting
  <2> QED
    BY <1>4, <2>3 DEF l
<1> QED
  BY <1>3, <1>4

\* and ends with the answer.
LEMMA TakenAtEnd ==
  ASSUME NEW k, Taken(k), k.step = "copying", k.read = Len(k.reply.bytes), k.reply.whole
  PROVE  Parsed(k) = Expected(k.reply)
<1>1. Given(k.reply) /\ Held(k) /\ IsSequence(k.reply.bytes) /\ IsSequence(k.reply.fragments)
  BY DEF Taken, Given, Reading
<1>2. Len(k.reply.bytes) \in Nat /\ CaptureLimit \in Nat
  BY <1>1, SequenceIs, CaptureConstants
<1>3. k.capturing <=> Len(k.reply.bytes) <= CaptureLimit
  BY <1>1, <1>2 DEF Held, StreamHeld, BodyHeld, InDecoder
<1>4. CASE ~k.capturing
  BY <1>3, <1>4 DEF Parsed, Expected
<1>5. CASE k.capturing /\ k.reply.stream
  <2>1. InDecoder(k) /\ Separators(k.decoder.buffer) = {}
    BY <1>1, <1>5 DEF Held, StreamHeld
  <2>2. PICK base \in 0 .. k.read : Buffered(k.reply, k.decoder, k.read, base)
    BY <2>1 DEF InDecoder
  <2>3. WholeStream(k.reply.fragments, k.reply.bytes)
    BY <1>1, <1>5 DEF Given, WellFormed
  <2>4. Complete(k.reply.protocol, k.decoder)
          = [messages |-> AnswerMessages(k.reply), usage |-> AnswerUsage(k.reply)]
    BY <1>1, <1>5, <2>1, <2>2, <2>3, StreamCompletes
  <2> QED
    BY <1>3, <1>5, <2>4 DEF Parsed, Expected
<1>6. CASE k.capturing /\ ~k.reply.stream
  <2>1. IsPiece(k.body, k.reply.bytes, 0, k.read)
    BY <1>1, <1>6 DEF Held, BodyHeld
  <2>2. WholeBody(k.reply.fragments, k.reply.bytes)
    BY <1>1, <1>6 DEF Given, WellFormed
  <2>3. k.body = k.reply.bytes
    <3> DEFINE n == Len(k.reply.bytes)
    <3>1. IsPiece(k.body, k.reply.bytes, 0, n)
      BY <2>1
    <3>2. IsPiece(k.reply.bytes, k.reply.bytes, 0, n)
      <4>1. n - 0 = n /\ \A i \in 1 .. n - 0 : 0 + i = i
        BY <1>2
      <4> QED
        BY <1>1, <4>1 DEF IsPiece
    <3> QED
      BY <3>1, <3>2, SamePiece
  <2>4. ParseResponse(k.reply.protocol, k.body, k.reply.fragments)
          = [messages |-> AnswerMessages(k.reply), usage |-> AnswerUsage(k.reply)]
    BY <1>1, <1>6, <2>2, <2>3, BodyParses
  <2> QED
    BY <1>3, <1>6, <2>4 DEF Parsed, Expected
<1> QED
  BY <1>4, <1>5, <1>6
-----------------------------------------------------------------------------
(* The calls' answers, their records and what was lost *)

\* A call's own step keeps what is taken down;
LEMMA TakenMoves ==
  ASSUME ProxyInv, NEW c \in Calls, Taken(call[c]), CallStep(c)
  PROVE  Taken(call'[c])
<1> DEFINE k == call[c]
<1>1. DOMAIN call = Calls /\ DOMAIN k = DOMAIN Unborn
  BY DEF ProxyInv, Shapes, CallShape
<1>2. Taken(k)
  OBVIOUS
<1>3. ASSUME NEW step, Goes(c, step)
      PROVE  call'[c] = [k EXCEPT !.step = step]
  BY <1>1, <1>3 DEF Goes
<1>4. ASSUME NEW step, call'[c] = [k EXCEPT !.step = step],
             \/ step \notin {"none"} \cup Reading \cup Answering
             \/ k.step \in Reading \ {"adding"} /\ step \in Reading \ {"adding"}
             \/ k.step \in Answering /\ step \in Answering
      PROVE  Taken(call'[c])
  <2> DEFINE l == [k EXCEPT !.step = step]
  <2>1. /\ l.reply = k.reply /\ l.read = k.read /\ l.decoder = k.decoder /\ l.body = k.body
        /\ l.capturing = k.capturing /\ l.response = k.response /\ l.step = step
    BY <1>1 DEF Unborn
  <2> HIDE DEF l, k
  <2>2. Taken(l)
    BY <1>2, <1>4, <2>1, TakenStill
  <2> QED
    BY <1>4, <2>2 DEF l
<1>5. CASE Arrive(c)
  <2>1. CASE Goes(c, "refused")
    BY <1>3, <1>4, <2>1 DEF Reading, Answering, Persisting
  <2>2. CASE ~Goes(c, "refused")
    <3>1. PICK body \in Bodies(scenario.replies), reply \in Replies(scenario.replies) :
            call' = [call EXCEPT ![c].step = "waiting", ![c].reply = reply,
                                 ![c].history = ParseRequest(reply.protocol, body)]
      BY <1>5, <2>2 DEF Arrive
    <3> DEFINE history == ParseRequest(reply.protocol, body)
               l == [k EXCEPT !.step = "waiting", !.reply = reply, !.history = history]
    <3>2. Given(reply)
      BY CaptureConstants DEF ProxyInv, Within, Given
    <3>3. Fresh(k)
      BY <1>2, <1>5 DEF Arrive, Taken
    <3> HIDE DEF history
    <3>4. call'[c] = l
      BY <1>1, <3>1 DEF history
    <3>5. /\ l.step = "waiting" /\ l.reply = reply /\ l.read = k.read /\ l.decoder = k.decoder
          /\ l.body = k.body /\ l.capturing = k.capturing
      BY <1>1 DEF Unborn
    <3> HIDE DEF l, k
    <3>6. Fresh(l)
      BY <3>3, <3>5 DEF Fresh
    <3>7. Taken(l)
      BY <3>2, <3>5, <3>6, TakenAtArrival
    <3> QED
      BY <3>4, <3>7
  <2> QED
    BY <2>1, <2>2
<1>6. CASE Unavailable502(c) \/ ClientGone(c) \/ StreamBreaks(c)
  BY <1>3, <1>4, <1>6 DEF Unavailable502, ClientGone, StreamBreaks, Reading, Answering, Persisting
<1>7. CASE UpstreamAnswers(c)
  <2>1. k.step = "waiting" /\ Goes(c, "copying")
    BY <1>7 DEF UpstreamAnswers
  <2> QED
    BY <1>3, <1>4, <2>1 DEF Reading
<1>8. CASE PersistFails(c) \/ PersistCall(c)
  <2>1. k.step = "saving" /\ (Goes(c, "lost") \/ Goes(c, "saved"))
    BY <1>8 DEF PersistFails, PersistCall
  <2> QED
    BY <1>3, <1>4, <2>1 DEF Answering, Persisting
<1>9. CASE Read(c)
  <2>1. PICK n \in 1 .. Len(k.reply.bytes) - k.read :
          call' = [call EXCEPT ![c] =
                     [Captured(k, SubSeq(k.reply.bytes, k.read + 1, k.read + n))
                        EXCEPT !.read = @ + n]]
    BY <1>9 DEF Read
  <2> DEFINE l == [Captured(k, SubSeq(k.reply.bytes, k.read + 1, k.read + n)) EXCEPT !.read = @ + n]
  <2>2. k.step = "copying"
    BY <1>9 DEF Read
  <2>3. Taken(l)
    <3> HIDE DEF k
    <3> QED
      BY <1>1, <1>2, <2>2, TakenOfChunk
  <2> HIDE DEF l
  <2>4. call'[c] = l
    BY <1>1, <2>1 DEF l
  <2> QED
    BY <2>3, <2>4
<1>10. CASE AddBlock(c)
  <2> DEFINE l == IF HasBlock(k.decoder)
                  THEN [k EXCEPT !.decoder = NextBlock(k.reply.protocol, @)]
                  ELSE [k EXCEPT !.step = "writing", !.capturing = ~k.decoder.failed]
  <2>1. k.step = "adding" /\ call' = [call EXCEPT ![c] = l]
    BY <1>10 DEF AddBlock
  <2>2. Taken(l)
    <3> HIDE DEF k
    <3> QED
      BY <1>1, <1>2, <2>1, TakenOfBlock
  <2> HIDE DEF l
  <2>3. call'[c] = l
    BY <1>1, <2>1
  <2> QED
    BY <2>2, <2>3
<1>11. CASE Write(c)
  <2> DEFINE l == [k EXCEPT !.step = "copying", !.written = k.read]
  <2>1. k.step = "writing" /\ call' = [call EXCEPT ![c] = l]
    BY <1>11 DEF Write
  <2>2. /\ l.reply = k.reply /\ l.read = k.read /\ l.decoder = k.decoder /\ l.body = k.body
        /\ l.capturing = k.capturing /\ l.response = k.response /\ l.step = "copying"
    BY <1>1 DEF Unborn
  <2>3. k.step \in Reading \ {"adding"} /\ l.step \in Reading \ {"adding"}
    BY <2>1, <2>2 DEF Reading
  <2> HIDE DEF k, l
  <2>4. Taken(l)
    BY <1>2, <2>2, <2>3, TakenStill
  <2>5. call'[c] = l
    BY <1>1, <2>1
  <2> QED
    BY <2>4, <2>5
<1>12. CASE StreamEnds(c)
  <2> DEFINE response == Parsed(k)
             l == [k EXCEPT !.step = "parsed", !.response = response, !.shown = prompts]
  <2>1. k.step = "copying" /\ k.read = Len(k.reply.bytes) /\ call' = [call EXCEPT ![c] = l]
    BY <1>12 DEF StreamEnds
  <2>2. k.reply.whole => response = Expected(k.reply)
    <3> HIDE DEF k
    <3> QED
      BY <1>2, <2>1, TakenAtEnd
  <2> HIDE DEF response
  <2>3. l.step = "parsed" /\ l.reply = k.reply /\ l.response = response
    BY <1>1 DEF Unborn
  <2>4. Given(k.reply)
    BY <1>2, <2>1 DEF Taken, Reading
  <2> HIDE DEF l, k
  <2>5. Taken(l)
    BY <2>2, <2>3, <2>4 DEF Taken, Reading
  <2>6. call'[c] = l
    BY <1>1, <2>1
  <2> QED
    BY <2>5, <2>6
<1>13. CASE ReadPrivacy(c)
  <2>1. PICK hidden \in BOOLEAN :
          call' = [call EXCEPT ![c].step = "saving", ![c].hidden = hidden]
    BY <1>13 DEF ReadPrivacy
  <2> DEFINE l == [k EXCEPT !.step = "saving", !.hidden = hidden]
  <2>2. /\ l.reply = k.reply /\ l.read = k.read /\ l.decoder = k.decoder /\ l.body = k.body
        /\ l.capturing = k.capturing /\ l.response = k.response /\ l.step = "saving"
    BY <1>1 DEF Unborn
  <2>3. k.step \in Answering /\ l.step \in Answering
    BY <1>13, <2>2 DEF ReadPrivacy, Answering, Persisting
  <2>4. call'[c] = l
    BY <1>1, <2>1
  <2> HIDE DEF k, l
  <2>5. Taken(l)
    BY <1>2, <2>2, <2>3, TakenStill
  <2> QED
    BY <2>4, <2>5
<1> QED
  BY <1>5, <1>6, <1>7, <1>8, <1>9, <1>10, <1>11, <1>12, <1>13 DEF CallStep, Handler

\* What a step leaves of a call that does not take it.
Rested(k, l) == /\ l.reply = k.reply /\ l.read = k.read /\ l.decoder = k.decoder
                /\ l.body = k.body /\ l.capturing = k.capturing /\ l.response = k.response
                /\ l.history = k.history /\ l.hidden = k.hidden
                /\ l.step = k.step \/ (l.step = "killed" /\ k.step \in Reading \cup Persisting)

\* A step of another leaves a call alone, or kills it at the end;
LEMMA OthersRest ==
  ASSUME ProxyInv, [Next]_vars, NEW c \in Calls, ~CallStep(c)
  PROVE  Rested(call[c], call'[c])
<1>1. DOMAIN call = Calls /\ DOMAIN call[c] = DOMAIN Unborn
  BY DEF ProxyInv, Shapes, CallShape
<1>2. ASSUME \/ call'[c] = call[c]
             \/ \E shown : call'[c] = [call[c] EXCEPT !.shown = shown]
             \/ /\ call'[c] = [call[c] EXCEPT !.step = "killed"]
                /\ call[c].step \in Reading \cup Persisting
      PROVE  Rested(call[c], call'[c])
  BY <1>1, <1>2 DEF Unborn, Rested
<1>3. CASE UNCHANGED <<call, wrapper>> \/ CommandEnds
  BY <1>2, <1>3 DEF CommandEnds
<1>4. ASSUME NEW d \in Calls, CallStep(d) PROVE Rested(call[c], call'[c])
  <2>1. d # c
    BY <1>4
  <2> QED
    BY <1>2, <1>4, <2>1, OneCallMoves DEF ProxyInv, Shapes
<1>5. CASE Exit
  <2>1. \/ call'[c] = call[c]
        \/ call'[c] = [call[c] EXCEPT !.step = "killed"] /\ call[c].step \in Reading \cup Persisting
    BY <1>5 DEF Exit
  <2> QED
    BY <1>2, <2>1
<1>6. CASE Flip
  <2>1. call'[c] = [call[c] EXCEPT !.shown = @ \/ (prompts' /\ call[c].step = "parsed")]
    BY <1>6 DEF Flip
  <2> QED
    BY <1>2, <2>1
<1> QED
  BY <1>3, <1>4, <1>5, <1>6, CallSteps

\* so every step keeps what is taken down.
LEMMA TakenKeptByAll ==
  ASSUME ProxyInv, [Next]_vars, NEW c \in Calls, Taken(call[c])
  PROVE  Taken(call'[c])
<1>1. CASE CallStep(c)
  BY <1>1, TakenMoves
<1>2. CASE ~CallStep(c)
  <2> DEFINE k == call[c]
             l == call'[c]
  <2>1. Rested(k, l) /\ Taken(k)
    BY <1>2, OthersRest
  <2> HIDE DEF k, l
  <2>2. "killed" \notin {"none"} \cup Reading \cup Answering
    BY DEF Reading, Answering, Persisting
  <2>3. Taken(l)
    BY <2>1, <2>2, TakenStill DEF Rested
  <2> QED
    BY <2>3 DEF l
<1> QED
  BY <1>1, <1>2

\* The record of a call is of what was taken down.
RecordOf(R, k) ==
  /\ R.usage = k.response.usage /\ DOMAIN R.messages = DOMAIN Messages(k)
  /\ \A i \in DOMAIN Messages(k) : /\ R.messages[i].role = Messages(k)[i].role
                                   /\ R.messages[i].text = Messages(k)[i].text

\* What PersistCall stores is that, whatever the ids;
LEMMA RecordOfCall ==
  ASSUME NEW k, NEW ids
  PROVE  RecordOf(CallRecord(k, ids), k)
<1> DEFINE s == Messages(k)
           messages == [i \in DOMAIN s |->
                          [id |-> <<"random", ids[i]>>, role |-> s[i].role,
                           tool |-> s[i].tool, text |-> s[i].text,
                           at |-> IF i <= Len(k.history) THEN 1 ELSE 2]]
<1>1. CallRecord(k, ids).usage = k.response.usage /\ CallRecord(k, ids).messages = messages
  BY DEF CallRecord
<1> HIDE DEF s
<1>2. /\ DOMAIN messages = DOMAIN s
      /\ \A i \in DOMAIN s : messages[i].role = s[i].role /\ messages[i].text = s[i].text
  OBVIOUS
<1> HIDE DEF messages
<1> QED
  BY <1>1, <1>2 DEF RecordOf, s

\* A stored call has that record, until it is deleted.
Recorded(c) == request[c] # None => RecordOf(request[c], call[c])

LEMMA RecordedKept ==
  ASSUME ProxyInv, CallsInv, [Next]_vars, NEW c \in Calls, Recorded(c)
  PROVE  Recorded(c)'
<1>1. /\ DOMAIN call = Calls /\ DOMAIN call[c] = DOMAIN Unborn
      /\ DOMAIN request = Requests /\ Calls \subseteq Requests /\ Watched \notin Calls
  BY StoreConstants DEF ProxyInv, Shapes, CallShape, TablesShape, Requests
<1>2. CASE PersistCall(c)
  <2>1. PICK ids \in Orders(call[c]) : Save(c, CallRecord(call[c], ids))
    BY <1>2 DEF PersistCall
  <2>2. request'[c] = CallRecord(call[c], ids)
    BY <1>1, <2>1 DEF Save
  <2>3. call'[c] = [call[c] EXCEPT !.step = "saved"]
    BY <1>1, <1>2 DEF PersistCall, Goes
  <2>4. /\ call'[c].response = call[c].response /\ call'[c].history = call[c].history
        /\ call'[c].hidden = call[c].hidden
    BY <1>1, <2>3 DEF Unborn
  <2>5. Messages(call'[c]) = Messages(call[c])
    BY <2>4 DEF Messages, Answered
  <2>6. RecordOf(CallRecord(call[c], ids), call[c])
    BY RecordOfCall
  <2>7. RecordOf(request'[c], call'[c])
    BY <2>2, <2>4, <2>5, <2>6 DEF RecordOf
  <2> QED
    BY <2>7 DEF Recorded
<1>3. CASE ~PersistCall(c)
  <2>1. request'[c] \in {request[c], None}
    <3>1. CASE UNCHANGED request
      BY <3>1
    <3>2. ASSUME NEW r \in Requests, DeleteSession(r) PROVE request'[c] \in {request[c], None}
      BY <1>1, <3>2 DEF DeleteSession
    <3>3. CASE SaveWatched
      BY <1>1, <3>3 DEF SaveWatched, Save
    <3>4. ASSUME NEW d \in Calls, PersistCall(d) PROVE request'[c] = request[c]
      <4>1. d # c
        BY <1>3, <3>4
      <4> QED
        BY <1>1, <3>4, <4>1 DEF PersistCall, Save
    <3> QED
      BY <3>1, <3>2, <3>3, <3>4, RowSteps
  <2>2. CASE request[c] = None
    BY <2>1, <2>2 DEF Recorded
  <2>3. CASE request[c] # None
    <3>1. call[c].step = "saved"
      BY <2>3 DEF CallsInv, CallInv
    <3>2. ~CallStep(c)
      BY <3>1 DEF CallStep, Handler, Arrive, Unavailable502, ClientGone, StreamBreaks,
                  UpstreamAnswers, Read, AddBlock, Write, StreamEnds, ReadPrivacy, PersistCall,
                  PersistFails
    <3>3. Rested(call[c], call'[c])
      BY <3>2, OthersRest
    <3>4. Messages(call'[c]) = Messages(call[c])
      BY <3>3 DEF Rested, Messages, Answered
    <3>5. RecordOf(request[c], call[c]) => RecordOf(request[c], call'[c])
      BY <3>3, <3>4 DEF Rested, RecordOf
    <3> QED
      BY <2>1, <2>3, <3>5 DEF Recorded
  <2> QED
    BY <2>2, <2>3
<1> QED
  BY <1>2, <1>3
-----------------------------------------------------------------------------
(* Calls are stored as they were answered *)

\* What a provider says, as the store takes it.
Says(m) == m = [role |-> m.role, text |-> m.text] /\ m.role \in {"assistant", "tool"}
AllSaid(s) == IsSequence(s) /\ \A i \in DOMAIN s : Says(s[i])

\* What a sequence says is what its elements say, and so for two joined.
LEMMA SaidMade ==
  ASSUME NEW n \in Nat, NEW s, s = [i \in 1 .. n |-> s[i]], \A i \in 1 .. n : Says(s[i])
  PROVE  AllSaid(s)
<1>1. IsSequence(s)
  BY SequenceMade
<1>2. DOMAIN s = 1 .. n
  OBVIOUS
<1> QED
  BY <1>1, <1>2 DEF AllSaid

LEMMA SaidJoined ==
  ASSUME NEW s, AllSaid(s), NEW t, AllSaid(t)
  PROVE  AllSaid(s \o t)
<1>1. /\ IsSequence(s) /\ IsSequence(t) /\ IsSequence(s \o t) /\ Len(s \o t) = Len(s) + Len(t)
      /\ Len(s) \in Nat /\ Len(t) \in Nat
      /\ DOMAIN s = 1 .. Len(s) /\ DOMAIN t = 1 .. Len(t) /\ DOMAIN (s \o t) = 1 .. Len(s \o t)
  BY SequencesJoined, SequenceIs DEF AllSaid
<1>2. ASSUME NEW i \in DOMAIN (s \o t) PROVE Says((s \o t)[i])
  <2>1. i \in 1 .. Len(s) + Len(t)
    BY <1>1
  <2>2. (s \o t)[i] = IF i <= Len(s) THEN s[i] ELSE t[i - Len(s)]
    BY <1>1, <2>1, JoinedAt
  <2>3. i <= Len(s) => i \in DOMAIN s
    BY <1>1, <2>1
  <2>4. ~(i <= Len(s)) => i - Len(s) \in DOMAIN t
    BY <1>1, <2>1
  <2> QED
    BY <2>2, <2>3, <2>4 DEF AllSaid
<1> QED
  BY <1>1, <1>2 DEF AllSaid

\* An answer is what the assistant says and its tools.
LEMMA AnswerSays ==
  ASSUME NEW reply, IsSequence(reply.fragments)
  PROVE  AllSaid(AnswerMessages(reply))
<1> DEFINE f == reply.fragments
<1>1. CASE ~reply.stream
  <2> DEFINE S == Places(f, {"text", "tool"})
             n == Cardinality(S)
             parts == Picked(f, S)
             message(p) == [role |-> IF p.type = "tool" THEN "tool" ELSE "assistant",
                            text |-> <<p.text>>]
             answer == [j \in 1 .. n |-> message(parts[j])]
  <2>1. n \in Nat
    BY PlacesFinite, SequenceIs, FS_CardinalityType
  <2>2. AnswerMessages(reply) = [j \in DOMAIN parts |-> message(parts[j])]
    BY <1>1 DEF AnswerMessages, BodyAnswer
  <2>3. DOMAIN parts = 1 .. n
    BY DEF Picked
  <2>4. \A p : Says(message(p))
    BY DEF Says
  <2> HIDE DEF n, parts, message
  <2>5. answer = [j \in 1 .. n |-> answer[j]] /\ \A j \in 1 .. n : Says(answer[j])
    BY <2>4
  <2>6. AnswerMessages(reply) = answer
    BY <2>2, <2>3
  <2> HIDE DEF answer
  <2> QED
    BY <2>1, <2>5, <2>6, SaidMade
<1>2. CASE reply.stream /\ reply.protocol = "anthropic"
  <2> DEFINE D == Indexes(f, {"start", "text", "tool"})
             n == Cardinality(D)
             q == Ascending(D)
             isTool(i) == StartOf(f, i) # 0 /\ f[StartOf(f, i)].text = "tool"
             message(i) == IF isTool(i)
                           THEN [role |-> "tool",
                                 text |-> Carried(f, i).input \o Texts(f, Since(f, "tool", i))]
                           ELSE [role |-> "assistant",
                                 text |-> Carried(f, i).text \o Texts(f, Since(f, "text", i))]
             answer == [j \in 1 .. n |-> message(q[j])]
  <2>1. n \in Nat /\ DOMAIN q = 1 .. n
    BY IndexesFinite, SequenceIs, FS_CardinalityType DEF Ascending
  <2>2. AnswerMessages(reply) = [j \in DOMAIN q |-> message(q[j])]
    BY <1>2 DEF AnswerMessages, AnthropicAnswer, Indexes, StartOf, Since, Carried
  <2>3. \A i : Says(message(i))
    BY DEF Says
  <2> HIDE DEF n, q, message
  <2>4. answer = [j \in 1 .. n |-> answer[j]] /\ \A j \in 1 .. n : Says(answer[j])
    BY <2>3
  <2>5. AnswerMessages(reply) = answer
    BY <2>1, <2>2
  <2> HIDE DEF answer
  <2> QED
    BY <2>1, <2>4, <2>5, SaidMade
<1>3. CASE reply.stream /\ reply.protocol # "anthropic"
  <2> DEFINE D == Indexes(f, {"tool"})
             n == Cardinality(D)
             q == Ascending(D)
             texts == Places(f, {"text"})
             said == <<[role |-> "assistant", text |-> Texts(f, texts)]>>
             before == IF texts = {} THEN <<>> ELSE said
             message(i) == [role |-> "tool", text |-> Texts(f, About(f, {"tool"}, i))]
             answer == [j \in 1 .. n |-> message(q[j])]
  <2>1. n \in Nat /\ DOMAIN q = 1 .. n
    BY IndexesFinite, SequenceIs, FS_CardinalityType DEF Ascending
  <2>2. AnswerMessages(reply) = before \o [j \in DOMAIN q |-> message(q[j])]
    BY <1>3 DEF AnswerMessages, OpenAIAnswer, Indexes
  <2>3. \A i : Says(message(i))
    BY DEF Says
  <2>4. AllSaid(before)
    <3>1. AllSaid(<<>>)
      BY EmptySequence DEF AllSaid
    <3> DEFINE m == [role |-> "assistant", text |-> Texts(f, texts)]
    <3>2. Says(m)
      BY DEF Says
    <3> HIDE DEF m
    <3>3. <<m>> = [i \in 1 .. 1 |-> <<m>>[i]] /\ \A i \in 1 .. 1 : Says(<<m>>[i])
      BY <3>2
    <3>4. AllSaid(<<m>>)
      BY <3>3, SaidMade
    <3> QED
      BY <3>1, <3>4 DEF m
  <2> HIDE DEF n, q, message, before
  <2>5. answer = [j \in 1 .. n |-> answer[j]] /\ \A j \in 1 .. n : Says(answer[j])
    BY <2>3
  <2>6. AnswerMessages(reply) = before \o answer
    BY <2>1, <2>2
  <2> HIDE DEF answer
  <2>7. AllSaid(answer)
    BY <2>1, <2>5, SaidMade
  <2> QED
    BY <2>4, <2>6, <2>7, SaidJoined
<1> QED
  BY <1>1, <1>2, <1>3

\* A call whose record the store refuses has a message with a role it does not
\* know, or an answer that is not whole.
LEMMA ValidCall ==
  ASSUME NEW k, Taken(k), k.step = "saving", k.reply.whole, NEW ids,
         IsSequence(k.history), IsSequence(k.response.messages),
         \A m \in ToSet(k.history) : m.role \in Roles
  PROVE  Valid(CallRecord(k, ids))
<1> DEFINE R == CallRecord(k, ids)
           s == Messages(k)
           answered == Answered(k)
           said == k.response.messages
<1>1. k.response = Expected(k.reply) /\ Given(k.reply)
  BY DEF Taken, Answering, Persisting
<1>2. AllSaid(AnswerMessages(k.reply))
  BY <1>1, AnswerSays DEF Given
<1>3. k.response.usage.precision \in {"exact", "unavailable"}
  <2>1. k.response.usage \in {AnswerUsage(k.reply), Unavailable}
    BY <1>1 DEF Expected
  <2>2. Unavailable.precision = "unavailable"
    BY DEF Unavailable
  <2>3. AnswerUsage(k.reply).precision \in {"exact", "unavailable"}
    BY <2>2 DEF AnswerUsage
  <2> QED
    BY <2>1, <2>2, <2>3
<1>4. \A i \in DOMAIN said : said[i].role \in Roles
  <2>1. said = AnswerMessages(k.reply) \/ said = <<>>
    BY <1>1 DEF Expected
  <2>2. \A i \in DOMAIN AnswerMessages(k.reply) : AnswerMessages(k.reply)[i].role \in Roles
    BY <1>2 DEF AllSaid, Says, Roles
  <2> HIDE DEF said
  <2> QED
    BY <2>1, <2>2, EmptySequence
<1>5. IsSequence(answered) /\ \A i \in DOMAIN answered : answered[i].role \in Roles
  <2>1. answered = [i \in DOMAIN said |-> answered[i]]
    BY DEF Answered
  <2>2. DOMAIN answered = DOMAIN said /\ \A i \in DOMAIN said : answered[i].role = said[i].role
    BY DEF Answered
  <2>3. IsSequence(answered)
    <3> HIDE DEF answered
    <3> QED
      BY <2>1, SequenceMapped
  <2> HIDE DEF answered, said
  <2> QED
    BY <1>4, <2>2, <2>3
<1>6. \A i \in DOMAIN k.history : k.history[i].role \in Roles
  BY DEF ToSet
<1>7. \A i \in DOMAIN s : s[i].role \in Roles
  <2> DEFINE h == k.history
  <2>1. s = <<>> \/ s = h \o answered
    BY DEF Messages
  <2> HIDE DEF s, answered
  <2>2. /\ IsSequence(h \o answered) /\ Len(h \o answered) = Len(h) + Len(answered)
        /\ Len(h) \in Nat /\ Len(answered) \in Nat
        /\ DOMAIN h = 1 .. Len(h) /\ DOMAIN answered = 1 .. Len(answered)
        /\ DOMAIN (h \o answered) = 1 .. Len(h \o answered)
    BY <1>5, SequencesJoined, SequenceIs
  <2>3. ASSUME NEW i \in DOMAIN (h \o answered) PROVE (h \o answered)[i].role \in Roles
    <3>1. i \in 1 .. Len(h) + Len(answered)
      BY <2>2
    <3>2. (h \o answered)[i] = IF i <= Len(h) THEN h[i] ELSE answered[i - Len(h)]
      BY <1>5, <3>1, JoinedAt
    <3>3. i <= Len(h) => i \in DOMAIN h
      BY <2>2, <3>1
    <3>4. ~(i <= Len(h)) => i - Len(h) \in DOMAIN answered
      BY <2>2, <3>1
    <3> QED
      BY <1>5, <1>6, <3>2, <3>3, <3>4
  <2> QED
    BY <2>1, <2>3, EmptySequence
<1>8. R.usage = k.response.usage /\ DOMAIN R.messages = DOMAIN s
      /\ \A i \in DOMAIN s : R.messages[i].role = s[i].role
  BY RecordOfCall DEF RecordOf
<1>9. \A m \in ToSet(R.messages) : m.role \in Roles
  <2> HIDE DEF R, s
  <2> QED
    BY <1>7, <1>8 DEF ToSet
<1> QED
  BY <1>3, <1>8, <1>9 DEF Valid

\* What has evidence projects events.
HasEvidence(k) == ~k.reply.failed \/ \E m \in ToSet(Messages(k)) : m.tool # ""

LEMMA EvidenceProjected ==
  ASSUME NEW k, NEW ids
  PROVE  Projected(CallRecord(k, ids)) # {} <=> HasEvidence(k)
<1> DEFINE R == CallRecord(k, ids)
           s == Messages(k)
           messages == [i \in DOMAIN s |->
                          [id |-> <<"random", ids[i]>>, role |-> s[i].role,
                           tool |-> s[i].tool, text |-> s[i].text,
                           at |-> IF i <= Len(k.history) THEN 1 ELSE 2]]
<1>1. R.status = (IF k.reply.failed THEN "failed" ELSE "ok") /\ R.messages = messages
  BY DEF CallRecord
<1> HIDE DEF R, s
<1>2. DOMAIN messages = DOMAIN s /\ \A i \in DOMAIN s : messages[i].tool = s[i].tool
  OBVIOUS
<1> HIDE DEF messages
<1>3. ToolMessages(R) # {} <=> \E m \in ToSet(s) : m.tool # ""
  BY <1>1, <1>2 DEF ToolMessages, ToSet
<1> DEFINE T == ToolMessages(R)
<1>4. Projected(R) # {} <=> T # {} \/ R.status = "ok"
  <2> DEFINE type == IF R.status = "failed" THEN "tool.failed" ELSE "tool.completed"
             own == {Event([id |-> R.id, tool |-> "", text |-> <<>>, at |-> R.at],
                           "command.completed")}
             tools == {Event(m, type) : m \in T}
  <2>1. Projected(R) = tools \cup IF R.status # "ok" THEN {} ELSE own
    BY DEF Projected
  <2>2. own # {} /\ (tools # {} <=> T # {})
    <3> HIDE DEF type, T
    <3> QED
      OBVIOUS
  <2> HIDE DEF own, tools
  <2> QED
    BY <2>1, <2>2
<1> QED
  BY <1>1, <1>3, <1>4 DEF HasEvidence, R, s

\* A call that was lost has a cause; one with evidence that was saved has a
\* version.
Caused(c) ==
  /\ call[c].step = "lost" =>
       \/ Spent("fails") \/ ~call[c].reply.whole
       \/ \E m \in ToSet(call[c].history) : m.role \notin Roles
       \/ HasEvidence(call[c]) /\ ~scenario.versioned
  /\ call[c].step = "saved" /\ HasEvidence(call[c]) => scenario.versioned

\* A call gets lost in PersistFails alone, and saved in PersistCall.
LEMMA CausedKept ==
  ASSUME ProxyInv, [Next]_vars, NEW c \in Calls, Taken(call[c]), CallData(c), Caused(c)
  PROVE  Caused(c)'
<1>1. DOMAIN call = Calls /\ DOMAIN call[c] = DOMAIN Unborn
  BY DEF ProxyInv, Shapes, CallShape
<1>2. /\ UNCHANGED scenario /\ "fails" \in Bounds /\ (Spent("fails") => Spent("fails")')
      /\ (Versioned(c) <=> scenario.versioned)
  BY StepSpends, BudgetFalls, StoreConstants DEF ProxyInv, Bounds, Versioned
<1>3. ASSUME NEW step, Goes(c, step)
      PROVE  /\ call'[c].step = step /\ call'[c].reply = call[c].reply
             /\ call'[c].history = call[c].history
             /\ HasEvidence(call'[c]) <=> HasEvidence(call[c])
  <2>1. call'[c] = [call[c] EXCEPT !.step = step]
    BY <1>1, <1>3 DEF Goes
  <2>2. /\ call'[c].step = step /\ call'[c].reply = call[c].reply
        /\ call'[c].history = call[c].history /\ call'[c].response = call[c].response
        /\ call'[c].hidden = call[c].hidden
    BY <1>1, <2>1 DEF Unborn
  <2> QED
    BY <2>2 DEF HasEvidence, Messages, Answered
<1>4. CASE PersistFails(c)
  <2>1. /\ call'[c].step = "lost" /\ call'[c].reply = call[c].reply
        /\ call'[c].history = call[c].history
        /\ HasEvidence(call'[c]) <=> HasEvidence(call[c])
    BY <1>3, <1>4 DEF PersistFails
  <2> DEFINE k == call[c]
             ids == [i \in 1 .. 9 |-> i]
  <2>2. CASE Spend("fails")
    <3>1. Spent("fails")'
      BY <1>2, <2>2, Spending DEF ProxyInv
    <3> QED
      BY <2>1, <3>1 DEF Caused
  <2>3. CASE ~Valid(CallRecord(k, ids))
    <3>1. /\ Taken(k) /\ k.step = "saving" /\ IsSequence(k.history)
          /\ IsSequence(k.response.messages) /\ ~Valid(CallRecord(k, ids))
      BY <1>4, <2>3 DEF PersistFails, CallData
    <3> HIDE DEF k, ids
    <3>2. ~k.reply.whole \/ \E m \in ToSet(k.history) : m.role \notin Roles
      BY <3>1, ValidCall
    <3> QED
      BY <2>1, <3>2 DEF Caused, k
  <2>4. CASE Projected(CallRecord(k, ids)) # {} /\ ~Versioned(c)
    <3>1. HasEvidence(call[c])
      BY <2>4, EvidenceProjected
    <3> QED
      BY <1>2, <2>1, <2>4, <3>1 DEF Caused
  <2> QED
    BY <1>4, <2>2, <2>3, <2>4 DEF PersistFails, Accepted
<1>5. CASE PersistCall(c)
  <2>1. call'[c].step = "saved" /\ (HasEvidence(call'[c]) <=> HasEvidence(call[c]))
    BY <1>3, <1>5 DEF PersistCall
  <2>2. PICK ids : Accepted(c, CallRecord(call[c], ids))
    BY <1>5 DEF PersistCall, Save
  <2>3. HasEvidence(call[c]) => Versioned(c)
    BY <2>2, EvidenceProjected DEF Accepted
  <2> QED
    BY <1>2, <2>1, <2>3 DEF Caused
<1>6. CASE CallStep(c) /\ ~PersistFails(c) /\ ~PersistCall(c)
  <2>1. call'[c].step \notin {"lost", "saved"}
    <3>1. CASE Goes(c, "refused") \/ Goes(c, "cut") \/ Goes(c, "broken") \/ Goes(c, "copying")
      BY <1>3, <3>1
    <3>2. CASE Read(c)
      BY <1>1, <3>2 DEF Read, Captured, Unborn
    <3>3. CASE AddBlock(c) \/ Write(c) \/ StreamEnds(c) \/ ReadPrivacy(c)
      BY <1>1, <3>3 DEF AddBlock, Write, StreamEnds, ReadPrivacy, Unborn
    <3>4. CASE Arrive(c)
      BY <1>1, <3>1, <3>4 DEF Arrive, Unborn
    <3>5. CASE Unavailable502(c) \/ ClientGone(c) \/ StreamBreaks(c) \/ UpstreamAnswers(c)
      BY <3>1, <3>5 DEF Unavailable502, ClientGone, StreamBreaks, UpstreamAnswers
    <3> QED
      BY <1>6, <3>2, <3>3, <3>4, <3>5 DEF CallStep, Handler
  <2> QED
    BY <2>1 DEF Caused
<1>7. CASE ~CallStep(c)
  <2>1. Rested(call[c], call'[c])
    BY <1>7, OthersRest
  <2>2. /\ call'[c].reply = call[c].reply /\ call'[c].history = call[c].history
        /\ \A step \in {"lost", "saved"} : call'[c].step = step => call[c].step = step
    BY <2>1 DEF Rested
  <2>3. HasEvidence(call'[c]) <=> HasEvidence(call[c])
    BY <2>1 DEF Rested, HasEvidence, Messages, Answered
  <2> QED
    BY <1>2, <2>2, <2>3 DEF Caused
<1> QED
  BY <1>4, <1>5, <1>6, <1>7 DEF CallStep, Handler

\* All of it together is inductive.
AnswerInv == \A c \in Calls : Taken(call[c]) /\ Recorded(c) /\ Caused(c)

LEMMA AnswersKept ==
  ASSUME DataInv, AnswerInv, [Next]_vars
  PROVE  AnswerInv'
<1>1. ASSUME NEW c \in Calls PROVE Taken(call'[c]) /\ Recorded(c)' /\ Caused(c)'
  BY TakenKeptByAll, RecordedKept, CausedKept DEF AnswerInv, DataInv, CaptureInv
<1> QED
  BY <1>1 DEF AnswerInv

LEMMA AnswersAtStart == Init => AnswerInv
<1> SUFFICES ASSUME Init, NEW c \in Calls PROVE Taken(call[c]) /\ Recorded(c) /\ Caused(c)
  BY DEF AnswerInv
<1>1. call[c] = Unborn /\ request[c] = None
  BY DEF Init, StoreInit, Requests
<1>2. /\ Unborn.step = "none" /\ Unborn.read = 0 /\ Unborn.decoder = NewDecoder
      /\ Unborn.body = <<>> /\ Unborn.capturing
  BY DEF Unborn
<1>3. Taken(Unborn)
  BY <1>2 DEF Taken, Fresh, Reading, Answering, Persisting
<1> QED
  BY <1>1, <1>2, <1>3 DEF Recorded, Caused

LEMMA AnswersInvariant == Spec => [](DataInv /\ AnswerInv)
  BY AnswersAtStart, AnswersKept, DataInvariant, PTL DEF Spec

\* A record shows what was asked and what was answered.
LEMMA StoredIs ==
  ASSUME NEW R, NEW k, RecordOf(R, k), ~k.hidden,
         IsSequence(k.history), AllSaid(k.response.messages)
  PROVE  [i \in DOMAIN R.messages |->
            [role |-> R.messages[i].role, text |-> R.messages[i].text]]
           = [i \in DOMAIN k.history |-> [role |-> k.history[i].role, text |-> k.history[i].text]]
             \o k.response.messages
<1> DEFINE h == k.history
           said == k.response.messages
           answered == Answered(k)
           s == Messages(k)
           asked == [i \in DOMAIN h |-> [role |-> h[i].role, text |-> h[i].text]]
           stored == [i \in DOMAIN R.messages |->
                        [role |-> R.messages[i].role, text |-> R.messages[i].text]]
<1>1. /\ IsSequence(h) /\ IsSequence(said)
      /\ \A i \in DOMAIN said : said[i] = [role |-> said[i].role, text |-> said[i].text]
  BY DEF AllSaid, Says
<1>2. /\ DOMAIN answered = DOMAIN said
      /\ \A i \in DOMAIN said : answered[i].role = said[i].role /\ answered[i].text = said[i].text
      /\ answered = [i \in DOMAIN said |-> answered[i]]
  BY DEF Answered
<1>3. s = h \o answered
  BY DEF Messages
<1>4. /\ DOMAIN R.messages = DOMAIN s
      /\ \A i \in DOMAIN s : R.messages[i].role = s[i].role /\ R.messages[i].text = s[i].text
  BY DEF RecordOf
<1>5. /\ DOMAIN asked = DOMAIN h /\ asked = [i \in DOMAIN h |-> asked[i]]
      /\ \A i \in DOMAIN h : asked[i] = [role |-> h[i].role, text |-> h[i].text]
  OBVIOUS
<1>6. /\ DOMAIN stored = DOMAIN s /\ stored = [i \in DOMAIN s |-> stored[i]]
      /\ \A i \in DOMAIN s : stored[i] = [role |-> s[i].role, text |-> s[i].text]
  <2> HIDE DEF s
  <2> QED
    BY <1>4
<1> HIDE DEF h, said, answered, s, asked, stored
<1>7. /\ IsSequence(answered) /\ Len(answered) = Len(said)
      /\ IsSequence(asked) /\ Len(asked) = Len(h)
  BY <1>1, <1>2, <1>5, SequenceMapped
<1>8. IsSequence(s) /\ Len(s) = Len(h) + Len(said)
      /\ IsSequence(asked \o said) /\ Len(asked \o said) = Len(h) + Len(said)
  BY <1>1, <1>3, <1>7, SequencesJoined
<1>9. IsSequence(stored) /\ Len(stored) = Len(s)
  BY <1>6, <1>8, SequenceMapped
<1>10. /\ Len(h) \in Nat /\ Len(said) \in Nat /\ DOMAIN h = 1 .. Len(h)
       /\ DOMAIN said = 1 .. Len(said) /\ DOMAIN s = 1 .. Len(h) + Len(said)
  BY <1>1, <1>8, SequenceIs
<1>11. ASSUME NEW i \in 1 .. Len(h) + Len(said) PROVE stored[i] = (asked \o said)[i]
  <2>1. s[i] = IF i <= Len(h) THEN h[i] ELSE answered[i - Len(h)]
    <3>1. i \in 1 .. Len(h) + Len(answered)
      BY <1>7
    <3> QED
      BY <1>1, <1>3, <1>7, <3>1, JoinedAt
  <2>2. (asked \o said)[i] = IF i <= Len(h) THEN asked[i] ELSE said[i - Len(h)]
    <3>1. i \in 1 .. Len(asked) + Len(said)
      BY <1>7
    <3>2. (asked \o said)[i] = IF i <= Len(asked) THEN asked[i] ELSE said[i - Len(asked)]
      BY <1>1, <1>7, <3>1, JoinedAt
    <3> QED
      BY <1>7, <3>2
  <2>3. stored[i] = [role |-> s[i].role, text |-> s[i].text]
    BY <1>6, <1>10
  <2>4. CASE i <= Len(h)
    <3>1. i \in DOMAIN h
      BY <1>10, <2>4
    <3> QED
      BY <1>5, <2>1, <2>2, <2>3, <2>4, <3>1
  <2>5. CASE ~(i <= Len(h))
    <3>1. i - Len(h) \in DOMAIN said
      BY <1>10, <2>5
    <3> QED
      BY <1>1, <1>2, <2>1, <2>2, <2>3, <2>5, <3>1
  <2> QED
    BY <2>4, <2>5
<1>12. stored = asked \o said
  BY <1>8, <1>9, <1>11, SameSequence
<1> QED
  BY <1>12 DEF stored, asked, h, said

\* What is stored of a saved call is what the provider said, and its usage; of an
\* answer over the limit only the request is (protocol.go:26-65, openai.go:134-207,
\* anthropic.go:81-162, server.go:158-204).
THEOREM CapturesExact == Spec => []CaptureExact
<1>1. DataInv /\ AnswerInv => CaptureExact
  <2> SUFFICES ASSUME DataInv, AnswerInv, NEW c \in Calls, call[c].step = "saved",
                      request[c] # None, call[c].reply.whole
               PROVE
    LET k == call[c]
        short == Len(k.reply.bytes) <= CaptureLimit
        stored == [i \in DOMAIN request[c].messages |->
                     [role |-> request[c].messages[i].role, text |-> request[c].messages[i].text]]
        asked == [i \in DOMAIN k.history |->
                    [role |-> k.history[i].role, text |-> k.history[i].text]]
    IN  /\ request[c].usage = IF short THEN AnswerUsage(k.reply) ELSE Unavailable
        /\ ~k.hidden => stored = asked \o IF short THEN AnswerMessages(k.reply) ELSE <<>>
    BY DEF CaptureExact
  <2> DEFINE k == call[c]
             short == Len(k.reply.bytes) <= CaptureLimit
             R == request[c]
             said == IF short THEN AnswerMessages(k.reply) ELSE <<>>
  <2>1. Taken(k) /\ RecordOf(R, k) /\ IsSequence(k.history)
    BY DEF AnswerInv, Recorded, DataInv, CaptureInv, CallData
  <2>2. k.response = Expected(k.reply) /\ IsSequence(k.reply.fragments)
    BY <2>1 DEF Taken, Answering, Given
  <2>3. k.response.messages = said
    BY <2>2 DEF Expected
  <2>4. R.usage = IF short THEN AnswerUsage(k.reply) ELSE Unavailable
    BY <2>1, <2>2 DEF Expected, RecordOf
  <2>5. AllSaid(k.response.messages)
    <3>1. AllSaid(AnswerMessages(k.reply))
      BY <2>2, AnswerSays
    <3>2. AllSaid(<<>>)
      BY EmptySequence DEF AllSaid
    <3> HIDE DEF k
    <3> QED
      BY <2>3, <3>1, <3>2
  <2> HIDE DEF k, R
  <2>6. ~k.hidden =>
          [i \in DOMAIN R.messages |->
             [role |-> R.messages[i].role, text |-> R.messages[i].text]]
            = [i \in DOMAIN k.history |->
                 [role |-> k.history[i].role, text |-> k.history[i].text]]
              \o k.response.messages
    BY <2>1, <2>5, StoredIs
  <2> QED
    BY <2>3, <2>4, <2>6 DEF k, R
<1> QED
  BY <1>1, AnswersInvariant, PTL

\* A call that was answered in full is lost only to an error of the store, a role
\* it does not know, an answer whose end cannot be read, or for want of its
\* client's version, without which no call with evidence is ever stored
\* (server.go:189-203, 241, conversations.go:108-111, validate.go:59).
THEOREM CallsStoredOrCause == Spec => []CallStoredOrCause
<1>1. AnswerInv => CallStoredOrCause
  BY DEF AnswerInv, Caused, HasEvidence, CallStoredOrCause, Explained, Evident, Spent
<1> QED
  BY <1>1, AnswersInvariant, PTL
=============================================================================
