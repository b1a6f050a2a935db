-------------------------- MODULE ConversationStore --------------------------
(***************************************************************************)
(* The conversation tables of internal/storage and those who use them: the *)
(* watcher that saves one turn of Codex again and again as it grows, the   *)
(* evaluation after every save, an MCP server asked for guidance, the      *)
(* dashboard's list, and the user who deletes and changes settings.        *)
(*                                                                         *)
(* A session holds one request here, so one name stands for both: Watched  *)
(* is the turn of Codex, Calls are those of the proxy (CaptureProxy).      *)
(* Times are positions in the turn's log; models, projects, token counts   *)
(* of the watched turn and the expiry of decisions are left out.           *)
(***************************************************************************)
EXTENDS GuidanceEngine, FiniteSets

CONSTANTS Watched,   \* the turn the watcher follows
          Calls,     \* requests the proxy may save
          Mcp,       \* the MCP server
          None,      \* no row
          Items,     \* what Codex may log: [named, tool, text]
          Scenarios  \* bounds: records of how often things may happen

Requests == {Watched} \cup Calls

\* What a scenario bounds.
Bounds == {"lines", "deletes", "flips", "resumes", "restarts", "fails", "asks", "lists",
           "calls", "breaks", "reads", "timeouts", "ends"}

\* What is saved of the watched turn.
TurnMessages == [id : {"item", "index"} \X Int, at : Nat, role : {"user", "tool"},
                 tool : {item.tool : item \in Items}, text : {item.text : item \in Items}]
TurnRecords == [id : {<<"request", 0>>}, at : Nat, status : {"open", "ok"},
                usage : [precision : {"unavailable"}], messages : Seq(TurnMessages)]

\* What evidence, guidance and the record of its deliveries look like.
EventIds == [of : {"item", "index", "request", "random"} \X Int,
             type : {"tool.completed", "tool.failed", "command.completed"}]
Receipts == [count : Nat,
             decision : [kind : {"continue", "advise", "redirect", "verify"},
                         evidence : Seq(EventIds)]]

ASSUME StoreConstants ==
  /\ IsFiniteSet(Calls) /\ Watched \notin Calls /\ Mcp \notin Requests
  /\ None \notin TurnRecords \cup Receipts
  /\ \A s \in Scenarios, what \in Bounds : what \in DOMAIN s /\ s[what] \in Nat
  /\ \A s \in Scenarios : s.versioned \in BOOLEAN

VARIABLES
  log,        \* items of the watched turn
  closed,     \* the turn is complete
  cut,        \* the watcher's captureAfter: items up to here are dropped
  signature,  \* what the watcher saved last, None after a restart
  prompts,    \* the setting "capture prompts"
  request,    \* request[r]: row and messages, or None
  events,     \* events[r]: the session's evidence in the order it is listed
  decisions,  \* decisions[r]: stored guidance
  receipt,    \* receipt[r]: deliveries of guidance, or None
  evaluation, \* evaluation[p]: where p is, a saver or the MCP server
  listing,    \* the dashboard's list as it is put together
  scenario, budget, \* bounds of this behaviour, and what is left of them
  rebased,    \* the ids of items changed: a cut after a save, or one forgotten
  missed,     \* sessions whose last evaluation met an error
  dismissed   \* what this watcher had saved when the user deleted it

tables == <<request, events, decisions, receipt>>
codex == <<log, closed, cut, signature>>
ghosts == <<rebased, missed, dismissed>>
storeVars == <<codex, prompts, tables, evaluation, listing, scenario, budget, ghosts>>

Idle == [step |-> "none", session |-> None, decision |-> Continue,
         precision |-> "none", gone |-> FALSE]
NoListing == [step |-> "none", todo |-> <<>>, status |-> "none", rows |-> {}, gone |-> FALSE]

StoreInit == /\ log = <<>>
             /\ closed = FALSE
             /\ cut = 0
             /\ signature = None
             /\ prompts = TRUE
             /\ request = [r \in Requests |-> None]
             /\ events = [r \in Requests |-> <<>>]
             /\ decisions = [r \in Requests |-> {}]
             /\ receipt = [r \in Requests |-> None]
             /\ evaluation = [p \in Requests \cup {Mcp} |-> Idle]
             /\ listing = NoListing
             /\ scenario \in Scenarios
             /\ budget = scenario
             /\ rebased = FALSE
             /\ missed = {}
             /\ dismissed = None

Spend(what) == /\ budget[what] > 0
               /\ budget' = [budget EXCEPT ![what] = @ - 1]
-----------------------------------------------------------------------------
(* Projection: the evidence of a saved record.  A message is              *)
(* [id, role, tool, text, at]; tool "" is none.                           *)

Event(message, type) == [id |-> [of |-> message.id, type |-> type], type |-> type,
                         tool |-> message.tool, text |-> message.text, at |-> message.at]

ToolMessages(record) == {m \in ToSet(record.messages) : m.tool # ""}

\* ProjectConversation.  A failed request counts its tools as failed; one that
\* is still open (status 0) has no event of its own.
Projected(record) ==
  LET type == IF record.status = "failed" THEN "tool.failed" ELSE "tool.completed"
  IN  {Event(m, type) : m \in ToolMessages(record)}
      \cup IF record.status # "ok" THEN {}
           ELSE {Event([id |-> record.id, tool |-> "", text |-> <<>>, at |-> record.at],
                       "command.completed")}

\* The order of a session's list: by time, then by id, a hash.
Before(d, e) == \/ d.at < e.at
                \/ d.at = e.at /\ d.id.of[2] < e.id.of[2]

Listed(S) == [i \in 1 .. Cardinality(S) |->
                CHOOSE e \in S : Cardinality({d \in S : Before(d, e)}) = i - 1]

\* A slip the runs must notice: the id of an event is new with every save.
MergedAnew(old, record) ==
  Listed(ToSet(old) \cup
         {[e EXCEPT !.id.of[2] = @ + 10 * Len(old)] : e \in Projected(record)})

\* insertEventTx: an id that is there already is left alone.
Merged(old, record) ==
  Listed(ToSet(old) \cup {e \in Projected(record) : \A d \in ToSet(old) : d.id # e.id})

\* What guidance.Project makes of the session's events.
Signal(e) == [id |-> e.id,
              kind |-> IF e.type = "command.completed" THEN "progress" ELSE e.type,
              tool |-> e.tool, input |-> e.text, result |-> <<>>,
              progress |-> \/ e.type = "command.completed"
                           \/ e.type = "tool.completed" /\ IsProgressTool(e.tool)]

Guidance(r) == Evaluate([i \in DOMAIN events[r] |-> Signal(events[r][i])])
-----------------------------------------------------------------------------
(* SaveConversationRequest *)

\* validateConversationRequest, as far as a caller can fail it.
Roles == {"system", "user", "assistant", "tool"}
Valid(record) == /\ record.usage.precision \in {"exact", "estimated", "unavailable"}
                 /\ \A m \in ToSet(record.messages) : m.role \in Roles

\* events.Validate wants the client's version with every event.  Codex's sessions
\* name theirs; the proxy of "start" takes it from the environment, that of "run"
\* has none.
Versioned(r) == r = Watched \/ scenario.versioned

\* Row, messages and events go into one transaction: an event that is refused
\* takes the record with it.
Accepted(r, record) == Valid(record) /\ (Projected(record) = {} \/ Versioned(r))

\* A slip the runs must notice: only a finished request is evaluated.
SaveEvaluatesFinished(r, record) ==
  /\ Accepted(r, record)
  /\ request' = [request EXCEPT ![r] = record]
  /\ events' = [events EXCEPT ![r] = Merged(@, record)]
  /\ evaluation' = IF record.status = "open" THEN evaluation
                   ELSE [evaluation EXCEPT ![r] = [Idle EXCEPT !.step = "read", !.session = r]]
  /\ missed' = missed \ {r}
  /\ UNCHANGED <<decisions, receipt>>

\* A slip the runs must notice: messages that are there are left as they are.
SaveKeepsMessages(r, record) ==
  /\ Accepted(r, record)
  /\ request' = [request EXCEPT ![r] =
                   IF @ = None \/ @.messages = <<>> THEN record
                   ELSE [record EXCEPT !.messages = request[r].messages]]
  /\ events' = [events EXCEPT ![r] = Merged(@, record)]
  /\ evaluation' = [evaluation EXCEPT ![r] = [Idle EXCEPT !.step = "read", !.session = r]]
  /\ missed' = missed \ {r}
  /\ UNCHANGED <<decisions, receipt>>

\* The transaction replaces row and messages and adds what evidence is new;
\* then, outside of it, the saver evaluates.
Save(r, record) ==
  /\ Accepted(r, record)
  /\ request' = [request EXCEPT ![r] = record]
  /\ events' = [events EXCEPT ![r] = Merged(@, record)]
  /\ evaluation' = [evaluation EXCEPT ![r] = [Idle EXCEPT !.step = "read", !.session = r]]
  /\ missed' = missed \ {r}
  /\ UNCHANGED <<decisions, receipt>>

\* DeleteConversationSession and the foreign keys' cascade; the retention of
\* SavePrivacySettings deletes the same way.  gone is for the properties.
DeleteSession(r) ==
  /\ request[r] # None
  /\ Spend("deletes")
  /\ request' = [request EXCEPT ![r] = None]
  /\ events' = [events EXCEPT ![r] = <<>>]
  /\ decisions' = [decisions EXCEPT ![r] = {}]
  /\ receipt' = [receipt EXCEPT ![r] = None]
  /\ evaluation' = [p \in DOMAIN evaluation |->
                      [evaluation[p] EXCEPT !.gone = @ \/ evaluation[p].session = r]]
  /\ listing' = [listing EXCEPT !.gone = TRUE]
  /\ dismissed' = IF r = Watched /\ signature # None THEN request[r] ELSE dismissed
  /\ UNCHANGED <<codex, prompts, rebased, missed>>

\* SavePrivacySettings
FlipPrompts == /\ Spend("flips")
               /\ prompts' = ~prompts
               /\ UNCHANGED <<codex, tables, evaluation, listing, ghosts>>
-----------------------------------------------------------------------------
(* Codex and the watcher.  SessionWatcher has the scan in its steps; here a *)
(* save is whole.                                                          *)

CodexWrites(item) == /\ ~closed
                     /\ Spend("lines")
                     /\ log' = Append(log, item)
                     /\ UNCHANGED <<closed, cut, signature, prompts, tables,
                                    evaluation, listing, ghosts>>

CodexCompletes == /\ log # <<>> /\ ~closed
                  /\ Spend("lines")
                  /\ closed' = TRUE
                  /\ UNCHANGED <<log, cut, signature, prompts, tables,
                                 evaluation, listing, ghosts>>

\* A slip the runs must notice: without an id of its own an item is named by its tool.
MessageIdOfTool(i) == IF log[i].named THEN <<"item", i>> ELSE <<"tool", 0>>

\* consumeResponse: an item without an id is named by its place among those kept.
MessageId(i) == IF log[i].named THEN <<"item", i>> ELSE <<"index", i - 1 - cut>>

\* The turn as the parser sees it.
WatchedRecord ==
  LET kept == SubSeq(log, cut + 1, Len(log))
  IN  [id |-> <<"request", 0>>, at |-> Len(log) + 1,
       status |-> IF closed THEN "ok" ELSE "open",
       usage |-> [precision |-> "unavailable"],
       messages |-> IF prompts
                    THEN [i \in DOMAIN kept |->
                            [id |-> MessageId(cut + i), at |-> cut + i,
                             role |-> IF kept[i].tool = "" THEN "user" ELSE "tool",
                             tool |-> kept[i].tool, text |-> kept[i].text]]
                    ELSE <<>>]

WatcherFree == evaluation[Watched].step = "none"

\* A slip the runs must notice: what was saved last is not compared.
SaveWatchedAlways == /\ WatcherFree
                     /\ Len(log) > cut
                     /\ Save(Watched, WatchedRecord)
                     /\ signature' = WatchedRecord
                     /\ UNCHANGED <<log, closed, cut, prompts, listing, budget, rebased, dismissed>>

\* importFile, unless nothing changed since this watcher saved it.
SaveWatched == /\ WatcherFree
               /\ Len(log) > cut
               /\ signature # WatchedRecord
               /\ Save(Watched, WatchedRecord)
               /\ signature' = WatchedRecord
               /\ UNCHANGED <<log, closed, cut, prompts, listing, budget, rebased, dismissed>>

\* A pause is over: the scan that notices moves the cut-off.
Resume == /\ WatcherFree
          /\ Spend("resumes")
          /\ cut' = Len(log)
          /\ rebased' = (rebased \/ request[Watched] # None)
          /\ UNCHANGED <<log, closed, signature, prompts, tables, evaluation, listing,
                         missed, dismissed>>

\* The daemon is started again: cut-off and signatures are gone, and with them
\* an evaluation under way.
Restart == /\ Spend("restarts")
           /\ cut' = 0
           /\ signature' = None
           /\ evaluation' = [evaluation EXCEPT ![Watched] = Idle]
           /\ rebased' = (rebased \/ cut > 0)
           /\ dismissed' = None
           /\ missed' = missed \cup IF WatcherFree THEN {} ELSE {Watched}
           /\ UNCHANGED <<log, closed, prompts, tables, listing>>
-----------------------------------------------------------------------------
(* RuntimeGuidance, by a saver that ignores the result or the MCP server *)

\* Where p goes after the evaluation.
Concluded(p, step, decision) ==
  evaluation' = [evaluation EXCEPT ![p] =
                   IF p = Mcp THEN [@ EXCEPT !.step = step, !.decision = decision] ELSE Idle]

\* A session without evidence is an error.
ReadEvidence(p) ==
  LET session == evaluation[p].session
      decision == Guidance(session)
  IN  /\ evaluation[p].step = "read"
      /\ IF events[session] = <<>> THEN Concluded(p, "failed", Continue)
         ELSE IF decision.kind = "continue" THEN Concluded(p, "decided", Continue)
         ELSE evaluation' = [evaluation EXCEPT ![p] =
                               [@ EXCEPT !.step = "persist", !.decision = decision]]
      /\ UNCHANGED <<codex, prompts, tables, listing, budget, ghosts>>

\* The insert needs the session's row.
PersistDecision(p) ==
  LET session == evaluation[p].session
  IN  /\ evaluation[p].step = "persist"
      /\ IF request[session] = None
         THEN Concluded(p, "failed", Continue) /\ UNCHANGED decisions
         ELSE /\ decisions' = [decisions EXCEPT ![session] = @ \cup {evaluation[p].decision}]
              /\ Concluded(p, "decided", evaluation[p].decision)
      /\ UNCHANGED <<codex, prompts, request, events, receipt, listing, budget, ghosts>>

\* A query fails.
EvaluationFails(p) ==
  /\ evaluation[p].step \in {"latest", "read", "persist", "decided"}
  /\ Spend("fails")
  /\ Concluded(p, "failed", Continue)
  /\ missed' = IF p = Mcp THEN missed ELSE missed \cup {evaluation[p].session}
  /\ UNCHANGED <<codex, prompts, tables, listing, rebased, dismissed>>

\* get_runtime_guidance: of a session, or of the newest one of a project.  Which
\* is the newest depends on times that are left out.
Ask(session, step) ==
  /\ evaluation[Mcp].step \in {"none", "answered", "failed"}
  /\ Spend("asks")
  /\ evaluation' = [evaluation EXCEPT ![Mcp] = [Idle EXCEPT !.step = step, !.session = session]]
  /\ UNCHANGED <<codex, prompts, tables, listing, ghosts>>

AskSession(r) == Ask(r, "read")
AskLatest(r) == request[r] # None /\ Ask(r, "latest")

\* Without a session the answer would be to go on, but a receipt needs one.
AskNobody == (\A r \in Requests : request[r] = None) /\ Ask(None, "failed")

\* LatestRuntimeGuidance: a session without evidence gives no reason to step in.
ReadLatest ==
  /\ evaluation[Mcp].step = "latest"
  /\ IF events[evaluation[Mcp].session] = <<>> THEN Concluded(Mcp, "decided", Continue)
     ELSE evaluation' = [evaluation EXCEPT ![Mcp].step = "read"]
  /\ UNCHANGED <<codex, prompts, tables, listing, budget, ghosts>>

\* A slip the runs must notice: guidance to go on leaves no receipt.
RecordInterventions ==
  LET session == evaluation[Mcp].session
      decision == evaluation[Mcp].decision
  IN  /\ evaluation[Mcp].step = "decided"
      /\ IF request[session] = None THEN Concluded(Mcp, "failed", decision) /\ UNCHANGED receipt
         ELSE /\ receipt' = IF decision.kind = "continue" THEN receipt
                            ELSE [receipt EXCEPT ![session] =
                              [count |-> IF @ = None THEN 1 ELSE @.count + 1, decision |-> decision]]
              /\ Concluded(Mcp, "recorded", decision)
      /\ UNCHANGED <<codex, prompts, request, events, decisions, listing, budget, ghosts>>

\* RecordGuidanceDelivery, one row per session, the newest delivery on it.
RecordDelivery ==
  LET session == evaluation[Mcp].session
      decision == evaluation[Mcp].decision
  IN  /\ evaluation[Mcp].step = "decided"
      /\ IF request[session] = None THEN Concluded(Mcp, "failed", decision) /\ UNCHANGED receipt
         ELSE /\ receipt' = [receipt EXCEPT ![session] =
                   [count |-> IF @ = None THEN 1 ELSE @.count + 1, decision |-> decision]]
              /\ Concluded(Mcp, "recorded", decision)
      /\ UNCHANGED <<codex, prompts, request, events, decisions, listing, budget, ghosts>>

InPlace(session, decision) ==
  ToSet(decision.evidence) \subseteq {e.id : e \in ToSet(events[session])}

\* guidancePrecision: only with all its evidence in place is a decision called
\* exact; without evidence nothing is read.  A list that cannot be read makes the
\* answer unavailable, not the question an error.
Precision(session, decision, precision) ==
  \/ /\ precision = IF InPlace(session, decision) THEN "exact" ELSE "unavailable"
     /\ UNCHANGED budget
  \/ decision.evidence # <<>> /\ precision = "unavailable" /\ Spend("fails")

Answer ==
  LET m == evaluation[Mcp]
  IN  /\ m.step = "recorded"
      /\ \E precision \in {"exact", "unavailable"} :
           /\ Precision(m.session, m.decision, precision)
           /\ evaluation' = [evaluation EXCEPT ![Mcp].step = "answered",
                                               ![Mcp].precision = precision]
      /\ UNCHANGED <<codex, prompts, tables, listing, ghosts>>
-----------------------------------------------------------------------------
(* ListConversationRequests: the ids, then row and messages one by one *)

ListIds ==
  /\ listing.step \in {"none", "listed", "failed"}
  /\ Spend("lists")
  /\ listing' = [NoListing EXCEPT !.step = "row",
                   !.todo = SetToSeq({r \in Requests : request[r] # None})]
  /\ UNCHANGED <<codex, prompts, tables, evaluation, ghosts>>

\* GetConversationRequest, first query: a row that is gone fails the list.
ReadRow ==
  LET r == Head(listing.todo)
  IN  /\ listing.step = "row" /\ listing.todo # <<>>
      /\ listing' = IF request[r] = None THEN [listing EXCEPT !.step = "failed"]
                    ELSE [listing EXCEPT !.step = "messages", !.status = request[r].status]
      /\ UNCHANGED <<codex, prompts, tables, evaluation, budget, ghosts>>

\* Its second query: of a row that is gone there are none.
ReadMessages ==
  LET r == Head(listing.todo)
  IN  /\ listing.step = "messages"
      /\ listing' = [listing EXCEPT
           !.step = "row", !.todo = Tail(@),
           !.rows = @ \cup {[of |-> r, status |-> listing.status,
                             messages |-> IF request[r] = None THEN <<>>
                                          ELSE request[r].messages]}]
      /\ UNCHANGED <<codex, prompts, tables, evaluation, budget, ghosts>>

\* One of the queries fails, and the list with it: that of the ids, when none is
\* read yet, or one of a row's two.
ListFails ==
  /\ listing.step \in {"row", "messages"}
  /\ listing.todo # <<>> \/ listing.rows = {}
  /\ Spend("fails")
  /\ listing' = [listing EXCEPT !.step = "failed"]
  /\ UNCHANGED <<codex, prompts, tables, evaluation, ghosts>>

ListEnds == /\ listing.step = "row" /\ listing.todo = <<>>
            /\ listing' = [listing EXCEPT !.step = "listed"]
            /\ UNCHANGED <<codex, prompts, tables, evaluation, budget, ghosts>>
-----------------------------------------------------------------------------
WatcherStep == SaveWatched \/ Resume \/ Restart

EvaluationStep == \E p \in Requests \cup {Mcp} :
                    ReadEvidence(p) \/ PersistDecision(p) \/ EvaluationFails(p)

McpStep == \/ \E r \in Requests : AskSession(r) \/ AskLatest(r)
           \/ AskNobody \/ ReadLatest \/ RecordDelivery \/ Answer

DashboardStep == ListIds \/ ReadRow \/ ReadMessages \/ ListFails \/ ListEnds

StoreStep == /\ \/ \E item \in Items : CodexWrites(item)
                \/ CodexCompletes
                \/ \E r \in Requests : DeleteSession(r)
                \/ WatcherStep \/ EvaluationStep \/ McpStep \/ DashboardStep
             /\ UNCHANGED scenario
-----------------------------------------------------------------------------
(* Properties *)

\* What a stored turn shows of tools is in its session's evidence, content and
\* all, whatever was saved, deleted or switched before (conversations.go:69-112).
\* Not when a resume or a restart gave its items other ids: then new evidence
\* may meet the id of an old item and is dropped.
EvidenceOfMessages ==
  \A r \in Requests : request[r] # None /\ ~(r = Watched /\ rebased) =>
    \A m \in ToolMessages(request[r]) :
      \E e \in ToSet(events[r]) : e.at = m.at /\ e.tool = m.tool /\ e.text = m.text

\* "Projection must be idempotent: the same request saved again produces no
\* event twice" (the design of 2026-08-14): one item is evidence once, however
\* often the growing turn was saved, with the same exception.
ItemCountsOnce ==
  ~rebased => \A r \in Requests : \A i, j \in DOMAIN events[r] :
                i # j /\ events[r][i].tool # "" =>
                  \/ events[r][i].at # events[r][j].at
                  \/ r \in Calls

\* "Re-evaluate immediately so the dashboard and connected agents can react"
\* (conversations.go:116-118): between saves, a session whose evidence calls for
\* guidance has it stored, unless the evaluation met an error.
GuidanceFollowsEvidence ==
  \A r \in Requests :
    /\ request[r] # None /\ r \notin missed /\ evaluation[r].step = "none"
    /\ Guidance(r).kind # "continue"
    => Guidance(r) \in decisions[r]

\* What the MCP server answered is on record: the session's receipt, the stored
\* decision ("the same persisted decision", the design of 2026-08-14) and all its
\* evidence, unless the session was deleted meanwhile; and it is called exact,
\* unless the evidence could not be read again (app/guidance.go:65-123).
AnswerOnRecord ==
  LET m == evaluation[Mcp]
  IN  m.step = "answered" /\ ~m.gone =>
        /\ receipt[m.session] # None
        /\ receipt[m.session].decision = m.decision
        /\ m.decision.kind # "continue" => m.decision \in decisions[m.session]
        /\ InPlace(m.session, m.decision)
        /\ m.precision = "exact" \/ budget.fails < scenario.fails

\* The dashboard's list, put together from many queries, shows a completed turn
\* with all its messages or, when it was deleted in between, with none; it fails
\* only over a deletion or an error of the database (conversations.go:255-294).
ListingFaithful ==
  /\ listing.step = "failed" => listing.gone \/ budget.fails < scenario.fails
  /\ scenario.resumes + scenario.flips = 0 =>
       \A row \in listing.rows : row.of = Watched /\ row.status = "ok" =>
         \/ Len(row.messages) = Len(log)
         \/ row.messages = <<>> /\ listing.gone

\* A session that was saved and then deleted by the user does not come back as it
\* was: only with something new to save, or when the daemon was restarted
\* (sessionlog.go:250-262).
DeletedStaysAway ==
  [][request[Watched] = None /\ request'[Watched] # None =>
       request'[Watched] # dismissed]_storeVars
=============================================================================
