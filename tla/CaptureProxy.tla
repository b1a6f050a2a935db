---------------------------- MODULE CaptureProxy -----------------------------
(***************************************************************************)
(* The capture proxy, internal/proxy/server.go, in the process of          *)
(* "agent-doctor run -- command", or of "start", which may name a version  *)
(* of its client: a call is read, passed on to the provider, its answer    *)
(* copied to the client chunk by chunk and taken down on the side, and the *)
(* whole saved in the tables that ConversationStore's watcher, MCP server  *)
(* and dashboard use.  Headers, paths and timings are left out, the three  *)
(* seconds of Shutdown (five for "start") among them.                      *)
(*                                                                         *)
(* A reply is [protocol, stream, failed, fragments, bytes, whole]:         *)
(* fragments is what the provider says (payloads of StreamAssembly), bytes *)
(* the tokens it sends, whole whether these are well-formed and complete.  *)
(***************************************************************************)
EXTENDS ConversationStore, StreamAssembly

CONSTANTS Bodies(_),    \* bodies of requests, by scenario
          Replies(_),   \* what providers answer, by scenario
          CaptureLimit  \* captureLimit: tokens of an answer that are kept

WellFormed(reply) == IF reply.stream THEN WholeStream(reply.fragments, reply.bytes)
                     ELSE WholeBody(reply.fragments, reply.bytes)

ASSUME CaptureConstants ==
  /\ CaptureLimit \in Nat
  /\ \A s \in Scenarios :
       /\ \A body \in Bodies(s.replies) : IsSequence(body.messages) /\ IsSequence(body.input)
       /\ \A reply \in Replies(s.replies) :
            /\ IsSequence(reply.fragments) /\ IsSequence(reply.bytes)
            /\ reply.whole => WellFormed(reply)

VARIABLES call,    \* call[c]: the handler of call c
          wrapper  \* the process: "running", "stopping" (the command ended), "exited"

vars == <<storeVars, call, wrapper>>

Reading == {"waiting", "copying", "adding", "writing"}
Persisting == {"parsed", "saving"}
Ended == {"refused", "cut", "broken", "saved", "lost", "killed"}

Unborn == [step |-> "none", history |-> <<>>, reply |-> None, read |-> 0, written |-> 0,
           decoder |-> NewDecoder, body |-> <<>>, capturing |-> TRUE, response |-> Spoiled,
           hidden |-> FALSE, shown |-> FALSE]

Init == /\ StoreInit
        /\ call = [c \in Calls |-> Unborn]
        /\ wrapper = "running"

InProgress(c) == call[c].step \in Reading \cup Persisting \/ evaluation[c].step # "none"

Goes(c, step) == call' = [call EXCEPT ![c].step = step]
-----------------------------------------------------------------------------
(* serveHTTP *)

\* The body is read and parsed; one that is not JSON has no messages.  CONNECT,
\* and a body over the limit, are refused.  What the provider will say is settled.
Arrive(c) == /\ wrapper = "running"
             /\ call[c].step = "none"
             /\ Spend("calls")
             /\ \/ \E body \in Bodies(scenario.replies), reply \in Replies(scenario.replies) :
                     call' = [call EXCEPT ![c].step = "waiting", ![c].reply = reply,
                                          ![c].history = ParseRequest(reply.protocol, body)]
                \/ Goes(c, "refused")
             /\ UNCHANGED <<codex, prompts, tables, evaluation, listing, ghosts, wrapper>>

\* Do fails: "upstream unavailable", or the client is gone.
Unavailable502(c) == /\ call[c].step = "waiting"
                     /\ Spend("breaks")
                     /\ Goes(c, "refused")
                     /\ UNCHANGED <<codex, prompts, tables, evaluation, listing, ghosts, wrapper>>

\* Status and headers are there and passed on.
UpstreamAnswers(c) == /\ call[c].step = "waiting"
                      /\ Goes(c, "copying")
                      /\ UNCHANGED <<codex, prompts, tables, evaluation, listing, budget,
                                     ghosts, wrapper>>

\* A chunk meets the capture: a stream's decoder or the buffer of a body.
Captured(k, chunk) ==
  IF k.capturing /\ k.reply.stream
  THEN [k EXCEPT !.step = "adding", !.decoder = Filled(CaptureLimit, @, chunk)]
  ELSE LET fits == k.capturing /\ Len(k.body) + Len(chunk) <= CaptureLimit
       IN  [k EXCEPT !.step = "writing", !.capturing = fits,
                     !.body = IF fits THEN @ \o chunk ELSE @]

\* One turn of the loop reads a chunk ...
Read(c) ==
  LET k == call[c]
  IN  /\ k.step = "copying"
      /\ \E n \in 1 .. Len(k.reply.bytes) - k.read :
           call' = [call EXCEPT ![c] = [Captured(k, SubSeq(k.reply.bytes, k.read + 1, k.read + n))
                                         EXCEPT !.read = @ + n]]
      /\ UNCHANGED <<codex, prompts, tables, evaluation, listing, budget, ghosts, wrapper>>

\* ... takes in the blocks it completes ...
AddBlock(c) ==
  LET k == call[c]
  IN  /\ k.step = "adding"
      /\ call' = [call EXCEPT ![c] =
                    IF HasBlock(k.decoder)
                    THEN [k EXCEPT !.decoder = NextBlock(k.reply.protocol, @)]
                    ELSE [k EXCEPT !.step = "writing", !.capturing = ~k.decoder.failed]]
      /\ UNCHANGED <<codex, prompts, tables, evaluation, listing, budget, ghosts, wrapper>>

\* A slip the runs must notice: the copy ends when the capture does.
WriteWhileCapturing(c) ==
  LET k == call[c]
  IN  /\ k.step = "writing"
      /\ call' = [call EXCEPT ![c] = IF k.capturing
                                    THEN [k EXCEPT !.step = "copying", !.written = k.read]
                                    ELSE [k EXCEPT !.step = "broken"]]
      /\ UNCHANGED <<codex, prompts, tables, evaluation, listing, budget, ghosts, wrapper>>

\* ... and writes it to the client.
Write(c) ==
  LET k == call[c]
  IN  /\ k.step = "writing"
      /\ call' = [call EXCEPT ![c] = [k EXCEPT !.step = "copying", !.written = k.read]]
      /\ UNCHANGED <<codex, prompts, tables, evaluation, listing, budget, ghosts, wrapper>>

\* The client does not take it, or the stream breaks: nothing is stored.
ClientGone(c) == /\ call[c].step = "writing"
                 /\ Spend("breaks")
                 /\ Goes(c, "cut")
                 /\ UNCHANGED <<codex, prompts, tables, evaluation, listing, ghosts, wrapper>>
StreamBreaks(c) == /\ call[c].step = "copying"
                   /\ Spend("breaks")
                   /\ Goes(c, "broken")
                   /\ UNCHANGED <<codex, prompts, tables, evaluation, listing, ghosts, wrapper>>

\* A slip the runs must notice: an answer that was too long counts as one that
\* cannot be read.
ParsedOrSpoiled(k) ==
  IF ~k.capturing THEN Spoiled
  ELSE IF k.reply.stream THEN Complete(k.reply.protocol, k.decoder)
       ELSE ParseResponse(k.reply.protocol, k.body, k.reply.fragments)

\* What was taken down; parse errors are ignored, and without capture only the
\* request is known.
Parsed(k) ==
  IF ~k.capturing THEN [messages |-> <<>>, usage |-> Unavailable]
  ELSE IF k.reply.stream THEN Complete(k.reply.protocol, k.decoder)
       ELSE ParseResponse(k.reply.protocol, k.body, k.reply.fragments)

\* A slip the runs must notice: a call whose capture failed never gets there.
StreamEndsCaptured(c) ==
  LET k == call[c]
  IN  /\ k.step = "copying" /\ k.capturing
      /\ k.read = Len(k.reply.bytes)
      /\ call' = [call EXCEPT ![c] = [k EXCEPT !.step = "parsed", !.response = Parsed(k),
                                              !.shown = prompts]]
      /\ UNCHANGED <<codex, prompts, tables, evaluation, listing, budget, ghosts, wrapper>>

StreamEnds(c) ==
  LET k == call[c]
  IN  /\ k.step = "copying"
      /\ k.read = Len(k.reply.bytes)
      /\ call' = [call EXCEPT ![c] = [k EXCEPT !.step = "parsed", !.response = Parsed(k),
                                              !.shown = prompts]]
      /\ UNCHANGED <<codex, prompts, tables, evaluation, listing, budget, ghosts, wrapper>>
-----------------------------------------------------------------------------
(* persist *)

\* With prompts off the messages are left out; if the setting cannot be read
\* they stay.
ReadPrivacy(c) ==
  /\ call[c].step = "parsed"
  /\ \E hidden \in BOOLEAN :
       /\ \/ hidden = ~prompts /\ UNCHANGED budget
          \/ hidden = FALSE /\ Spend("reads")
       /\ call' = [call EXCEPT ![c].step = "saving", ![c].hidden = hidden]
  /\ UNCHANGED <<codex, prompts, tables, evaluation, listing, ghosts, wrapper>>

Answered(k) == [i \in DOMAIN k.response.messages |->
                  [role |-> k.response.messages[i].role, text |-> k.response.messages[i].text,
                   tool |-> IF k.response.messages[i].role = "tool" THEN "call" ELSE ""]]

\* A slip the runs must notice: only the answer is left out.
MessagesOfRequest(k) == k.history \o IF k.hidden THEN <<>> ELSE Answered(k)

Messages(k) == IF k.hidden THEN <<>> ELSE k.history \o Answered(k)

\* The record: fresh ids, which are ordered by chance; the request's messages are
\* stamped with its start, the answer's with its end.
CallRecord(k, ids) ==
  LET messages == Messages(k)
  IN  [id |-> <<"random", ids[Len(messages) + 1]>>, at |-> 2,
       status |-> IF k.reply.failed THEN "failed" ELSE "ok",
       usage |-> k.response.usage,
       messages |-> [i \in DOMAIN messages |->
                       [id |-> <<"random", ids[i]>>, role |-> messages[i].role,
                        tool |-> messages[i].tool, text |-> messages[i].text,
                        at |-> IF i <= Len(k.history) THEN 1 ELSE 2]]]

\* The ids order evidence of equal time: that of the messages and its reverse
\* stand for every order.
Orders(k) ==
  LET n == Len(Messages(k)) + 1
  IN  {[i \in 1 .. n |-> i], [i \in 1 .. n |-> n + 1 - i]}

PersistCall(c) ==
  /\ call[c].step = "saving"
  /\ \E ids \in Orders(call[c]) : Save(c, CallRecord(call[c], ids))
  /\ Goes(c, "saved")
  /\ UNCHANGED <<codex, prompts, listing, budget, rebased, dismissed, wrapper>>

\* The record is refused, by the store's checks of it and of its events or by the
\* database; nobody is told.
PersistFails(c) ==
  /\ call[c].step = "saving"
  /\ \/ ~Accepted(c, CallRecord(call[c], [i \in 1 .. 9 |-> i])) /\ UNCHANGED budget
     \/ Spend("fails")
  /\ Goes(c, "lost")
  /\ UNCHANGED <<codex, prompts, tables, evaluation, listing, ghosts, wrapper>>
-----------------------------------------------------------------------------
(* runWrapped *)

CommandEnds == /\ wrapper = "running"
               /\ Spend("ends")
               /\ wrapper' = "stopping"
               /\ UNCHANGED <<codex, prompts, tables, evaluation, listing, ghosts, call>>

\* A slip the runs must notice: Shutdown does not wait.
ExitAtOnce ==
  /\ wrapper = "stopping"
  /\ wrapper' = "exited"
  /\ call' = [c \in Calls |-> IF call[c].step \in Reading \cup Persisting
                               THEN [call[c] EXCEPT !.step = "killed"] ELSE call[c]]
  /\ evaluation' = [p \in DOMAIN evaluation |-> IF p \in Calls THEN Idle ELSE evaluation[p]]
  /\ missed' = missed \cup {c \in Calls : evaluation[c].step # "none"}
  /\ UNCHANGED <<codex, prompts, tables, listing, budget, rebased, dismissed>>

\* Shutdown returns when no call is in progress, or after three seconds; then the
\* database is closed and the process ends.
Exit ==
  /\ wrapper = "stopping"
  /\ IF \E c \in Calls : InProgress(c) THEN Spend("timeouts") ELSE UNCHANGED budget
  /\ wrapper' = "exited"
  /\ call' = [c \in Calls |-> IF call[c].step \in Reading \cup Persisting
                               THEN [call[c] EXCEPT !.step = "killed"] ELSE call[c]]
  /\ evaluation' = [p \in DOMAIN evaluation |-> IF p \in Calls THEN Idle ELSE evaluation[p]]
  /\ missed' = missed \cup {c \in Calls : evaluation[c].step # "none"}
  /\ UNCHANGED <<codex, prompts, tables, listing, rebased, dismissed>>

\* shown is for PromptsOffRespected: the setting was on since the answer ended.
Flip == /\ FlipPrompts
        /\ call' = [c \in Calls |->
             [call[c] EXCEPT !.shown = @ \/ (prompts' /\ call[c].step = "parsed")]]
        /\ UNCHANGED wrapper

Handler(c) == \/ UpstreamAnswers(c) \/ Read(c) \/ AddBlock(c) \/ Write(c)
              \/ StreamEnds(c) \/ ReadPrivacy(c) \/ PersistCall(c) \/ PersistFails(c)

ProxyStep == /\ \/ \E c \in Calls : \/ Arrive(c) \/ Handler(c)
                                    \/ Unavailable502(c) \/ ClientGone(c) \/ StreamBreaks(c)
                \/ CommandEnds \/ Exit \/ Flip
             /\ UNCHANGED scenario

Next == ProxyStep \/ (StoreStep /\ UNCHANGED <<call, wrapper>>)

Spec == Init /\ [][Next]_vars

\* A handler and the provider it talks to go on; nobody owes a call, a command's
\* end or a break.
FairSpec == Spec /\ \A c \in Calls : WF_vars(Handler(c) /\ UNCHANGED scenario)
-----------------------------------------------------------------------------
(* What an answer is, without assembling it *)

Places(fragments, types) == {k \in DOMAIN fragments : fragments[k].type \in types}
About(fragments, types, i) == {k \in Places(fragments, types) : fragments[k].at = i}

Texts(fragments, places) == [j \in 1 .. Cardinality(places) |-> Picked(fragments, places)[j].text]

OpenAIAnswer(fragments) ==
  LET texts == Places(fragments, {"text"})
      tools == Ascending({fragments[k].at : k \in Places(fragments, {"tool"})})
  IN  (IF texts = {} THEN <<>>
       ELSE <<[role |-> "assistant", text |-> Texts(fragments, texts)]>>)
      \o [j \in DOMAIN tools |->
            [role |-> "tool", text |-> Texts(fragments, About(fragments, {"tool"}, tools[j]))]]

\* A block is what it carried when it was last announced and what came since, a
\* text if it never was.
AnthropicAnswer(fragments) ==
  LET start(i) == Max({0} \cup About(fragments, {"start"}, i))
      since(type, i) == {k \in About(fragments, {type}, i) : k > start(i)}
      given(i) == IF start(i) = 0 THEN Blank ELSE fragments[start(i)].given
      isTool(i) == start(i) # 0 /\ fragments[start(i)].text = "tool"
      blocks == Ascending({fragments[k].at : k \in Places(fragments, {"start", "text", "tool"})})
  IN  [j \in DOMAIN blocks |->
         IF isTool(blocks[j])
         THEN [role |-> "tool",
               text |-> given(blocks[j]).input \o Texts(fragments, since("tool", blocks[j]))]
         ELSE [role |-> "assistant",
               text |-> given(blocks[j]).text \o Texts(fragments, since("text", blocks[j]))]]

BodyAnswer(fragments) ==
  LET parts == Picked(fragments, Places(fragments, {"text", "tool"}))
  IN  [j \in DOMAIN parts |-> [role |-> IF parts[j].type = "tool" THEN "tool" ELSE "assistant",
                               text |-> <<parts[j].text>>]]

AnswerMessages(reply) ==
  IF ~reply.stream THEN BodyAnswer(reply.fragments)
  ELSE IF reply.protocol = "anthropic" THEN AnthropicAnswer(reply.fragments)
  ELSE OpenAIAnswer(reply.fragments)

\* Exact as far as the provider reported anything; OpenAI's last report counts,
\* of Anthropic's the last that gives a number.
AnswerUsage(reply) ==
  LET fragments == reply.fragments
      reports == Places(fragments, {"usage"})
      naming(n) == {k \in reports : n \in DOMAIN fragments[k].counts}
      named == UNION {DOMAIN fragments[k].counts : k \in reports}
  IN  IF reports = {} THEN Unavailable
      ELSE [precision |-> "exact",
            counts |-> IF reply.protocol = "anthropic"
                       THEN [n \in named |-> fragments[Max(naming(n))].counts[n]]
                       ELSE fragments[Max(reports)].counts]
-----------------------------------------------------------------------------
(* Properties *)

TypeOK ==
  /\ Len(log) <= scenario.lines /\ cut \in 0 .. Len(log)
  /\ prompts \in BOOLEAN
  /\ \A r \in Requests : request[r] # None =>
       /\ Valid(request[r])
       /\ request[r].status \in {"open", "ok", "failed"}
  /\ \A r \in Requests : request[r] = None =>
       events[r] = <<>> /\ decisions[r] = {} /\ receipt[r] = None
  /\ \A p \in DOMAIN evaluation :
       evaluation[p].step \in {"none", "latest", "read", "persist", "decided", "recorded",
                               "answered", "failed"}
  /\ listing.step \in {"none", "row", "messages", "listed", "failed"}
  /\ \A c \in Calls :
       /\ call[c].step \in {"none"} \cup Reading \cup Persisting \cup Ended
       /\ call[c].written <= call[c].read
       /\ Len(call[c].body) <= CaptureLimit
       /\ Len(call[c].decoder.buffer) <= CaptureLimit
  /\ wrapper \in {"running", "stopping", "exited"}

\* However an answer is cut into chunks, what is stored of the call is what the
\* provider said: texts and tools put together by their index, usage exact only
\* where reported ("Missing usage is unavailable, not zero"); an answer over the
\* limit leaves the request alone (protocol.go:26-65, openai.go:134-207,
\* anthropic.go:81-162, server.go:158-204).
CaptureExact ==
  \A c \in Calls : call[c].step = "saved" /\ request[c] # None /\ call[c].reply.whole =>
    LET k == call[c]
        short == Len(k.reply.bytes) <= CaptureLimit
        stored == [i \in DOMAIN request[c].messages |->
                     [role |-> request[c].messages[i].role, text |-> request[c].messages[i].text]]
        asked == [i \in DOMAIN k.history |->
                    [role |-> k.history[i].role, text |-> k.history[i].text]]
    IN  /\ request[c].usage = IF short THEN AnswerUsage(k.reply) ELSE Unavailable
        /\ ~k.hidden => stored = asked \o IF short THEN AnswerMessages(k.reply) ELSE <<>>

\* The proxy "does not change the model's result" (the design of 2026-08-14,
\* live observability): whatever becomes of capture and store, a client that
\* stays and a provider that delivers get the answer across, all of it before
\* anything is stored (server.go:157-187).
AnswerPassedOn ==
  \A c \in Calls :
    /\ call[c].step \in {"cut", "broken"} => budget.breaks < scenario.breaks
    /\ call[c].step \in Persisting \cup {"saved", "lost"} =>
         call[c].written = Len(call[c].reply.bytes)

\* A call is not stored when the store fails, when it has a role the store does
\* not know (OpenAI's "developer"), or when the end of its answer cannot be read:
\* then it goes unrecorded, error page and all (server.go:189-203, 241).
Explained(c) ==
  \/ budget.fails < scenario.fails
  \/ ~call[c].reply.whole
  \/ \E m \in ToSet(call[c].history) : m.role \notin Roles

\* Nor when it has evidence, its success or its tools, and the proxy names no
\* version of its client, as "run" does not (app.go:601-604, validate.go:59).
Evident(c) == \/ ~call[c].reply.failed
              \/ \E m \in ToSet(Messages(call[c])) : m.tool # ""

\* A call that was answered in full is stored or has one of these causes, and of
\* a client without a version nothing with evidence ever is.
CallStoredOrCause ==
  \A c \in Calls :
    /\ call[c].step = "lost" => Explained(c) \/ (Evident(c) /\ ~scenario.versioned)
    /\ call[c].step = "saved" /\ Evident(c) => scenario.versioned

\* "When a client is started through the loopback capture proxy, Agent Doctor
\* stores its complete user, assistant, system, and tool messages" (privacy.md).
StartedThroughProxyStored == \A c \in Calls : call[c].step = "lost" => Explained(c)

\* A command that ends takes no call with it that is done within Shutdown's three
\* seconds, its record and its evaluation included (app.go:614-621).
ShutdownWaits ==
  (\E c \in Calls : call[c].step = "killed" \/ c \in missed) =>
    budget.timeouts < scenario.timeouts \/ budget.fails < scenario.fails

\* With prompts off from the end of an answer to its record, no message of the
\* call is stored, unless the setting could not be read (server.go:211-215).
PromptsOffRespected ==
  \A c \in Calls :
    request[c] # None /\ request[c].messages # <<>> =>
      call[c].shown \/ budget.reads < scenario.reads

\* Every call ends, as long as its provider goes on; there is no timeout
\* (server.go:76, 157-187).
CallEnds == \A c \in Calls : call[c].step \in Reading ~> call[c].step \in Ended
=============================================================================
