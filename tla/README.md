# Agent Doctor: a formal model

TLA+ modules that model Agent Doctor (Go, `src/internal`, and a little of the
TypeScript dashboard), TLC configurations that check them on small instances,
and TLAPS proofs. `PROJECT.json` maps each definition to the lines it
translates and lists the runs, the hazards they are aimed at, and the findings.

Conventions: an action is a whole handler, or the part of it between two
points where another actor can get in. An operator introduced as a *slip* or a
*mutant* is a plausible bug that the checks are shown to notice; no
specification uses one. Constants named `Max...` are bounds of the model, not
of the program.

## The system

Agent Doctor is one binary that runs as several processes sharing a SQLite
database and the user's configuration files:

| part | state | operations | interacts with |
| --- | --- | --- | --- |
| Live updates (`realtime`, `server` `/api/v1/live`, `dashboard/src/live.ts`) | bounded history, one buffered channel per subscriber | publish, subscribe with replay, cancel; forward to the socket; reconnect | every route that changes data publishes; a goroutine per connection |
| Codex session watcher (`adapters/codex/sessionlog.go`) | sizes, signatures, policy and cut-off, in memory only | poll, parse the newest turn, save, report the connection | Codex's files, pause file, privacy settings, store |
| Claude Code hook (`app`, `adapters/claudecode`, `guidance`, `storage/guidance.go`) | tables events, guidance_decisions, guidance level | a process per lifecycle call: insert, evaluate, persist, answer | parallel hooks and the dashboard, through SQLite only |
| Guidance rules (`guidance`) | none | project events to signals, evaluate | hook, MCP server, store |
| Project memory, in process (`context/memory.go`) | memories, tombstones, cache per project | observe, list, disable, enable, delete | a library (only tests call it today) |
| Project memory, rows (`storage/memory.go`) | table memories | create, list, update, delete | dashboard, handoff |
| Installer (`installer`, `app`) | the user's files, backup directories | plan, apply, roll back, uninstall | the user's editor, other processes |
| Conversation store (`storage/conversations.go`, `guidance/conversation_projector.go`, `storage/guidance.go`) | tables requests, messages, events, guidance_decisions, guidance_delivery_receipts | save (replaces a turn, projects evidence, evaluates), list, delete, retention | watcher, proxy, MCP server, dashboard |
| Handoff (`storage/handoff.go`, `handoff`) | receipts | assemble a capsule, record its delivery | hook, MCP, dashboard |
| Capture proxy (`proxy`, in the process of `run --` or `start`) | per call: decoder, captured body | forward chunk by chunk, capture aside, persist, shut down | client, provider, privacy settings, store |
| Stream assembly (`conversations`) | decoder's buffer, assembler's parts | cut into blocks, consume, complete, parse bodies | proxy |
| MCP server (`mcp`, `app/guidance.go`) | none | get_runtime_guidance: latest session, evaluate, persist, record the delivery | connected agents, store |
| Database (`storage/db.go`, `migrate.go`) | schema version, backups | open, migrate, recover read-only | every process |
| CLI, detection, other adapters, costs, capsule, updates, replay, validation, comparison, diagnostics | little or none | pure or sequential | |

What makes the system hard to test: several processes without locks around
files and tables; a watcher whose policy can change between any two of its
steps and whose memory dies with it; clients that come, go and lag; rules whose
order matters; answers that come in chunks cut anywhere; evaluations outside the
transaction that caused them; and rollbacks that can fail themselves. `PROJECT.json` lists the
hazards at their lines.

## Modules

| module | models | composition |
| --- | --- | --- |
| `EventFeed` | what a dashboard is promised: ids in order, gaps only over expired ids | abstract specification |
| `RealtimeHub` | `hub.go`, `liveEvents`, the `EventSource` | implements `EventFeed` (`published <- nextID, seen <- lastSeen`) |
| `RealtimeHubProofs` | theorems | extends `RealtimeHub` |
| `SessionWatcher` | the watcher, Codex, the user's pauses and switches, restarts | |
| `SessionWatcherProofs` | theorems | extends `SessionWatcher` |
| `StreamAssembly` | requests, event-stream decoder, assemblers, plain bodies, as operators | |
| `ConversationStore` | save with projection and evaluation, MCP server, dashboard's list, deletion; Codex's growing turn | extends `GuidanceEngine` |
| `CaptureProxy` | the proxy's calls, the wrapped command, on the tables of the store | extends `ConversationStore`, `StreamAssembly` |
| `CaptureProxyProofs` | theorems about both | extends `CaptureProxy`, `GuidanceProofs` |
| `MemoryManager` | `context/memory.go` | |
| `GuidanceEngine` | the rules, as operators on a sequence of signals | |
| `GuidanceSession` | a growing session; reference definitions of the rules | extends `GuidanceEngine` |
| `GuidanceProofs` | theorems about the rules | extends `GuidanceSession` |
| `GuidanceHook` | hook processes on the shared tables | extends `GuidanceEngine` |
| `GuidanceHookProofs` | theorems | extends `GuidanceHook` |
| `Installer` | plan, apply, roll back, uninstall | |
| `InstallerProofs` | theorems | extends `Installer` |
| `DatabaseOpening` | `db.go`, `migrate.go` | |
| `DatabaseOpeningProofs` | theorems | extends `DatabaseOpening` |
| `ProjectMemory` | `storage/memory.go`, with concurrent editors | |
| `ProjectHandoff` | `storage/handoff.go`, the hook's SessionStart, saves and deletions of turns | extends `ProjectMemory` |
| `MemoryProofs` | theorems about both memories and the handoff | extends `ProjectHandoff`, `MemoryManager` |

Seven of them need an `MC...` module for values and symmetry sets that a
configuration cannot write; the others are run as they are.

**RealtimeHub.** `Publish`, `Subscribe` and `Cancel` hold the mutex throughout,
so each is one step; `Connect`, `Forward` and `Return` are the handler,
`Receive`, `EndOfStream` and `Drop` the browser and the network. `closes[s]`
counts `close()`, so a second close, a panic in Go, is visible. `Forward` to a
dead connection loses the event, as the ignored write error does. The hub never
reuses a subscription number; the model reuses a slot after its handler is gone.

**SessionWatcher.** A scan is cut at every point where it reads something that
others write: policy, stat, policy again, parse with policy a third time, save,
connection. `file` is a sequence of stamped lines of three kinds. `CutOff` is
`captureAfter`; `Parsed` is what the parser keeps of the newest turn. A line
carries a mark, whether the watcher knew of a pause when it was written, which
only a property reads. A scan looks at the `MaxActive` newest of the files
written to within a day; `aged` holds those that fell out of that window
(`DayPasses`), until Codex writes to them again. `CurrentTurn` and `TurnLines` are
the parse of a whole log; that a large file is first searched backwards, in
blocks, for its last start (`findLatestTaskStartOffset`) is not modelled. The
retention that runs when the privacy settings are saved concerns sessions at
least a day old and is left out.

**StreamAssembly.** Bytes are tokens: the two halves of the line that carries a
payload, so that a chunk can end inside it, `data: [DONE]`, other lines, and the
two line ends. A payload is one fragment of an answer: a piece of text, of a
tool's input, the start of a block with what the block carries from then on, a
usage report, or something that is not JSON. `Separators`, `TakeBlock` and `Complete` are `sseDecoder.add` and `flush`
with the assemblers behind them. `Picked` and `Ascending` list the elements at a
set of places in order, as the loops over sorted indexes do. `WholeStream` and
`WholeBody` say what a provider sends when it sends all of an answer (not code
of the repository, but what the parsers rely on): one kind of line end, every payload on one line and in an
event of its own, the payloads in order; a body with one usage object at most.

**ConversationStore.** A session holds one request. `Save` is the transaction of
`SaveConversationRequest` with its projection, all or nothing: `Accepted` is what
the store checks of the record (`Valid`) and of its events, that is, that they name
a version of their client (`Versioned`). What follows, `EvaluateSession`
and the insert of its decision, are steps of their own (`ReadEvidence`,
`PersistDecision`, `EvaluationFails`), as are those of the MCP server (`Ask...`,
`ReadLatest`, `RecordDelivery`, `Answer`) and every query of the list. Reading the
evidence again for the answer's precision may fail, which makes the answer
unavailable and no error (`Precision`); a query of the list may (`ListFails`).
Saving is
the detailed watcher's business in `SessionWatcher`; here `SaveWatched` is whole,
since what matters is what it saves: the turn as far as `cut` leaves it, its
items named by their ids or, without one, by their place among those kept.
`rebased`, `missed` and `dismissed` are read by properties only.

**CaptureProxy.** `Arrive` reads and parses the request, `Read`, `AddBlock` and
`Write` are one turn of the copy loop, `StreamEnds`, `ReadPrivacy` and
`PersistCall` the rest. Two commands build a proxy: `run`, which names no version
of its client, and `start`, which takes it from the environment
(`app.go:186`, `app.go:601`); a scenario says which (`versioned`). The reply a call will get is settled when it arrives:
what the provider says (`fragments`) and the tokens it sends (`bytes`). The
properties put the answer together from `fragments` alone
(`AnswerMessages`, `AnswerUsage`: which fragments, in which order, no decoder).
`whole` marks a reply that came as `WholeStream` or `WholeBody` has it, which
`CaptureConstants` requires of the instance and TLC evaluates. `shown` records whether the prompt setting was on since the answer ended.

**MemoryManager.** Every method locks the manager and is one step. Confidence is
a function of the stored fields. `listed` is the last answer of `ListEligible`.

**GuidanceEngine, GuidanceSession.** The loops of the engine are recursive
functions of the place they have reached (`FailureRuns`, `InspectionRuns`);
`DecisionAsPromised` restates each rule without a loop. `FailureRun` and
`InspectionRun` are the literals 3 and 4 of the code. `SessionSpec` adds one
signal at a time.

**GuidanceHook.** `events` and `rows` are tables; `Insert`, `EvaluateSession`,
`Persist` and `Respond` are the database calls of one process. SQLite serialises
each. Timing: a process is given 400 ms and a decision lives ten minutes, so
`Expire` waits until no process is under way.

**Installer.** `BuildPlan` begins a run, `ReadBefore` reads the files one after
another (`PlanFails`: one cannot be read); `Check`, `Backup` and `Write` are the three accesses of `Apply`
to a file. A file is a text of the user's plus a block or not. `touched[p]` and
`raced` record who wrote what in between and appear in properties only.

**DatabaseOpening.** `committed` is what SQLite has committed, `main` the main
file, which lags behind it by what is in the write-ahead log; a backup is a copy
of the file. A content is its tables, the versions recorded, and a number of
rows. A release is its latest migration and whether that one's SQL fails. One
migration and its record are one transaction, one step. `before` is what was
committed when a process read the version; only `BackupHolds` reads it.

**ProjectMemory, ProjectHandoff.** Every query is a step, since nothing but the
receipt is written in a transaction: `ReadMemory` and `WriteMemory` are the two
halves of `UpdateMemory`; a hook resolves, lists, reads a row and its messages
turn by turn, reads memories, checks the source, inserts the receipt.
`QueryFails` is any error, the hook's 400 ms included. `DeleteSession` has the
cascade of the foreign keys; the retention of the settings deletes the same way,
several sessions at once. A turn is reduced to whether it has a goal and a
result. `asked` and `overlapped`, `dueGoal`, `dueResult`, `disturbed` and `raced`
record what was asked for and what interfered; only properties read them.

## Runs

Passing runs exhaust their state spaces.

| run | instance | shows |
| --- | --- | --- |
| RealtimeHub | 2 clients, 2 slots, history 2, buffer 1, 4 events, 1 cut, fair | `NoDoubleClose`, `RegisteredIsCurrent`; refinement of `EventFeed`; every dashboard becomes current |
| SessionWatcher | 1 file, 3 lines, 2 pauses, a prompt switch, a refused save, a failed settings read; or a pause and a day; 2 files, 4 lines, 2 refused saves, a restart; 3 files, 4 lines and a day, with `MaxActive` 2; fair | noticed pauses are not backfilled, saves during a pause hold only earlier lines; a settled file's turn is stored, each newest turn within the watcher's reach eventually is |
| MemoryCache | 2 ids, 2 projects, threshold 2, time 2 | every listing is current (`ListingCurrent`), confirmation of inferences |
| GuidanceRules | all sessions of 5 signals, 2 inputs, 2 results | the engine's decisions and how a demand for validation is lifted |
| GuidanceRace | 2 hooks, 3 calls, run of 2 | own decision, expiry for good, untested Stops blocked |
| InstallRollback | 2 processes, 2 files, 2 edits, 1 failure, 1 crash | rollback, truthful success, saved text survives |
| DatabaseOpening | 2 processes, 3 releases (one broken), 1 write, 1 error, 1 crash, 2 seconds | schema in order, who writes is current, backups hold and are kept, read-only has a cause |
| ProjectHandoff | 1 memory, 2 editors, 2 edits; 2 identities, 3 turns, 2 sessions, 1 hook, 2 saves, 1 deletion, 1 failure | deletion is final, states as asked; capsules are current, failures and missing receipts have a cause |
| ConversationCapture | 1 watched turn of up to 3 items, 1 call, answers of up to 3 fragments in every cut into chunks, capture limit 14 tokens; eight scenarios of budgets (below), fair | what is stored of an answer is what was said; the answer gets across; calls are stored or there is a cause; shutdown, prompt setting, evidence, evaluations, MCP answers, list and deletions next to each other; every call ends |

Runs that TLC refutes, each a statement of the repository about itself that the
code does not keep; `PROJECT.json` "findings" quotes the statement:

| run | what happens |
| --- | --- |
| WatcherPriorTurn | a turn ends and the next starts between two polls; the rest of the first is never stored |
| WatcherRestartBackfill | the cut-off of a pause is lost with a restart of the daemon |
| ProxyUnversioned | the proxy of `run` names no version of its client: the event of a successful call is refused, and the whole conversation with it |

*Known divergences without a run of their own*, met while modelling:

- A pause that begins and ends between two polls is seen by no scan, so nothing
  is cut off (`sessionlog.go:125`).
- `scan` computes the cut-off from its first reading of the policy, `importFile`
  asks again for the prompt switch (`sessionlog.go:250`): switched on in between,
  messages written while it was known to be off are stored in full.
- The connection is written only after a save or a resume (`sessionlog.go:184`):
  a turn that starts and is aborted without a message between two polls leaves
  the connection "active".
- The verify rule looks for a validation after the last progress only
  (`engine.go:92`): an edit after a validated completion flags that completion.
- After the first Stop of a session the verify rule stays true and hides the
  rule for repeated failures (`engine.go:37`).
- `Apply` can fail to restore a file and says so (`rollback.go:29`), but setup
  answers every error with "prior configuration was restored" (`app.go:454`).
- A checkpoint that gives up on a busy log reports that in a result row which
  `Exec` does not read (`migrate.go:68`): the backup then lacks what is in the
  log. `BackupHolds` speaks of openings without errors for that reason.
- Two processes that open at once after an update both apply; the second finds
  the tables there and serves read-only until it is started again
  (`migrate.go:52`), the second disjunct of `ReadOnlyHasCause`.
- `forget --yes` removes the database and its log, not the `.backup-*` copies
  beside it (`app.go:553`).
- Delete, Disable, Enable lists a deleted memory again (`context/memory.go:161`:
  `Disable` does not look at the tombstone), against
  `TestMemoryDeletedItemNeverReappearsFromCache` (`memory_test.go:77`). Nothing
  but tests calls that class.
- Of two overlapping edits of a row in `memories` the later writes back both
  columns as it read them (`storage/memory.go:68`): an edit of the text can make
  a memory active again that was disabled meanwhile, where `docs/usage.md:25` says
  a disabled memory is not handed over. `StateAsAsked` excludes overlapping edits.
- The hook answers with a capsule though its receipt could not be stored
  (`app.go:762`), where `docs/usage.md:27` says every injection leaves a receipt;
  the MCP tool returns an error instead (`app.go:894`). `AnswerHasReceipt`
  excludes failures and a source deleted between check and insert.
- The identity with the newest turn is chosen even if none of its turns has a
  goal or a result, and the memories of the other identity are then not
  considered (`handoff.go:159`): the third disjunct of `FailureHasCause`.
- An event that cannot be projected rolls back the whole saved conversation
  (`conversations.go:108`), which is how ProxyUnversioned comes about; the design
  of 2026-08-14 has it kept
  (`docs/superpowers/specs/2026-08-14-usable-product-and-one-command-install-design.md:129`).
- No event of the hook counts as a validation: only `validation.completed` does
  (`project.go:48`), and no adapter emits one (`normalize.go:32`). A guarded Stop is
  blocked right after the tests ran (`GuardedStopsBlocked`), where
  `docs/usage.md:37` has guard block an end without validation and
  `engine_test.go:96` a validated one pass.
- A file is imported only while it is among the newest files a scan looks at and
  less than a day old (`sessionlog.go:149`, `sessionlog.go:295`): one whose save
  failed until then, or that was written to while the daemon was down, never is.
- Foreign keys are switched on once, on the first connection of the pool
  (`db.go:72`); a connection that replaces it does not have them, and
  `DeleteSession`'s cascade would not happen.
- A text saved between the installer's comparison and its rename
  (`apply.go:48-66`) is overwritten and in no backup: the `raced` files that
  `SavedTextKept` excludes.

- `pause` stops the watcher only: the proxy does not look at the pause file
  (`app.go:93`, `app.go:531`), while the interface offers to pause all capture.
- A stream that mixes `\n\n` and `\r\n\r\n` is cut differently depending on its
  chunks (`protocol.go:32`): the later separator may be found first, and the
  block is then no JSON. `whole` excludes such streams.
- The Responses API's deltas of function-call arguments are taken for text of
  the assistant (`openai.go:137`).
- An answer that cannot be decoded, an empty body or an HTML error page among
  them, leaves a record without a usage precision, which the store refuses: the
  call is not recorded at all (`server.go:190-202`, `conversations.go:428`). A
  request with the role "developer" is refused the same way. Both are causes in
  `CallStoredOrCause`.
- A call that fails marks every tool of the history it re-sent as failed
  (`conversation_projector.go:22`).
- Items without an id are named by their place (`sessionlog.go:665` and the
  parser's index): after a resume or a restart the same item has another name, so
  that its evidence is stored twice, or meets the name of an older item and is
  dropped, where the design of 2026-08-14 asks for idempotence. `rebased` excludes
  it.
- A resume in mid-turn parses the turn again with a cut-off, and the save deletes
  what had been stored of it before the pause (`sessionlog.go:665`); prompts
  switched off and on do the same to the stored messages of the current turn.
- An id of a message is a primary key of the whole table: two sessions with equal
  ids fail the save of the second.
- A session the user deleted comes back with its turn's next line or after a
  restart (`conversations.go:296`); `DeletedStaysAway` says it comes back no other
  way.
- With several MCP servers an older delivery may overwrite a newer receipt; the
  connection "codex" is written by watcher, hook and proxy alike.
- The proxy's client has no timeout (`server.go:76`): a call ends when its
  provider ends it.
- The watcher's goroutine ends with the first update of the connection that
  fails, or the first walk of the directory (`sessionlog.go:90`).
- An error reading the privacy settings is taken for a pause, and the next
  successful read for a resume that cuts off (`app.go:235`).
- Times are stored as RFC 3339 without the trailing zeros of the fraction and
  compared as text (`events.go:89`): 12:00:00.5Z sorts before 12:00:00Z.

*Bounds.* A history of 2 and a buffer of 1 are the smallest that can overflow,
evict and expire; four events overflow both. Three turns are two of one identity
(an older with what the newer lacks) and one of the other; two editors are what
it takes to overlap, one of them to be overtaken by a deletion. Three lines hold a start, a message
and one more on either side of a pause. Five signals are one more than the
longest run a rule looks for (4). In GuidanceRace a run of failures is 2, not 3:
the engine's own run uses 3, here the point is the overlap of processes, and two
suffice to overlap; in ConversationCapture both runs are 2 for the same reason.
Three session files are one more than `MaxActive`, so that one is displaced by two
others, and comes back when it is written to; one day is enough to lose a file
from the window and to have it back. A scenario says how often each thing may
happen; ConversationCapture's are: every
answer of up to 3 fragments, in every cut, with complete, truncated and mixed
line ends; one call with a break, an error, an unreadable setting, a switch and
the command's end before and after the three seconds; a call next to deletions
and two questions of the MCP server; a call and a turn next to a list and a
deletion; a turn with a resume, a restart and a switch; with a deletion, a
question and an error; with a deletion, a list and a restart; and a call through
a proxy without a version, with a switch (the seven others have one, so that what
is lost there is lost to something else). 14 tokens are more
than two events (4 tokens each, the mark 3) and less than three, so answers end
below and above the limit and on it. Two processes and two files show one process undoing what
another did, and a plan that fails half-way. `CHECK_DEADLOCK FALSE` stands where
the bounds end a behaviour (everything spent).

*Fairness.* RealtimeHub: handlers are goroutines and browsers dispatch and
reconnect by themselves; publishing and cuts owe nothing. SessionWatcher: the
goroutine polls for ever (`WF` on its steps as one); Codex and the user owe
nothing, and refused saves are finitely many. ConversationCapture: each call's
handler is a goroutine and goes on (`WF` on `Handler`), and so does its provider,
for the proxy has no timeout; nobody owes a call, a break, the command's end. `EventuallyStored` excepts a
watcher that ended with its first connection update, and files out of its reach:
those with `MaxActive` files written to later (`Displaced`) and those left alone
for a day (`aged`), which no scan looks at any more. It says nothing of scenarios
with pauses: with them, omission is the point.

*Passing only under a condition.* `NoticedPauseNotBackfilled` speaks of pauses a
scan of the running watcher saw, within the life of that watcher; without that
it is false (WatcherRestartBackfill, and the first divergence above).
`SettledTurnStored` is checked without pauses and unreadable settings.
`SavedTextKept` excludes texts saved inside the window of a running step
(`raced`), which do get lost (above). `EvidenceOfMessages` and `ItemCountsOnce`
exclude turns whose items changed their names (`rebased`); `GuidanceFollowsEvidence`
sessions whose last evaluation met an error (`missed`), for nobody repeats it;
`AnswerOnRecord` sessions deleted while the MCP server was at work (`gone`), and
it lets an answer be unavailable, instead of exact, once an error was met;
`CallStoredOrCause` lets a call with evidence go unstored if its client has no
version, and then also says that none is ever stored;
`AnswerPassedOn`, `CallStoredOrCause`, `ListingFaithful`, `ShutdownWaits` and
`PromptsOffRespected` name the budget whose spending is the cause they admit.

Type invariants are not runs of their own: each is part of an inductive
invariant that is proved (below).

## Proofs

For every value of the constants that satisfies the named assumptions:

*RealtimeHubProofs* (assumes `HubConstants`): `HubInvariant` shows `[]HubInv`,
whence type correctness, `NoDoubleClose` and `RegisteredIsCurrent`.
`RegisteredIsCurrent` is not inductive: after a partial read one must know that
what is left on channel and wire is a run of consecutive ids that ends at the
newest one. `HubInv` adds that (`RunUpTo`, `Continues`), that the history is the
newest ids (`HistoryIsSuffix`) so that a replay is such a run too, and that slots
are not shared (`SlotsOK`). `HubImplementsFeed` then maps every step to a step of
`EventFeed` or a stutter: only `Receive` moves `seen`, to the head of a run that
continues `lastSeen` or starts beyond a gap that has expired.

*MemoryProofs* holds two components. On the memory manager (assumes
`MemoryConstants`): type correctness; `MemoryInferenceConfirmed`, inductive together with the types;
`MemoryCacheCoherent`, whose steps are those that leave `ActiveOf(p)` alone and
those that drop `p`'s cache; and from it `MemoryListingCurrent`: a listing was
right when it was made, and what has left it since has expired.

On memory rows and handoff (assumes `MemoryRowConstants`, `HandoffConstants`; up
to the 50 turns the list is cut at): `Inv`, that is types, `HandoffInv` and
`StateAsAsked`, is inductive, and the five other properties follow.
`StateAsAsked` needs `CopiesInv`: a memory without overlapping edits has one
editor, whose copy holds the state it asks for or the row's. `CapsuleIsCurrent`
needs `DueInv`: the turn that was due when the project was chosen is still among
those left to read, or a part at least as new has been found; it rests on turns
being read from the newest on, and `HasNewest` shows that there is a newest.

*DatabaseOpeningProofs* (assumes `OpeningConstants`): `OpeningInvariant` shows
`[]OpeningInv`, whence `SchemaInOrder`, `ServingIsCurrent`, `BackupHolds` and
`BackupsKept`. A process acts on a version it read long ago, so what is
inductive is not that its next migration is the schema's next, but that
everything before it is in place (`ProcInv`); as a migration whose tables exist
cannot be applied, one that can is then exactly the next. For the backups one
must know that the main file is a content once committed (`DiskInv`), that it
holds what the process read once its checkpoint is done, and that names of
backups are not shared (`NamesOwned`). `StandsStill` and `OneMoves` carry the
processes that do not move. `ReadOnlyHasCause` needs `CauseInv`: the version a
process found is not beyond the schema's, which only grows, so that a cause stays
one; a migration that cannot be applied is broken or was another's.

*SessionWatcherProofs* (assumes `WatcherConstants`): `WatcherTypeCorrect` shows
`[]WatcherInv`: types; that the clock and the budget for lines add up
(`Bounded`), that no line is from the future (`Stamped`), and that what a scan is
about to save is the current turn of the file as far as the scan's size goes, or
less (`Scanning`). `NoticedPauseNotBackfilled` then needs `NoticedInv`: every
line written during a noticed pause lies at or before the cut-off, or the
watcher still knows it is paused, so no parse keeps it. It is proved for
behaviours without a restart; with one it is false (WatcherRestartBackfill).
`SettledTurnStored` needs `CalmInv`: without pauses and switches nothing is cut
off, a signature on record is what is stored, and a size on record means that the
turn as of that size was saved. `SavesStopAtPause` needs `PauseInv`: past the
re-check, the scan's size was taken before the pause began.

*InstallerProofs* (assumes `InstallerConstants`): `InstallerTypeCorrect` shows
that every process works along the plan it read, file by file (`PlanInv`), and
that what it has read of a file is what the file holds unless another wrote to it
since (`ReadInv`).
`DoneInv` says what of the plan is done, `UndoInv` what of it a rollback still
has to undo, for all files nobody else touched; whence `FailureRestores` and
`ReadyMeansInstalled`. `SavedTextKept` needs `KeepInv`: a process that is about
to replace a file it has compared has the user's text in a backup, or the file
changed under it and is in `raced`.

*CaptureProxyProofs* (assumes `StoreConstants`: finitely many calls, distinct
names, no row is not a row, a scenario bounds everything by a number):
`ProxyTypeCorrect` shows `[]ProxyInv`, that budgets only fall (`Within`) and the
tables, evaluations, list and calls keep their shapes; each table's steps are
told apart once (`RowSteps`, `EvaluationSteps`, `CallSteps`, ...). `AnswerPassedOn`, `ShutdownWaits` and `PromptsOffRespected`
need `CallInv`, what the client has and what was seen of the prompts at each step
of a call, and `MissedInv`. `DeletedStaysAway` needs `DeletedInv`: as long as it
is not restarted, the watcher's signature is the stored record or the one that
was deleted. `GuidanceFollowsEvidence` needs `GuidanceInv`: a saver's evaluation
is about to store what the evidence calls for, as nobody else saves that session
meanwhile, though others may evaluate or delete it. `ListingFaithful` needs
`ListInv`, that the ids still to read are stored unless a session was deleted
(`gone`) and that a failed list met a deletion or an error, and `WholeInv`, that without resumes and switches a completed turn is
saved whole and stays so.

The second part of the module is about the evidence. `CallData` says that
requests, replies and results are sequences and the decoder holds finitely many
parts (`CaptureConstants` says so of the bodies and replies that come in); for
this part what the decoder makes of the bytes does not matter. `DataInvariant` shows `EvidenceInv`:
every list of evidence has each event once; the watched turn's events are those
of its own items, with the ids their places give them; a call has none before it
is saved; and no stored message is without its event. None of these is inductive
alone. That a growing turn's new event is not mistaken for an old one needs
`WatchedEvent`, the tie between an event's id and its item's place, which a resume
or a restart in mid-turn breaks (`rebased`); that the merged list is the union of
both needs `Ordered`, that time and place tell events apart, since the list is
sorted by them (`ListedIs`, `MergedIs`). `EvidenceOfAllMessages` and
`ItemsCountOnce` follow. `AnswersOnRecord` needs `McpInv`, what the MCP server has
at hand at each of its steps: a decision whose evidence is among the session's
(`GuidanceRests`, from `EvidenceGiven`), then stored, then on the receipt; all of
it only until the session is deleted (`gone`), and the answer exact unless an
error was spent. `NamesInv` keeps a receipt apart
from no receipt at all, whence the assumption that `None` is not one.

The third part is about the answers: `CapturesExact` and `CallsStoredOrCause`,
for answers of any length, in any cut into chunks and under any limit. Both hold
of records long after their bytes are gone, so `AnswersInvariant` carries three
facts about every call. `Taken`: while a whole answer is being read, the decoder
holds what was read of it and no more (`Held`), that is, all blocks up to some
line end are taken in, and what they left behind is the assembly of the fragments
they carried (`Buffered`, `AssemblyOf`), the rest of what was read being the
buffer; once the answer has ended, the parsed response is what was said
(`Expected`). `Recorded`: a stored record is that response behind the call's
history. `Caused`: a call is lost only for a cause, and is saved with evidence only under a
version; `EvidenceProjected` ties the evidence a property speaks of to the events
the store projects. That `Taken` is kept is an
argument about blocks:
`SeparatorsAre` finds them where two line ends meet and nowhere else, as there is
one kind of line end; `BlockHolds` shows that such a block carries no fragment or
exactly one, since an empty line parts two events, so `BlockTaken` has the
assembly grow by the next fragment or not at all; `AssemblyGrows` compares, index
by index, the assembly of n + 1 fragments with one turn of `consume` on that of
n. At the end `StreamCompletes` shows that the flush takes in the last block,
`AssembledIs` that what `Complete` lists is the answer the property puts together,
and `BodyParses` the same of an answer that is no stream. All of it rests on
`WholeStream` and `WholeBody`: a stream that mixes its line ends is cut
differently depending on its chunks (above), and of an answer that breaks off
nothing is claimed. `ValidCall` then shows that the store has no reason to refuse
such a record, its response having only roles the store knows (`AnswerSays`),
unless the request itself names another role; what is left to refuse are its
events.

*GuidanceProofs* (assumes `RunLengths`): what the rules compute, for sequences of
any length. The recursive functions are shown to exist and to satisfy their
equations (`RunExists`, `FailureRunsAre`, `InspectionRunsAre`) by induction over a
set of numbers, which needs no operator parameter (`SetInduction`: a non-empty
set of naturals has a least member). `FailureRunsCount` and
`InspectionRunsCount` then say what a run of n means: the last n signals are
alike, and the one before is not. `RulesKept` compares `Evaluate` with the
declarative rules, whence `DecisionsAsPromised`; its invariant `SessionInv` says
that ids are places, so that evidence names its signals. `OnlyValidationLifts` is
the action property: as signals are only appended, the last completion and the
last progress before it stand still unless the new signal is one of the two.
`EvidenceGiven` says that evidence is ids of signals of the rule's kind; the
store and the hook build on it.

*GuidanceHookProofs* (assumes `RunLengths`, `HookConstants`): `HookInvAlways` shows
`[]HookInv`: there is one event for each instant (`EventsInv`); past its insert a
process's event is stored, and the decision it came to is founded on stored
events (`ProcessesInv`); every row is, too, no two rest on the same evidence, and
one that expired rests on events older than any process under way (`TableInv`);
and `StopsBlocked`. `HookTypes` and `AnswersOwnDecision` follow; the latter is not
obvious because a process answers with the row that stands, which may be
another's: two decisions on the same evidence are equal, as the kinds of the
events they rest on give away the rule.
`UntestedStopsBlocked` needs what a process that
ends a session reads: its own Stop is in, no event the hook stores is a
validation, and the row it comes to has not expired, being of its own Stop. So a
guarded stop is blocked whatever was tested (`GuardedStopsBlocked`; see the
divergences above).
`ExpiredForGood` needs `RowsInv` alone: an insert of a known key changes nothing.

Only model-checked: liveness, that is `EventuallyCurrent`, `EventuallyStored` and
`CallEnds` (fairness and ENABLED are beyond the prover). Every other property of a
passing run is stated by a theorem.

## Not modelled, and what is left

No behaviour to check: client detection, project detection, field-by-field
adapters of other clients, redaction, rendering, the dashboard's pages, the parts
of the CLI that print, the routes that hand a call on to the store. Not called by
the program (libraries with tests only): costs, updates, replay, validation,
comparison, diagnostics, the in-process memory (which is modelled all the same).

Left for a later step: `TimeOrder` (RFC 3339 text against time), the backward
search of a large session file for the last start of a turn, the two renames of an update
against crashes, cost arithmetic, the capsule's choice under a budget; delivery
status as the dashboard reads it; the connection row and its several writers.
