--------------------------- MODULE SessionWatcher ---------------------------
(***************************************************************************)
(* The Codex session watcher, internal/adapters/codex/sessionlog.go: every *)
(* poll it reads the capture policy, stats the newest session files and    *)
(* imports the current turn of each file that grew.  Codex appends lines,  *)
(* the user pauses, resumes and changes the prompt setting, and the store  *)
(* may refuse a save, all between any two steps of a scan; files Codex     *)
(* leaves alone for a day fall out of the watcher's window.                *)
(*                                                                         *)
(* A session file is a sequence of lines; a line is "start"                *)
(* (task_started), "msg" (a response_item that becomes a message) or       *)
(* "done" (task_complete, turn_aborted), stamped with the clock.  A turn   *)
(* is <<f, k>>: the k-th start of file f.  Token counts, models and        *)
(* message texts are left out.                                             *)
(***************************************************************************)
EXTENDS Integers, Sequences, FiniteSets, SequencesExt

CONSTANTS Files,          \* session files
          MaxActive,      \* maxActiveSessionFiles (4)
          None,           \* no record
          MaxLines,       \* bound: lines Codex writes, all files together
          Scenarios       \* bounds: which files Codex writes, how many lines,
                          \* how often the user pauses and flips the prompt
                          \* setting, writes to the store are refused, reads
                          \* of the settings fail, days pass and the daemon is
                          \* restarted

ASSUME WatcherConstants ==
  /\ MaxActive \in Nat \ {0}
  /\ MaxLines \in Nat
  /\ None \notin [msgs : SUBSET (1 .. MaxLines), done : BOOLEAN]
  /\ Scenarios \subseteq [files : SUBSET Files, lines : 0 .. MaxLines, pauses : Nat,
                         flips : Nat, fails : Nat, reads : Nat, days : Nat, restarts : Nat]

VARIABLES
  file,        \* file[f]: its lines
  aged,        \* files last modified longer ago than RecentWindow (a day)
  clock,       \* lines written so far; the stamp of the next is clock + 1
  policy,      \* [paused, prompts]: the pause file and the privacy setting
  pausedSince, \* clock at the last pause
  store,       \* store[t]: the saved request of turn t, or None
  connection,  \* the "codex" client connection; "paused" is state "connected"
               \* with the detail that says so
  memory,      \* the watcher's fields, lost on restart
  pc, scan,    \* where the watcher is in its scan, and the scan's locals
  scenario,    \* the bounds of this behaviour
  budget       \* what is left of them

watcherVars == <<memory, pc, scan>>
vars == <<file, aged, clock, policy, pausedSince, store, connection,
          memory, pc, scan, scenario, budget>>

Turns == Files \X (1 .. MaxLines)
Records == [msgs : SUBSET (1 .. MaxLines), done : BOOLEAN]
Lines == [kind : {"start", "msg", "done"}, at : 1 .. MaxLines, noticed : BOOLEAN]

\* NewSessionWatcher; -1 is "not seen".
FreshMemory == [policySet |-> FALSE, captureEnabled |-> FALSE,
                capturePrompts |-> FALSE, captureAfter |-> 0,
                fileSizes |-> [f \in Files |-> -1],
                fileActive |-> [f \in Files |-> FALSE],
                signatures |-> [t \in Turns |-> None]]

NoScan == [listed |-> {}, todo |-> <<>>, size |-> 0, turn |-> None, record |-> None,
           saved |-> FALSE, resumed |-> FALSE, announce |-> FALSE]

Init == /\ file = [f \in Files |-> <<>>]
        /\ aged = {}
        /\ clock = 0
        /\ policy = [paused |-> FALSE, prompts |-> TRUE]  \* the defaults
        /\ pausedSince = 0
        /\ store = [t \in Turns |-> None]
        /\ connection = "none"
        /\ memory = FreshMemory
        /\ pc = "starting"
        /\ scan = NoScan
        /\ scenario \in Scenarios
        /\ budget = scenario

Spend(what) == /\ budget[what] > 0
               /\ budget' = [budget EXCEPT ![what] = @ - 1]
-----------------------------------------------------------------------------
(* The environment: Codex, the user, the operating system *)

Starts(f, n) == {i \in 1 .. n : file[f][i].kind = "start"}
TurnOpen(f) == /\ file[f] # <<>>
               /\ Last(file[f]).kind # "done"

\* The watcher has seen the pause that is on: what is written now is marked,
\* for NoticedPauseNotBackfilled only.
PauseNoticed == policy.paused /\ memory.policySet /\ ~memory.captureEnabled

\* Codex appends a line; a turn that is interrupted gets no "done".
CodexWrites(f, kind) ==
  /\ f \in scenario.files
  /\ Spend("lines")
  /\ kind # "start" => TurnOpen(f)
  /\ clock' = clock + 1
  /\ file' = [file EXCEPT ![f] =
                Append(@, [kind |-> kind, at |-> clock + 1, noticed |-> PauseNoticed])]
  /\ aged' = aged \ {f}
  /\ UNCHANGED <<policy, pausedSince, store, connection, watcherVars>>

\* A day passes for the files last written up to some moment.
DayPasses ==
  /\ Spend("days")
  /\ \E moment \in 1 .. clock :
       aged' = aged \cup {f \in Files : file[f] # <<>> /\ Last(file[f]).at <= moment}
  /\ UNCHANGED <<file, clock, policy, pausedSince, store, connection, watcherVars>>

\* agent-doctor pause --json
Pause == /\ ~policy.paused
         /\ Spend("pauses")
         /\ policy' = [policy EXCEPT !.paused = TRUE]
         /\ pausedSince' = clock
         /\ UNCHANGED <<file, aged, clock, store, connection, watcherVars>>

\* agent-doctor pause --resume --json
Resume == /\ policy.paused
          /\ policy' = [policy EXCEPT !.paused = FALSE]
          /\ UNCHANGED <<file, aged, clock, pausedSince, store, connection, watcherVars, budget>>

\* The "capture prompts" switch of the privacy settings.  The retention that
\* runs with it removes sessions at least a day old and is left out.
FlipPrompts == /\ Spend("flips")
               /\ policy' = [policy EXCEPT !.prompts = ~@]
               /\ UNCHANGED <<file, aged, clock, pausedSince, store, connection, watcherVars>>

\* The daemon stops and is started again: the watcher's fields are gone.
Restart == /\ Spend("restarts")
           /\ memory' = FreshMemory
           /\ pc' = "starting"
           /\ scan' = NoScan
           /\ UNCHANGED <<file, aged, clock, policy, pausedSince, store, connection>>
-----------------------------------------------------------------------------
(* The watcher *)

\* CapturePolicy (app.go).  A pause, and an error reading the settings, answer
\* that nothing is to be captured.
Nothing == [enabled |-> FALSE, prompts |-> FALSE]
Answers == [enabled : {TRUE}, prompts : BOOLEAN] \cup {Nothing}
CapturePolicy(answer) ==
  \/ /\ answer = IF policy.paused THEN Nothing
                 ELSE [enabled |-> TRUE, prompts |-> policy.prompts]
     /\ UNCHANGED budget
  \/ /\ ~policy.paused
     /\ answer = Nothing
     /\ Spend("reads")

\* An ignored error of UpsertClientConnection leaves the old state.
Announce(state) == \/ connection' = state /\ UNCHANGED budget
                   \/ Spend("fails") /\ UNCHANGED connection

\* Run: the first upsert's error ends the watcher.
RunBegins ==
  /\ pc = "starting"
  /\ \/ \E answer \in Answers :
          /\ CapturePolicy(answer)
          /\ connection' = IF answer.enabled THEN "connected" ELSE "paused"
          /\ pc' = "idle"
     \/ /\ Spend("fails")
        /\ pc' = "dead"
        /\ UNCHANGED connection
  /\ UNCHANGED <<file, aged, clock, policy, pausedSince, store, memory, scan>>

\* recentSessionFiles: the files modified within RecentWindow, in any order ...
Recent == {f \in Files \ aged : file[f] # <<>>}
Newer(f, g) == Last(file[f]).at > Last(file[g]).at

\* ... and, newest modification first, at most MaxActive of them.
Newest == LET order == SetToSortSeq(Recent, Newer)
          IN  SubSeq(order, 1, IF Len(order) > MaxActive THEN MaxActive ELSE Len(order))

\* Mutant: only the prompt setting moves the cut-off.
CutOffPromptsOnly(enabled, prompts) ==
  IF memory.policySet /\ memory.captureEnabled /\ ~memory.capturePrompts /\ prompts
  THEN clock
  ELSE memory.captureAfter

\* When capture, or prompt capture, was switched on since the last scan,
\* everything stamped up to now stays out.
CutOff(enabled, prompts) ==
  IF /\ memory.policySet /\ enabled
     /\ ~memory.captureEnabled \/ (~memory.capturePrompts /\ prompts)
  THEN clock
  ELSE memory.captureAfter

\* scan, up to the loop over the files.
ScanBegins ==
  \E answer \in Answers :
    /\ pc = "idle"
    /\ CapturePolicy(answer)
    /\ memory' = [memory EXCEPT !.captureAfter = CutOff(answer.enabled, answer.prompts),
                                !.captureEnabled = answer.enabled,
                                !.capturePrompts = answer.prompts,
                                !.policySet = TRUE]
    /\ pc' = IF answer.enabled THEN "files" ELSE "paused"
    /\ scan' = [NoScan EXCEPT
         !.listed = IF answer.enabled THEN ToSet(Newest) ELSE {},
         !.todo = IF answer.enabled THEN Newest ELSE <<>>,
         !.resumed = memory.policySet /\ answer.enabled /\ ~memory.captureEnabled,
         !.announce = ~memory.policySet \/ memory.captureEnabled]
    /\ UNCHANGED <<file, aged, clock, policy, pausedSince, store, connection>>

\* snapshotFileSizes: what is in the recent files now will not be imported.
Snapshot ==
  memory' = [memory EXCEPT
    !.fileSizes = [f \in Files |-> IF f \in Recent THEN Len(file[f]) ELSE @[f]],
    !.fileActive = [f \in Files |-> IF f \in Recent THEN FALSE ELSE @[f]]]

\* The scan of a paused watcher.
SkipPaused ==
  /\ pc = "paused"
  /\ Snapshot
  /\ pc' = "idle"
  /\ scan' = NoScan
  /\ IF scan.announce THEN Announce("paused") ELSE UNCHANGED <<connection, budget>>
  /\ UNCHANGED <<file, aged, clock, policy, pausedSince, store>>

\* The loop's os.Stat; a file of the remembered size is skipped.
StatFile ==
  LET f == Head(scan.todo)
  IN  /\ pc = "files"
      /\ scan.todo # <<>>
      /\ IF memory.fileSizes[f] = Len(file[f])
         THEN scan' = [scan EXCEPT !.todo = Tail(@)] /\ UNCHANGED pc
         ELSE scan' = [scan EXCEPT !.size = Len(file[f])] /\ pc' = "recheck"
      /\ UNCHANGED <<file, aged, clock, policy, pausedSince, store, connection, memory, budget>>

\* Mutant: the policy is not read again.
NoRecheck == /\ pc = "recheck"
             /\ pc' = "import"
             /\ UNCHANGED <<file, aged, clock, policy, pausedSince, store, connection,
                            memory, scan, budget>>

\* "Close the pause race": the policy is read again after the stat.
Recheck ==
  /\ pc = "recheck"
  /\ \E answer \in Answers :
       /\ CapturePolicy(answer)
       /\ IF answer.enabled
          THEN pc' = "import" /\ UNCHANGED <<memory, scan>>
          ELSE Snapshot /\ pc' = "idle" /\ scan' = NoScan
  /\ UNCHANGED <<file, aged, clock, policy, pausedSince, store, connection>>

\* The newest turn in the first n lines of f, as parseCurrentSessionLogAfter
\* and the parser see it: messages and completion up to captureAfter are
\* dropped, the start never is.
CurrentTurn(f, n) == <<f, Cardinality(Starts(f, n))>>
TurnLines(f, n) == {i \in 1 .. n : /\ Starts(f, i) = Starts(f, n)
                                   /\ file[f][i].at > memory.captureAfter}
Parsed(f, n) ==
  IF Starts(f, n) = {} THEN [msgs |-> {}, done |-> FALSE]
  ELSE [msgs |-> {i \in TurnLines(f, n) : file[f][i].kind = "msg"},
        done |-> \E i \in TurnLines(f, n) : file[f][i].kind = "done"]

\* Mutant: the size is stat'ed again after the import.
FinishFileRestat(active, mem) ==
  LET f == Head(scan.todo)
  IN  /\ memory' = [mem EXCEPT !.fileSizes[f] = Len(file[f]), !.fileActive[f] = active]
      /\ pc' = "files"

\* The loop body's end: remember the size that was stat'ed and go on.
FinishFile(active, mem) ==
  LET f == Head(scan.todo)
  IN  /\ memory' = [mem EXCEPT !.fileSizes[f] = scan.size, !.fileActive[f] = active]
      /\ pc' = "files"

\* importFile up to the save: parse, read the policy for prompts, compare
\* signatures.  A turn without messages is no request.
ImportFile ==
  \E answer \in Answers :
    LET f == Head(scan.todo)
        parsed == Parsed(f, scan.size)
        turn == CurrentTurn(f, scan.size)
        record == IF answer.prompts THEN parsed ELSE [parsed EXCEPT !.msgs = {}]
    IN  /\ pc = "import"
        /\ CapturePolicy(answer)
        /\ IF parsed.msgs = {} \/ memory.signatures[turn] = record
           THEN /\ FinishFile(parsed.msgs # {} /\ ~parsed.done, memory)
                /\ scan' = [scan EXCEPT !.todo = Tail(@)]
           ELSE /\ pc' = "save"
                /\ scan' = [scan EXCEPT !.turn = turn, !.record = record]
                /\ UNCHANGED memory
        /\ UNCHANGED <<file, aged, clock, policy, pausedSince, store, connection>>

\* SaveConversationRequest replaces the request and all its messages.
SaveTurn ==
  /\ pc = "save"
  /\ store' = [store EXCEPT ![scan.turn] = scan.record]
  /\ FinishFile(~scan.record.done,
                [memory EXCEPT !.signatures[scan.turn] = scan.record])
  /\ scan' = [scan EXCEPT !.todo = Tail(@), !.saved = TRUE]
  /\ UNCHANGED <<file, aged, clock, policy, pausedSince, connection, budget>>

\* Mutant: the size of a file whose save was refused is remembered.
SaveFailsForgets == /\ pc = "save"
                    /\ Spend("fails")
                    /\ FinishFile(FALSE, memory)
                    /\ scan' = [scan EXCEPT !.todo = Tail(@)]
                    /\ UNCHANGED <<file, aged, clock, policy, pausedSince, store, connection>>

\* A refused save: the file's size is not remembered, the next scan retries.
SaveFails ==
  /\ pc = "save"
  /\ Spend("fails")
  /\ pc' = "files"
  /\ scan' = [scan EXCEPT !.todo = Tail(@)]
  /\ UNCHANGED <<file, aged, clock, policy, pausedSince, store, connection, memory>>

\* After the loop: the connection is updated when something was saved.
ScanEnds ==
  /\ pc = "files"
  /\ scan.todo = <<>>
  /\ pc' = "idle"
  /\ scan' = NoScan
  /\ IF scan.saved \/ scan.resumed
     THEN Announce(IF \E f \in scan.listed : memory.fileActive[f]
                   THEN "active" ELSE "connected")
     ELSE UNCHANGED <<connection, budget>>
  /\ UNCHANGED <<file, aged, clock, policy, pausedSince, store, memory>>

WatcherStep == /\ \/ RunBegins \/ ScanBegins \/ SkipPaused \/ StatFile \/ Recheck
                  \/ ImportFile \/ SaveTurn \/ SaveFails \/ ScanEnds
               /\ UNCHANGED scenario

Environment ==
  /\ \/ \E f \in Files : \E kind \in {"start", "msg", "done"} : CodexWrites(f, kind)
     \/ DayPasses \/ Pause \/ Resume \/ FlipPrompts \/ Restart
  /\ UNCHANGED scenario

Next == Environment \/ WatcherStep

Spec == Init /\ [][Next]_vars

\* The watcher's goroutine keeps polling.  Codex and the user owe nothing.
FairSpec == Spec /\ WF_vars(WatcherStep)
-----------------------------------------------------------------------------
(* Properties *)

Memories == [policySet : BOOLEAN, captureEnabled : BOOLEAN, capturePrompts : BOOLEAN,
             captureAfter : 0 .. MaxLines, fileSizes : [Files -> -1 .. MaxLines],
             fileActive : [Files -> BOOLEAN], signatures : [Turns -> Records \cup {None}]]

\* No cut-off lies ahead of the clock, no remembered size beyond the file.
TypeOK == /\ file \in [Files -> Seq(Lines)]
          /\ aged \subseteq Files
          /\ clock \in 0 .. MaxLines
          /\ policy \in [paused : BOOLEAN, prompts : BOOLEAN]
          /\ pausedSince \in 0 .. clock
          /\ store \in [Turns -> Records \cup {None}]
          /\ memory \in Memories
          /\ memory.captureAfter <= clock
          /\ \A f \in Files : memory.fileSizes[f] <= Len(file[f])
          /\ pc \in {"starting", "idle", "paused", "files", "recheck",
                     "import", "save", "dead"}

\* A message written while paused, after a scan of this watcher had seen the
\* pause, is never stored, whatever is appended to its turn after the resume
\* (sessionlog.go:114-150, 665).
NoticedPauseNotBackfilled ==
  \A t \in Turns : store[t] # None =>
    \A i \in store[t].msgs : ~file[t[1]][i].noticed

\* "A scan that began while capture was enabled must not read bytes appended
\* after the user paused capture" (sessionlog.go:167-168): whatever is saved
\* during a pause, a message or the turn's completion, was written before
\* that pause began.
WrittenBeforePause(t, kind) ==
  {i \in 1 .. Len(file[t[1]]) : /\ file[t[1]][i].kind = kind
                                /\ file[t[1]][i].at <= pausedSince
                                /\ CurrentTurn(t[1], i) = t}

SavesStopAtPause ==
  [][\A t \in Turns : store'[t] # store[t] /\ policy.paused =>
       /\ store'[t].msgs \subseteq WrittenBeforePause(t, "msg")
       /\ store'[t].done => WrittenBeforePause(t, "done") # {}]_vars

\* Once the newest content of a file is marked as processed, its current turn
\* is stored in full, refused saves and restarts notwithstanding
\* (sessionlog.go:160-183, 244-271), in the scenarios in which capture is never
\* paused, prompts stay on and the settings can be read.
Undisturbed == scenario.pauses + scenario.flips + scenario.reads = 0

SettledTurnStored ==
  Undisturbed => \A f \in Files :
    LET n == memory.fileSizes[f]
    IN  n > 0 /\ Parsed(f, n).msgs # {} => store[CurrentTurn(f, n)] = Parsed(f, n)

\* ... and every file within the watcher's reach gets to that point once Codex
\* has fallen silent.  Out of reach are, for good, the files that were not
\* stored before MaxActive others were written to later, or a day passed
\* (sessionlog.go:142-151, 295).
Displaced(f) ==
  Cardinality({g \in Recent \ {f} : file[f] # <<>> /\ Newer(g, f)}) >= MaxActive

EventuallyStored ==
  \A f \in Files :
    <>[](\/ ~Undisturbed
         \/ pc = "dead"
         \/ f \in aged \/ Displaced(f)
         \/ Parsed(f, Len(file[f])).msgs = {}
         \/ store[CurrentTurn(f, Len(file[f]))] = Parsed(f, Len(file[f])))

\* sessionlog.go:336-338: "prior turns are already persisted before a new turn
\* starts", looked at between scans when the whole file has been processed.
PriorTurnsStored ==
  \A f \in Files :
    pc = "idle" /\ memory.fileSizes[f] = Len(file[f]) =>
      \A i \in 1 .. Len(file[f]) :
        file[f][i].kind = "msg" =>
          /\ store[CurrentTurn(f, i)] # None
          /\ i \in store[CurrentTurn(f, i)].msgs
=============================================================================
