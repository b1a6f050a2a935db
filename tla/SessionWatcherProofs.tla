------------------------ MODULE SessionWatcherProofs ------------------------
(***************************************************************************)
(* Proofs about SessionWatcher, for every number of files, lines, pauses,  *)
(* switches, errors and restarts: types, and the three safety properties.  *)
(***************************************************************************)
EXTENDS SessionWatcher, FiniteSetTheorems, TLAPS

(* The inductive invariant *)

Counts == [files : SUBSET Files, lines : Nat, pauses : Nat, flips : Nat,
           fails : Nat, reads : Nat, days : Nat, restarts : Nat]

\* What was spent was there; every line has cost one.
Bounded == /\ scenario \in Counts /\ budget \in Counts
           /\ clock + budget.lines = scenario.lines
           /\ scenario.lines <= MaxLines
           /\ budget.pauses <= scenario.pauses /\ budget.flips <= scenario.flips
           /\ budget.reads <= scenario.reads /\ budget.restarts <= scenario.restarts

\* A file has no more lines than were written, and none from the future.
Stamped == \A f \in Files : /\ Len(file[f]) <= clock
                            /\ \A i \in 1 .. Len(file[f]) : file[f][i].at <= clock

InFile == pc \in {"recheck", "import", "save"}

\* Files are only looked at while capture is known to be on; what is about to
\* be saved is the current turn as the first scan.size lines have it, or less.
Scanning ==
  /\ DOMAIN scan = DOMAIN NoScan
  /\ pc = "files" \/ InFile => memory.policySet /\ memory.captureEnabled
  /\ pc = "save" => \E k : scan.turn = <<Head(scan.todo), k>>
  /\ \A f \in Files : InFile /\ f = Head(scan.todo) => scan.size \in 0 .. Len(file[f])
  /\ \A f \in Files : pc = "save" /\ f = Head(scan.todo) =>
       /\ scan.turn = CurrentTurn(f, scan.size)
       /\ scan.record \in Records
       /\ Parsed(f, scan.size).msgs # {}
       /\ scan.record.msgs \subseteq Parsed(f, scan.size).msgs
       /\ scan.record.done = Parsed(f, scan.size).done

WatcherInv == TypeOK /\ Bounded /\ Stamped /\ Scanning
-----------------------------------------------------------------------------
(* Files only grow; what was parsed of a part of one stays. *)

Extended == \A f \in Files : /\ Len(file[f]) \in Nat /\ Len(file'[f]) \in Nat
                             /\ Len(file[f]) <= Len(file'[f])
                             /\ \A i \in 1 .. Len(file[f]) : file'[f][i] = file[f][i]

LEMMA LinesOfFile ==
  ASSUME TypeOK, NEW f \in Files
  PROVE  Len(file[f]) \in Nat /\ \A i \in 1 .. Len(file[f]) : file[f][i] \in Lines
<1>1. file[f] \in Seq(Lines)
  BY DEF TypeOK
<1> HIDE DEF TypeOK
<1> QED
  BY <1>1

\* Spending one kind of budget leaves the others.
LEMMA Spending ==
  ASSUME Bounded, NEW what \in {"lines", "pauses", "flips", "fails", "reads", "days", "restarts"},
         Spend(what)
  PROVE  /\ budget' \in Counts
         /\ budget[what] > 0
         /\ budget'[what] = budget[what] - 1
         /\ \A w \in {"lines", "pauses", "flips", "fails", "reads", "days", "restarts"} :
              w # what => budget'[w] = budget[w]
BY DEF Bounded, Spend, Counts

\* What Codex appends.
LEMMA Appended ==
  ASSUME TypeOK, Bounded, NEW g \in Files, NEW kind \in {"start", "msg", "done"},
         CodexWrites(g, kind)
  PROVE  LET line == [kind |-> kind, at |-> clock + 1, noticed |-> PauseNoticed]
         IN  /\ line \in Lines
             /\ clock' = clock + 1 /\ clock' \in 1 .. MaxLines
             /\ file' \in [Files -> Seq(Lines)]
             /\ \A f \in Files \ {g} : file'[f] = file[f]
             /\ Len(file'[g]) = Len(file[g]) + 1
             /\ \A i \in 1 .. Len(file[g]) : file'[g][i] = file[g][i]
             /\ file'[g][Len(file[g]) + 1] = line
<1> DEFINE line == [kind |-> kind, at |-> clock + 1, noticed |-> PauseNoticed]
<1>1. clock' = clock + 1 /\ file' = [file EXCEPT ![g] = Append(@, line)]
  BY DEF CodexWrites
<1>2. budget.lines > 0 /\ clock + budget.lines <= MaxLines /\ clock \in Nat
      /\ budget.lines \in Nat /\ MaxLines \in Nat
  BY WatcherConstants DEF CodexWrites, Spend, Bounded, TypeOK, Counts
<1>3. clock' \in 1 .. MaxLines
  BY <1>1, <1>2
<1>4. line \in Lines
  <2>1. PauseNoticed \in BOOLEAN
    BY DEF PauseNoticed, TypeOK, Memories
  <2> QED
    BY <1>1, <1>3, <2>1, Zenon DEF Lines
<1> HIDE DEF line
<1>5. file[g] \in Seq(Lines) /\ file \in [Files -> Seq(Lines)]
  BY DEF TypeOK
<1>6. /\ Append(file[g], line) \in Seq(Lines)
      /\ Len(Append(file[g], line)) = Len(file[g]) + 1
      /\ \A i \in 1 .. Len(file[g]) : Append(file[g], line)[i] = file[g][i]
      /\ Append(file[g], line)[Len(file[g]) + 1] = line
  BY <1>4, <1>5
<1> QED
  BY <1>1, <1>3, <1>4, <1>5, <1>6 DEF line

LEMMA FilesGrow ==
  ASSUME TypeOK, Bounded, [Next]_vars
  PROVE  Extended
<1>1. \A f \in Files : Len(file[f]) \in Nat
  BY LinesOfFile
<1>2. ASSUME NEW g \in Files, NEW kind \in {"start", "msg", "done"}, CodexWrites(g, kind)
      PROVE  Extended
  BY <1>1, <1>2, Appended DEF Extended
<1>3. CASE UNCHANGED file
  BY <1>1, <1>3 DEF Extended
<1>4. [Next]_vars => \/ \E g \in Files, kind \in {"start", "msg", "done"} : CodexWrites(g, kind)
                     \/ UNCHANGED file
  BY DEF Next, Environment, WatcherStep, Pause, Resume, FlipPrompts, DayPasses, Restart, RunBegins,
         ScanBegins, SkipPaused, StatFile, Recheck, ImportFile, SaveTurn, SaveFails,
         ScanEnds, vars
<1> QED
  BY <1>2, <1>3, <1>4

LEMMA ParsedStays ==
  ASSUME Extended, NEW f \in Files, NEW n \in 0 .. Len(file[f])
  PROVE  /\ Starts(f, n)' = Starts(f, n)
         /\ CurrentTurn(f, n)' = CurrentTurn(f, n)
         /\ memory'.captureAfter = memory.captureAfter => Parsed(f, n)' = Parsed(f, n)
<1>1. \A m \in 0 .. n : Starts(f, m)' = Starts(f, m)
  BY DEF Extended, Starts
<1>2. Len(file[f]) \in Nat
  BY DEF Extended
<1>3. Starts(f, n)' = Starts(f, n)
  BY <1>1, <1>2
<1>4. ASSUME memory'.captureAfter = memory.captureAfter
      PROVE  TurnLines(f, n)' = TurnLines(f, n)
  BY <1>1, <1>2, <1>4 DEF TurnLines, Extended
<1>5. ASSUME memory'.captureAfter = memory.captureAfter
      PROVE  Parsed(f, n)' = Parsed(f, n)
  <2>1. \A i \in TurnLines(f, n) : file'[f][i] = file[f][i]
    BY <1>2 DEF TurnLines, Extended
  <2> QED
    BY <1>3, <1>4, <1>5, <2>1 DEF Parsed
<1> QED
  BY <1>3, <1>5 DEF CurrentTurn

\* The parts of a parsed turn.
LEMMA PartsParsed ==
  ASSUME TypeOK, NEW f \in Files, NEW n \in 0 .. Len(file[f]), Len(file[f]) <= MaxLines
  PROVE  /\ Parsed(f, n) \in Records
         /\ Parsed(f, n).msgs # {} => CurrentTurn(f, n) \in Turns
         /\ Starts(f, n) = {} => Parsed(f, n).msgs = {} /\ ~Parsed(f, n).done
         /\ \A i \in Parsed(f, n).msgs : /\ i \in 1 .. n
                                         /\ file[f][i].kind = "msg"
                                         /\ file[f][i].at > memory.captureAfter
                                         /\ CurrentTurn(f, i) = CurrentTurn(f, n)
         /\ Parsed(f, n).done => \E i \in 1 .. n : /\ file[f][i].kind = "done"
                                                   /\ CurrentTurn(f, i) = CurrentTurn(f, n)
<1>1. Len(file[f]) \in Nat /\ n \in Nat /\ n <= MaxLines /\ MaxLines \in Nat
  BY LinesOfFile, WatcherConstants
<1>2. TurnLines(f, n) \subseteq 1 .. MaxLines
  BY <1>1 DEF TurnLines
<1>3. Parsed(f, n) \in Records
  BY <1>2 DEF Parsed, Records
<1>4. Starts(f, n) # {} => CurrentTurn(f, n) \in Turns
  <2>1. Starts(f, n) \subseteq 1 .. n
    BY DEF Starts
  <2>2. IsFiniteSet(1 .. n) /\ Cardinality(1 .. n) = n
    BY <1>1, FS_Interval
  <2>3. IsFiniteSet(Starts(f, n)) /\ Cardinality(Starts(f, n)) <= n
    BY <2>1, <2>2, FS_Subset
  <2>4. Cardinality(Starts(f, n)) \in Nat
    BY <2>3, FS_CardinalityType
  <2>5. Starts(f, n) # {} => Cardinality(Starts(f, n)) # 0
    BY <2>3, FS_EmptySet
  <2> QED
    BY <1>1, <2>3, <2>4, <2>5 DEF CurrentTurn, Turns
<1>5. \A i \in TurnLines(f, n) : i \in 1 .. n /\ file[f][i].at > memory.captureAfter
                                 /\ CurrentTurn(f, i) = CurrentTurn(f, n)
  BY DEF TurnLines, CurrentTurn
<1> QED
  BY <1>3, <1>4, <1>5 DEF Parsed
-----------------------------------------------------------------------------
(* The invariant holds: types and counts first *)

LEMMA AnswerFields ==
  \A answer \in Answers : answer.enabled \in BOOLEAN /\ answer.prompts \in BOOLEAN
<1> SUFFICES ASSUME NEW answer \in Answers
             PROVE  answer.enabled \in BOOLEAN /\ answer.prompts \in BOOLEAN
  OBVIOUS
<1>1. CASE answer \in [enabled : {TRUE}, prompts : BOOLEAN]
  BY <1>1
<1>2. CASE answer = Nothing
  BY <1>2 DEF Nothing
<1> QED
  BY <1>1, <1>2 DEF Answers

LEMMA BoundedStep ==
  ASSUME TypeOK, Bounded, [Next]_vars
  PROVE  Bounded'
<1> DEFINE Others == {"pauses", "flips", "fails", "reads", "days", "restarts"}
<1>1. ASSUME NEW f \in Files, NEW kind \in {"start", "msg", "done"}, CodexWrites(f, kind),
             scenario' = scenario
      PROVE  Bounded'
  <2>1. Spend("lines") /\ clock' = clock + 1
    BY <1>1 DEF CodexWrites
  <2>2. clock \in Nat
    BY WatcherConstants DEF TypeOK
  <2> QED
    BY <1>1, <2>1, <2>2, Spending DEF Bounded, Counts
<1>2. ASSUME NEW what \in Others, Spend(what), UNCHANGED <<clock, scenario>>
      PROVE  Bounded'
  BY <1>2, Spending DEF Bounded, Counts
<1>3. CASE UNCHANGED <<clock, scenario, budget>>
  BY <1>3 DEF Bounded
<1>4. ASSUME Next
      PROVE  \/ \E f \in Files, kind \in {"start", "msg", "done"} :
                   CodexWrites(f, kind) /\ scenario' = scenario
             \/ \E what \in Others : Spend(what) /\ UNCHANGED <<clock, scenario>>
             \/ UNCHANGED <<clock, scenario, budget>>
  <2>1. CASE Environment
    BY <2>1 DEF Environment, Pause, Resume, FlipPrompts, DayPasses, Restart
  <2>2. CASE WatcherStep
    BY <2>2 DEF WatcherStep, RunBegins, ScanBegins, SkipPaused, StatFile, Recheck, ImportFile,
                SaveTurn, SaveFails, ScanEnds, CapturePolicy, Announce
  <2> QED
    BY <1>4, <2>1, <2>2 DEF Next
<1> QED
  BY <1>1, <1>2, <1>3, <1>4 DEF vars

LEMMA StampedStep ==
  ASSUME TypeOK, Bounded, Stamped, [Next]_vars
  PROVE  Stamped'
<1>1. ASSUME NEW g \in Files, NEW kind \in {"start", "msg", "done"}, CodexWrites(g, kind)
      PROVE  Stamped'
  <2> SUFFICES ASSUME NEW f \in Files
               PROVE  /\ Len(file'[f]) <= clock'
                      /\ \A i \in 1 .. Len(file'[f]) : file'[f][i].at <= clock'
    BY DEF Stamped
  <2>1. /\ clock \in Nat /\ clock' = clock + 1
        /\ Len(file[f]) \in Nat /\ Len(file[f]) <= clock
        /\ \A i \in 1 .. Len(file[f]) : file[f][i].at <= clock /\ file[f][i].at \in Nat
    <3>1. clock \in Nat /\ clock' = clock + 1
      BY <1>1, WatcherConstants DEF TypeOK, CodexWrites
    <3>2. /\ Len(file[f]) \in Nat
          /\ \A i \in 1 .. Len(file[f]) : file[f][i].at \in Nat
      BY LinesOfFile, WatcherConstants DEF Lines
    <3> QED
      BY <3>1, <3>2 DEF Stamped
  <2>2. CASE f # g
    BY <1>1, <2>1, <2>2, Appended
  <2>3. CASE f = g
    BY <1>1, <2>1, <2>3, Appended
  <2> QED
    BY <2>2, <2>3
<1>2. CASE UNCHANGED <<file, clock>>
  BY <1>2 DEF Stamped
<1>3. \/ \E g \in Files, kind \in {"start", "msg", "done"} : CodexWrites(g, kind)
      \/ UNCHANGED <<file, clock>>
  BY DEF Next, Environment, WatcherStep, Pause, Resume, FlipPrompts, DayPasses, Restart, RunBegins,
         ScanBegins, SkipPaused, StatFile, Recheck, ImportFile, SaveTurn, SaveFails,
         ScanEnds, vars
<1> QED
  BY <1>1, <1>2, <1>3

\* What the watcher remembers stays what it may remember.
LEMMA MemoryStep ==
  ASSUME WatcherInv, [Next]_vars
  PROVE  /\ memory' \in Memories
         /\ memory'.captureAfter <= clock'
         /\ \A f \in Files : memory'.fileSizes[f] <= Len(file'[f])
<1> DEFINE Goal == /\ memory' \in Memories
                   /\ memory'.captureAfter <= clock'
                   /\ \A f \in Files : memory'.fileSizes[f] <= Len(file'[f])
<1> USE DEF WatcherInv
<1>1. /\ memory \in Memories /\ memory.captureAfter <= clock /\ clock \in 0 .. MaxLines
      /\ MaxLines \in Nat /\ memory.captureAfter \in Nat
      /\ \A f \in Files : /\ memory.fileSizes[f] <= Len(file[f]) /\ Len(file[f]) \in 0 .. MaxLines
                          /\ memory.fileSizes[f] \in Int
  BY LinesOfFile, WatcherConstants DEF TypeOK, Stamped, Memories
<1>2. Extended
  BY FilesGrow
<1>3. CASE memory' = memory /\ clock' \in Nat /\ clock <= clock'
  BY <1>1, <1>2, <1>3 DEF Extended
<1>4. CASE Restart
  BY <1>1, <1>4 DEF Restart, FreshMemory, Memories
<1>5. CASE ScanBegins
  <2>1. CASE UNCHANGED <<clock, file>> 
    <3>1. PICK answer \in Answers :
            memory' = [memory EXCEPT !.captureAfter = CutOff(answer.enabled, answer.prompts),
                                     !.captureEnabled = answer.enabled,
                                     !.capturePrompts = answer.prompts,
                                     !.policySet = TRUE]
      BY <1>5 DEF ScanBegins
    <3>2. CutOff(answer.enabled, answer.prompts) \in {clock, memory.captureAfter}
      BY DEF CutOff
    <3>3. answer.enabled \in BOOLEAN /\ answer.prompts \in BOOLEAN
      BY AnswerFields
    <3>4. CutOff(answer.enabled, answer.prompts) \in 0 .. MaxLines
      BY <1>1, <3>2
    <3> HIDE DEF CutOff
    <3>5. memory' \in Memories /\ memory'.fileSizes = memory.fileSizes
          /\ memory'.captureAfter = CutOff(answer.enabled, answer.prompts)
      BY <1>1, <3>1, <3>3, <3>4 DEF Memories
    <3> QED
      BY <1>1, <2>1, <3>2, <3>5
  <2> QED
    BY <1>5, <2>1 DEF ScanBegins
<1>6. ASSUME Snapshot, UNCHANGED <<file, clock>>
      PROVE  Goal
  <2>1. \A f \in Files : Len(file[f]) \in -1 .. MaxLines
    BY <1>1
  <2>2. /\ memory' \in Memories /\ memory'.captureAfter = memory.captureAfter
        /\ \A f \in Files : memory'.fileSizes[f] \in {Len(file[f]), memory.fileSizes[f]}
    BY <1>1, <1>6, <2>1 DEF Snapshot, Memories
  <2> QED
    BY <1>1, <1>6, <2>2
<1>7. ASSUME NEW active \in BOOLEAN, NEW mem \in Memories, FinishFile(active, mem),
             mem.captureAfter = memory.captureAfter, mem.fileSizes = memory.fileSizes,
             InFile, UNCHANGED <<file, clock>>
      PROVE  Goal
  <2> DEFINE f == Head(scan.todo)
  <2>1. memory' = [mem EXCEPT !.fileSizes[f] = scan.size, !.fileActive[f] = active]
    BY <1>7 DEF FinishFile
  <2>2. f \in Files => scan.size \in 0 .. Len(file[f])
    BY <1>7 DEF Scanning
  <2> HIDE DEF f
  <2>3. f \in Files => scan.size \in -1 .. MaxLines
    BY <1>1, <2>2
  <2> DEFINE sizes == [mem.fileSizes EXCEPT ![f] = scan.size]
             actives == [mem.fileActive EXCEPT ![f] = active]
  <2>4. /\ sizes \in [Files -> -1 .. MaxLines]
        /\ \A g \in Files : \/ sizes[g] = memory.fileSizes[g]
                            \/ g = f /\ sizes[g] = scan.size
    <3>1. mem.fileSizes \in [Files -> -1 .. MaxLines]
      BY <1>7 DEF Memories
    <3>2. CASE f \in Files
      BY <1>7, <2>3, <3>1, <3>2
    <3>3. CASE f \notin Files
      BY <1>7, <3>1, <3>3
    <3> QED
      BY <3>2, <3>3
  <2>5. actives \in [Files -> BOOLEAN]
    BY <1>7 DEF Memories
  <2>6. memory' = [mem EXCEPT !.fileSizes = sizes, !.fileActive = actives]
    BY <1>7, <2>1 DEF Memories
  <2> HIDE DEF sizes, actives
  <2>7. /\ memory' \in Memories /\ memory'.captureAfter = memory.captureAfter
        /\ memory'.fileSizes = sizes
    BY <1>7, <2>4, <2>5, <2>6 DEF Memories
  <2> QED
    BY <1>1, <1>7, <2>2, <2>7, <2>4
<1>8. CASE ImportFile
  <2>1. CASE UNCHANGED memory
    BY <1>3, <1>1, <1>8, <2>1 DEF ImportFile
  <2>2. CASE \E active \in BOOLEAN : FinishFile(active, memory)
    BY <1>1, <1>7, <1>8, <2>2 DEF ImportFile, InFile
  <2> QED
    BY <1>8, <2>1, <2>2 DEF ImportFile
<1>9. CASE SaveTurn
  <2>1. scan.turn \in Turns => scan.record \in Records
    BY <1>9 DEF SaveTurn, Scanning, Turns
  <2> DEFINE mem == [memory EXCEPT !.signatures[scan.turn] = scan.record]
  <2>2. /\ mem \in Memories /\ mem.captureAfter = memory.captureAfter
        /\ mem.fileSizes = memory.fileSizes
    BY <1>1, <2>1 DEF Memories
  <2>3. FinishFile(~scan.record.done, mem) /\ InFile /\ UNCHANGED <<file, clock>>
    BY <1>9 DEF SaveTurn, InFile
  <2> HIDE DEF mem
  <2> QED
    BY <1>7, <2>2, <2>3
<1>10. [Next]_vars => \/ memory' = memory /\ clock' \in Nat /\ clock <= clock'
                      \/ Restart \/ ScanBegins \/ ImportFile \/ SaveTurn
                      \/ Snapshot /\ UNCHANGED <<file, clock>>
  BY <1>1 DEF Next, Environment, WatcherStep, CodexWrites, Pause, Resume, FlipPrompts, DayPasses, RunBegins,
         SkipPaused, StatFile, Recheck, SaveFails, ScanEnds, vars, watcherVars
<1> QED
  BY <1>3, <1>4, <1>5, <1>6, <1>8, <1>9, <1>10

LEMMA TypeOKStep ==
  ASSUME WatcherInv, [Next]_vars
  PROVE  TypeOK'
<1> USE DEF WatcherInv
<1>1. file' \in [Files -> Seq(Lines)] /\ clock' \in 0 .. MaxLines /\ clock <= clock'
  <2>1. clock \in 0 .. MaxLines /\ file \in [Files -> Seq(Lines)] /\ MaxLines \in Nat
    BY WatcherConstants DEF TypeOK
  <2>2. CASE UNCHANGED <<file, clock>>
    BY <2>1, <2>2
  <2>3. ASSUME NEW g \in Files, NEW kind \in {"start", "msg", "done"}, CodexWrites(g, kind)
        PROVE  file' \in [Files -> Seq(Lines)] /\ clock' \in 0 .. MaxLines /\ clock <= clock'
    BY <2>1, <2>3, Appended
  <2>4. \/ \E g \in Files, kind \in {"start", "msg", "done"} : CodexWrites(g, kind)
        \/ UNCHANGED <<file, clock>>
    BY DEF Next, Environment, WatcherStep, Pause, Resume, FlipPrompts, DayPasses, Restart, RunBegins,
           ScanBegins, SkipPaused, StatFile, Recheck, ImportFile, SaveTurn, SaveFails,
           ScanEnds, vars
  <2> QED
    BY <2>2, <2>3, <2>4
<1>2. policy' \in [paused : BOOLEAN, prompts : BOOLEAN]
  <2>1. policy \in [paused : BOOLEAN, prompts : BOOLEAN]
    BY DEF TypeOK
  <2>2. \/ policy' = policy
        \/ \E b \in BOOLEAN : policy' = [policy EXCEPT !.paused = b]
        \/ policy' = [policy EXCEPT !.prompts = ~@]
    BY DEF Next, Environment, WatcherStep, CodexWrites, Pause, Resume, FlipPrompts, DayPasses, Restart,
           RunBegins, ScanBegins, SkipPaused, StatFile, Recheck, ImportFile, SaveTurn,
           SaveFails, ScanEnds, vars
  <2> QED
    BY <2>1, <2>2
<1>3. pausedSince' \in 0 .. clock'
  <2>1. pausedSince' \in {pausedSince, clock}
    BY DEF Next, Environment, WatcherStep, CodexWrites, Pause, Resume, FlipPrompts, DayPasses, Restart,
           RunBegins, ScanBegins, SkipPaused, StatFile, Recheck, ImportFile, SaveTurn,
           SaveFails, ScanEnds, vars
  <2>2. pausedSince \in 0 .. clock /\ clock \in Nat /\ clock' \in Nat
    BY <1>1, WatcherConstants DEF TypeOK
  <2> QED
    BY <1>1, <2>1, <2>2
<1>4. store' \in [Turns -> Records \cup {None}]
  <2>1. store \in [Turns -> Records \cup {None}]
    BY DEF TypeOK
  <2>2. CASE UNCHANGED store
    BY <2>1, <2>2
  <2>3. CASE SaveTurn
    <3>1. scan.turn \in Turns => scan.record \in Records
      BY <2>3 DEF SaveTurn, Scanning, Turns
    <3>2. store' = [store EXCEPT ![scan.turn] = scan.record]
      BY <2>3 DEF SaveTurn
    <3> QED
      BY <2>1, <3>1, <3>2
  <2>4. UNCHANGED store \/ SaveTurn
    BY DEF Next, Environment, WatcherStep, CodexWrites, Pause, Resume, FlipPrompts, DayPasses, Restart,
           RunBegins, ScanBegins, SkipPaused, StatFile, Recheck, ImportFile,
           SaveFails, ScanEnds, vars
  <2> QED
    BY <2>2, <2>3, <2>4
<1>5. pc' \in {"starting", "idle", "paused", "files", "recheck", "import", "save", "dead"}
  BY DEF TypeOK, Next, Environment, WatcherStep, CodexWrites, Pause, Resume, FlipPrompts, DayPasses, Restart,
         RunBegins, ScanBegins, SkipPaused, StatFile, Recheck, ImportFile, SaveTurn, FinishFile,
         SaveFails, ScanEnds, vars, watcherVars
<1>6. aged' \subseteq Files
  <2>1. \/ UNCHANGED aged
        \/ \E f \in Files : aged' = aged \ {f}
        \/ \E moment : aged' = aged \cup {f \in Files : file[f] # <<>> /\ Last(file[f]).at <= moment}
    BY DEF Next, Environment, WatcherStep, CodexWrites, Pause, Resume, FlipPrompts, DayPasses, Restart,
           RunBegins, ScanBegins, SkipPaused, StatFile, Recheck, ImportFile, SaveTurn,
           SaveFails, ScanEnds, vars
  <2> QED
    BY <2>1 DEF TypeOK
<1> QED
  BY <1>1, <1>2, <1>3, <1>4, <1>5, <1>6, MemoryStep DEF TypeOK

\* Appending to files, and whatever else leaves the watcher alone.
LEMMA ScanningKept ==
  ASSUME WatcherInv, Extended, UNCHANGED watcherVars
  PROVE  Scanning'
<1>1. memory' = memory /\ pc' = pc /\ scan' = scan
  BY DEF watcherVars
<1>2. InFile' <=> InFile
  BY <1>1 DEF InFile
<1>3. ASSUME NEW f \in Files, InFile, f = Head(scan.todo)
      PROVE  scan.size \in 0 .. Len(file[f]) /\ scan.size \in 0 .. Len(file'[f])
  <2>1. scan.size \in 0 .. Len(file[f])
    BY <1>3 DEF WatcherInv, Scanning
  <2> QED
    BY <2>1 DEF Extended
<1>4. ASSUME NEW f \in Files, pc = "save", f = Head(scan.todo)
      PROVE  CurrentTurn(f, scan.size)' = CurrentTurn(f, scan.size)
             /\ Parsed(f, scan.size)' = Parsed(f, scan.size)
  <2>1. scan.size \in 0 .. Len(file[f])
    BY <1>3, <1>4 DEF InFile
  <2>2. /\ CurrentTurn(f, scan.size)' = <<f, Cardinality(Starts(f, scan.size)')>>
    BY <1>1 DEF CurrentTurn
  <2> QED
    BY <1>1, <2>1, ParsedStays
<1> QED
  BY <1>1, <1>2, <1>3, <1>4 DEF WatcherInv, Scanning

LEMMA ScanningStep ==
  ASSUME WatcherInv, [Next]_vars
  PROVE  Scanning'
<1>1. /\ TypeOK /\ Bounded /\ Stamped /\ DOMAIN scan = DOMAIN NoScan
      /\ \A f \in Files : Len(file[f]) \in 0 .. MaxLines
      /\ pc = "files" \/ InFile => memory.policySet /\ memory.captureEnabled
      /\ memory \in Memories
  <2>1. clock <= MaxLines /\ MaxLines \in Nat /\ clock \in Nat
    BY WatcherConstants DEF WatcherInv, TypeOK
  <2> QED
    BY <2>1, LinesOfFile DEF WatcherInv, Scanning, Stamped, TypeOK
<1>2. Extended
  BY <1>1, FilesGrow
<1>3. CASE UNCHANGED watcherVars
  BY <1>2, <1>3, ScanningKept
<1>4. ASSUME pc' \notin {"files", "recheck", "import", "save"}, DOMAIN scan' = DOMAIN NoScan
      PROVE  Scanning'
  BY <1>4 DEF Scanning, InFile
<1>5. ASSUME pc' = "files", DOMAIN scan' = DOMAIN NoScan,
             memory'.policySet, memory'.captureEnabled
      PROVE  Scanning'
  BY <1>5 DEF Scanning, InFile
<1>6. CASE ScanBegins
  <2>1. DOMAIN scan' = DOMAIN NoScan
    BY <1>6 DEF ScanBegins, NoScan
  <2>2. PICK answer \in Answers :
          /\ memory' = [memory EXCEPT
               !.captureAfter = CutOff(answer.enabled, answer.prompts),
               !.captureEnabled = answer.enabled, !.capturePrompts = answer.prompts,
               !.policySet = TRUE]
          /\ pc' = IF answer.enabled THEN "files" ELSE "paused"
    BY <1>6 DEF ScanBegins
  <2> HIDE DEF CutOff
  <2>3. memory'.policySet /\ memory'.captureEnabled = answer.enabled
    BY <1>1, <2>2 DEF Memories
  <2> QED
    BY <1>4, <1>5, <2>1, <2>2, <2>3
<1>7. CASE StatFile
  <2>1. CASE pc' = "files"
    BY <1>1, <1>5, <1>7, <2>1 DEF StatFile
  <2>2. CASE pc' = "recheck"
    <3>1. /\ scan' = [scan EXCEPT !.size = Len(file[Head(scan.todo)])]
          /\ memory' = memory /\ file' = file
      BY <1>7, <2>2 DEF StatFile
    <3>2. /\ scan'.todo = scan.todo /\ scan'.size = Len(file[Head(scan.todo)])
          /\ DOMAIN scan' = DOMAIN scan
      BY <1>1, <3>1 DEF NoScan
    <3>3. \A f \in Files : Len(file[f]) \in 0 .. Len(file[f])
      BY <1>1
    <3> QED
      BY <1>1, <1>7, <2>2, <3>1, <3>2, <3>3 DEF Scanning, InFile, StatFile
  <2> QED
    BY <1>7, <2>1, <2>2 DEF StatFile
<1>8. CASE Recheck
  <2>1. CASE pc' = "import" /\ UNCHANGED <<memory, scan, file>>
    BY <1>1, <1>8, <2>1 DEF WatcherInv, Recheck, Scanning, InFile
  <2> QED
    BY <1>4, <1>8, <2>1 DEF Recheck
<1>9. ASSUME NEW active \in BOOLEAN, NEW mem \in Memories, FinishFile(active, mem),
             mem.policySet, mem.captureEnabled, DOMAIN scan' = DOMAIN scan
      PROVE  Scanning'
  <2>1. pc' = "files" /\ memory'.policySet /\ memory'.captureEnabled
    BY <1>9 DEF FinishFile, Memories
  <2> QED
    BY <1>1, <1>5, <1>9, <2>1
<1>10. CASE ImportFile
  <2> DEFINE f == Head(scan.todo)
  <2>1. PICK answer \in Answers :
          LET parsed == Parsed(f, scan.size)
              turn == CurrentTurn(f, scan.size)
              record == IF answer.prompts THEN parsed ELSE [parsed EXCEPT !.msgs = {}]
          IN  IF parsed.msgs = {} \/ memory.signatures[turn] = record
              THEN /\ FinishFile(parsed.msgs # {} /\ ~parsed.done, memory)
                   /\ scan' = [scan EXCEPT !.todo = Tail(@)]
              ELSE /\ pc' = "save" /\ memory' = memory
                   /\ scan' = [scan EXCEPT !.turn = turn, !.record = record]
    BY <1>10 DEF ImportFile
  <2>2. pc = "import" /\ file' = file
    BY <1>10 DEF ImportFile
  <2>3. CASE \E active \in BOOLEAN : FinishFile(active, memory) /\ scan' = [scan EXCEPT !.todo = Tail(@)]
    BY <1>1, <1>9, <2>2, <2>3 DEF InFile
  <2>4. CASE /\ Parsed(f, scan.size).msgs # {}
             /\ pc' = "save" /\ memory' = memory
             /\ scan' = [scan EXCEPT !.turn = CurrentTurn(f, scan.size),
                  !.record = IF answer.prompts THEN Parsed(f, scan.size)
                             ELSE [Parsed(f, scan.size) EXCEPT !.msgs = {}]]
    <3>1. /\ scan'.todo = scan.todo /\ scan'.size = scan.size /\ DOMAIN scan' = DOMAIN scan
          /\ scan'.turn = CurrentTurn(f, scan.size)
          /\ scan'.record = IF answer.prompts THEN Parsed(f, scan.size)
                            ELSE [Parsed(f, scan.size) EXCEPT !.msgs = {}]
      BY <1>1, <2>4 DEF NoScan
    <3>2. f \in Files => scan.size \in 0 .. Len(file[f])
      BY <2>2 DEF WatcherInv, Scanning, InFile
    <3>3. f \in Files => Parsed(f, scan.size) \in Records
      BY <1>1, <3>2, PartsParsed
    <3>4. f \in Files =>
            /\ Parsed(f, scan.size)' = Parsed(f, scan.size)
            /\ CurrentTurn(f, scan.size)' = CurrentTurn(f, scan.size)
      BY <1>2, <2>4, <3>1, <3>2, ParsedStays
    <3>5. /\ scan'.record.msgs \subseteq Parsed(f, scan.size).msgs
          /\ f \in Files => scan'.record \in Records
                            /\ scan'.record.done = Parsed(f, scan.size).done
      BY <3>1, <3>3 DEF Records
    <3>6. /\ \E k : scan'.turn = <<f, k>>
          /\ memory'.policySet /\ memory'.captureEnabled
          /\ Len(file'[f]) = Len(file[f])
      BY <1>1, <2>2, <2>4, <3>1 DEF CurrentTurn, InFile
    <3> QED
      BY <1>1, <2>4, <3>1, <3>2, <3>3, <3>4, <3>5, <3>6 DEF Scanning, InFile
  <2> QED
    BY <2>1, <2>3, <2>4
<1>11. CASE SaveTurn
  <2>1. scan.turn \in Turns => scan.record \in Records
    BY <1>11 DEF SaveTurn, WatcherInv, Scanning, Turns
  <2> DEFINE mem == [memory EXCEPT !.signatures[scan.turn] = scan.record]
  <2>2. mem \in Memories /\ mem.policySet /\ mem.captureEnabled
    BY <1>1, <1>11, <2>1 DEF Memories, SaveTurn, InFile
  <2>3. FinishFile(~scan.record.done, mem) /\ DOMAIN scan' = DOMAIN scan
    BY <1>11 DEF SaveTurn
  <2> HIDE DEF mem
  <2> QED
    BY <1>9, <2>2, <2>3
<1>12. CASE SaveFails
  BY <1>1, <1>5, <1>12 DEF SaveFails, InFile
<1>13. ASSUME RunBegins \/ SkipPaused \/ ScanEnds \/ Restart
       PROVE  Scanning'
  BY <1>1, <1>4, <1>13 DEF RunBegins, SkipPaused, ScanEnds, Restart
<1> QED
  BY <1>3, <1>6, <1>7, <1>8, <1>10, <1>11, <1>12, <1>13
  DEF Next, Environment, WatcherStep, CodexWrites, Pause, Resume, FlipPrompts, DayPasses, vars, watcherVars

\* What each poll reads of a file is typed, within its bounds and stamped in
\* the past, whatever Codex, the user and the store do in between.
THEOREM WatcherTypeCorrect == Spec => []WatcherInv
<1>1. Init => WatcherInv
  <2> SUFFICES ASSUME Init PROVE WatcherInv
    OBVIOUS
  <2>1. scenario \in Counts /\ scenario.lines <= MaxLines /\ MaxLines \in Nat
        /\ scenario.lines \in Nat
    BY WatcherConstants DEF Init, Counts
  <2>2. memory \in Memories /\ memory.captureAfter = 0 /\ \A f \in Files : memory.fileSizes[f] = -1
    BY <2>1 DEF Init, FreshMemory, Memories
  <2>3. TypeOK
    BY <2>1, <2>2 DEF Init, TypeOK
  <2>4. Bounded
    BY <2>1 DEF Init, Bounded, Counts
  <2> QED
    BY <2>3, <2>4 DEF Init, WatcherInv, Stamped, Scanning, InFile
<1>2. WatcherInv /\ [Next]_vars => WatcherInv'
  BY TypeOKStep, BoundedStep, StampedStep, ScanningStep DEF WatcherInv
<1> QED
  BY <1>1, <1>2, PTL DEF Spec
-----------------------------------------------------------------------------
(* A message written in a noticed pause stays out *)

LinesKeptOut ==
  \A f \in Files : \A i \in 1 .. Len(file[f]) : file[f][i].noticed =>
    \/ memory.policySet /\ ~memory.captureEnabled
    \/ file[f][i].at <= memory.captureAfter

StoredClean ==
  \A t \in Turns : store[t] # None =>
    \A i \in store[t].msgs : i \in 1 .. Len(file[t[1]]) /\ ~file[t[1]][i].noticed

NoticedInv == scenario.restarts = 0 => LinesKeptOut /\ StoredClean

LEMMA Numbers ==
  ASSUME WatcherInv
  PROVE  /\ TypeOK /\ Bounded /\ memory \in Memories /\ clock \in Nat
         /\ memory.captureAfter \in Nat /\ memory.captureAfter <= clock
         /\ \A f \in Files : /\ Len(file[f]) \in Nat /\ Len(file[f]) <= MaxLines
                             /\ \A i \in 1 .. Len(file[f]) :
                                  file[f][i].at \in Nat /\ file[f][i].at <= clock
<1>1. /\ TypeOK /\ Bounded /\ memory \in Memories /\ memory.captureAfter <= clock
      /\ clock \in 0 .. MaxLines /\ MaxLines \in Nat
  BY WatcherConstants DEF WatcherInv, TypeOK
<1>2. memory.captureAfter \in Nat
  BY <1>1 DEF Memories
<1>3. \A f \in Files : Len(file[f]) \in Nat /\ \A i \in 1 .. Len(file[f]) : file[f][i] \in Lines
  BY <1>1, LinesOfFile
<1>4. \A line \in Lines : line.at \in Nat
  BY <1>1 DEF Lines
<1> QED
  BY <1>1, <1>2, <1>3, <1>4 DEF WatcherInv, Stamped

LEMMA KeptOutStep ==
  ASSUME WatcherInv, LinesKeptOut, scenario.restarts = 0, [Next]_vars
  PROVE  LinesKeptOut'
<1>1. /\ TypeOK /\ Bounded /\ memory \in Memories /\ clock \in Nat
      /\ memory.captureAfter \in Nat /\ memory.captureAfter <= clock
      /\ \A f \in Files : /\ Len(file[f]) \in Nat
                          /\ \A i \in 1 .. Len(file[f]) :
                               file[f][i].at \in Nat /\ file[f][i].at <= clock
  BY Numbers
<1>2. ASSUME NEW g \in Files, NEW kind \in {"start", "msg", "done"}, CodexWrites(g, kind)
      PROVE  LinesKeptOut'
  <2>1. memory' = memory
    BY <1>2 DEF CodexWrites, watcherVars
  <2>2. PauseNoticed => memory.policySet /\ ~memory.captureEnabled
    BY DEF PauseNoticed
  <2>3. /\ \A f \in Files \ {g} : file'[f] = file[f]
        /\ Len(file'[g]) = Len(file[g]) + 1
        /\ \A i \in 1 .. Len(file[g]) : file'[g][i] = file[g][i]
        /\ file'[g][Len(file[g]) + 1].noticed = PauseNoticed
    BY <1>1, <1>2, Appended
  <2> QED
    BY <1>1, <2>1, <2>2, <2>3 DEF LinesKeptOut
<1>3. CASE ScanBegins
  <2>1. PICK answer \in Answers :
          memory' = [memory EXCEPT !.captureAfter = CutOff(answer.enabled, answer.prompts),
                                   !.captureEnabled = answer.enabled,
                                   !.capturePrompts = answer.prompts,
                                   !.policySet = TRUE]
    BY <1>3 DEF ScanBegins
  <2>2. answer.enabled \in BOOLEAN
    BY AnswerFields
  <2>3. /\ memory'.policySet /\ memory'.captureEnabled = answer.enabled
        /\ memory'.captureAfter = CutOff(answer.enabled, answer.prompts)
    BY <1>1, <2>1 DEF Memories
  <2>4. /\ CutOff(answer.enabled, answer.prompts) \in {clock, memory.captureAfter}
        /\ memory.policySet /\ ~memory.captureEnabled /\ answer.enabled =>
             CutOff(answer.enabled, answer.prompts) = clock
    BY DEF CutOff
  <2>5. file' = file
    BY <1>3 DEF ScanBegins
  <2> HIDE DEF CutOff
  <2> QED
    BY <1>1, <2>2, <2>3, <2>4, <2>5 DEF LinesKeptOut
<1>4. CASE UNCHANGED file /\ memory'.policySet = memory.policySet
           /\ memory'.captureEnabled = memory.captureEnabled
           /\ memory'.captureAfter = memory.captureAfter
  BY <1>4 DEF LinesKeptOut
<1>5. ~Restart
  BY Spending, <1>1 DEF Restart, Bounded, Counts
<1>6. ASSUME NEW active, NEW mem \in Memories, FinishFile(active, mem)
      PROVE  /\ memory'.policySet = mem.policySet
             /\ memory'.captureEnabled = mem.captureEnabled
             /\ memory'.captureAfter = mem.captureAfter
  BY <1>6 DEF FinishFile, Memories
<1>7. CASE SaveTurn
  <2>1. scan.turn \in Turns => scan.record \in Records
    BY <1>7 DEF SaveTurn, WatcherInv, Scanning, Turns
  <2> DEFINE mem == [memory EXCEPT !.signatures[scan.turn] = scan.record]
  <2>2. /\ mem \in Memories /\ mem.policySet = memory.policySet
        /\ mem.captureEnabled = memory.captureEnabled
        /\ mem.captureAfter = memory.captureAfter
    BY <1>1, <2>1 DEF Memories
  <2>3. FinishFile(~scan.record.done, mem) /\ file' = file
    BY <1>7 DEF SaveTurn
  <2> HIDE DEF mem
  <2> QED
    BY <1>4, <1>6, <2>2, <2>3
<1>8. CASE ImportFile
  BY <1>1, <1>4, <1>6, <1>8 DEF ImportFile
<1>9. ASSUME Snapshot, UNCHANGED file
      PROVE  LinesKeptOut'
  BY <1>1, <1>4, <1>9 DEF Snapshot, Memories
<1>10. CASE UNCHANGED <<file, memory>>
  BY <1>4, <1>10
<1>11. CASE SkipPaused \/ Recheck
  BY <1>9, <1>10, <1>11 DEF SkipPaused, Recheck
<1> QED
  BY <1>2, <1>3, <1>5, <1>7, <1>8, <1>10, <1>11
  DEF Next, Environment, WatcherStep, Pause, Resume, FlipPrompts, DayPasses, RunBegins, StatFile, SaveFails,
      ScanEnds, vars, watcherVars

LEMMA CleanStep ==
  ASSUME WatcherInv, LinesKeptOut, StoredClean, [Next]_vars
  PROVE  StoredClean'
<1>1. Extended /\ TypeOK
  BY FilesGrow DEF WatcherInv
<1>2. CASE UNCHANGED store
  BY <1>1, <1>2 DEF StoredClean, Extended, Turns
<1>3. CASE SaveTurn
  <2> DEFINE f == Head(scan.todo)
  <2>1. file' = file /\ store' = [store EXCEPT ![scan.turn] = scan.record]
        /\ pc = "save" /\ store \in [Turns -> Records \cup {None}]
    BY <1>1, <1>3 DEF SaveTurn, TypeOK
  <2>2. ASSUME NEW t \in Turns, t = scan.turn
        PROVE  \A i \in scan.record.msgs : i \in 1 .. Len(file[t[1]]) /\ ~file[t[1]][i].noticed
    <3>1. f \in Files /\ t[1] = f
      BY <2>1, <2>2 DEF WatcherInv, Scanning, Turns
    <3>2. /\ scan.size \in 0 .. Len(file[f])
          /\ scan.record.msgs \subseteq Parsed(f, scan.size).msgs
          /\ memory.captureEnabled
      BY <2>1, <3>1 DEF WatcherInv, Scanning, InFile
    <3>3. /\ Len(file[f]) <= MaxLines /\ Len(file[f]) \in Nat
          /\ memory.captureAfter \in Nat
          /\ \A i \in 1 .. Len(file[f]) : file[f][i].at \in Nat
      BY <3>1, Numbers
    <3>4. \A i \in Parsed(f, scan.size).msgs : i \in 1 .. scan.size
                                               /\ file[f][i].at > memory.captureAfter
      BY <1>1, <3>1, <3>2, <3>3, PartsParsed
    <3> QED
      BY <3>1, <3>2, <3>3, <3>4 DEF LinesKeptOut
  <2> QED
    BY <2>1, <2>2 DEF StoredClean
<1> QED
  BY <1>2, <1>3
  DEF Next, Environment, WatcherStep, CodexWrites, Pause, Resume, FlipPrompts, DayPasses, Restart, RunBegins,
      ScanBegins, SkipPaused, StatFile, Recheck, ImportFile, SaveFails, ScanEnds, vars

\* Without a restart, a message written after the watcher had noticed a pause
\* is never stored (sessionlog.go:114-150, 665).
THEOREM NoticedPauseKeptOut ==
  Spec => [](scenario.restarts = 0 => NoticedPauseNotBackfilled)
<1>1. Init => NoticedInv
  <2> SUFFICES ASSUME Init PROVE LinesKeptOut /\ StoredClean
    BY DEF NoticedInv
  <2>1. \A f \in Files : Len(file[f]) = 0
    BY DEF Init
  <2> QED
    BY <2>1 DEF Init, LinesKeptOut, StoredClean
<1>2. WatcherInv /\ NoticedInv /\ [Next]_vars => NoticedInv'
  <2>1. [Next]_vars => scenario' = scenario
    BY DEF Next, Environment, WatcherStep, vars
  <2> QED
    BY <2>1, KeptOutStep, CleanStep DEF NoticedInv
<1>3. NoticedInv => (scenario.restarts = 0 => NoticedPauseNotBackfilled)
  BY DEF NoticedInv, StoredClean, NoticedPauseNotBackfilled
<1> QED
  BY <1>1, <1>2, <1>3, WatcherTypeCorrect, PTL DEF Spec
-----------------------------------------------------------------------------
(* What is settled is stored *)

StoredAsSigned == \A t \in Turns : memory.signatures[t] # None => store[t] = memory.signatures[t]

Calm == /\ policy = [paused |-> FALSE, prompts |-> TRUE]
        /\ memory.captureAfter = 0
        /\ memory.policySet => memory.captureEnabled /\ memory.capturePrompts
        /\ pc # "paused"
        /\ pc = "save" => \A f \in Files : f = Head(scan.todo) =>
                            scan.record = Parsed(f, scan.size)
        /\ StoredAsSigned
        /\ SettledTurnStored

CalmInv == Undisturbed => Calm

Settled(f) ==
  LET n == memory.fileSizes[f]
  IN  n > 0 /\ Parsed(f, n).msgs # {} => store[CurrentTurn(f, n)] = Parsed(f, n)

\* Everybody says that prompts are to be captured.
LEMMA CalmAnswer ==
  ASSUME WatcherInv, Undisturbed, Calm, NEW answer, CapturePolicy(answer)
  PROVE  answer = [enabled |-> TRUE, prompts |-> TRUE]
<1>1. ~(Spend("reads"))
  BY DEF WatcherInv, Bounded, Counts, Undisturbed, Spend
<1> QED
  BY <1>1 DEF CapturePolicy, Calm

\* A settled file stays settled while its lines, its size and the store stay.
LEMMA SettledKept ==
  ASSUME WatcherInv, Undisturbed, Calm, Extended, memory'.captureAfter = 0,
         NEW f \in Files, memory'.fileSizes[f] = memory.fileSizes[f],
         \A k : <<f, k>> \in Turns => store'[<<f, k>>] = store[<<f, k>>]
  PROVE  Settled(f)'
<1> SUFFICES ASSUME NEW n, n = memory.fileSizes[f]
             PROVE  n > 0 /\ Parsed(f, n)'.msgs # {} =>
                      store'[CurrentTurn(f, n)'] = Parsed(f, n)'
  BY DEF Settled
<1>1. n \in Int /\ n <= Len(file[f]) /\ Len(file[f]) \in Nat /\ Len(file[f]) <= MaxLines
      /\ memory'.captureAfter = memory.captureAfter
  BY Numbers DEF WatcherInv, TypeOK, Memories, Calm
<1>2. CASE n > 0
  <2>1. n \in 0 .. Len(file[f])
    BY <1>1, <1>2
  <2>2. /\ Parsed(f, n)' = Parsed(f, n) /\ CurrentTurn(f, n)' = CurrentTurn(f, n)
    BY <1>1, <2>1, ParsedStays
  <2>3. Parsed(f, n).msgs # {} => CurrentTurn(f, n) \in Turns
    BY <1>1, <2>1, PartsParsed, Numbers
  <2>4. Parsed(f, n).msgs # {} => store[CurrentTurn(f, n)] = Parsed(f, n)
    BY <1>2 DEF Calm, SettledTurnStored
  <2>5. \E k : CurrentTurn(f, n) = <<f, k>>
    BY DEF CurrentTurn
  <2> QED
    BY <2>2, <2>3, <2>4, <2>5
<1> QED
  BY <1>2

\* A step that changes no stored record, signature or size.
LEMMA CalmKept ==
  ASSUME WatcherInv, Undisturbed, Calm, Extended, UNCHANGED <<policy, store>>,
         memory'.captureAfter = 0, memory'.fileSizes = memory.fileSizes,
         memory'.signatures = memory.signatures,
         memory'.policySet => memory'.captureEnabled /\ memory'.capturePrompts,
         pc' # "paused", pc' = "save" => pc = "save" /\ scan' = scan
  PROVE  Calm'
<1>1. SettledTurnStored'
  <2> SUFFICES \A f \in Files : Settled(f)'
    BY DEF SettledTurnStored, Settled
  <2> QED
    BY SettledKept
<1>2. ASSUME pc' = "save", NEW f \in Files, f = Head(scan'.todo)
      PROVE  scan'.record = Parsed(f, scan.size)' /\ scan'.size = scan.size
  <2>1. pc = "save" /\ scan' = scan /\ f = Head(scan.todo)
    BY <1>2
  <2>2. scan.size \in 0 .. Len(file[f]) /\ scan.record = Parsed(f, scan.size)
    BY <2>1 DEF WatcherInv, Scanning, InFile, Calm
  <2>3. memory'.captureAfter = memory.captureAfter
    BY DEF Calm
  <2> QED
    BY <2>1, <2>2, <2>3, ParsedStays
<1> QED
  BY <1>1, <1>2 DEF Calm, StoredAsSigned

LEMMA CalmStep ==
  ASSUME WatcherInv, Undisturbed, Calm, [Next]_vars
  PROVE  Calm'
<1>1. Extended
  BY FilesGrow DEF WatcherInv
<1>2. CASE UNCHANGED <<policy, store, memory>> /\ pc' # "paused"
           /\ (pc' = "save" => pc = "save" /\ scan' = scan)
  BY <1>1, <1>2, CalmKept DEF Calm
<1>3. ~Pause /\ ~FlipPrompts /\ ~Resume /\ ~SkipPaused
  BY DEF Pause, FlipPrompts, Resume, SkipPaused, Calm, Spend, WatcherInv, Bounded, Counts,
         Undisturbed
<1>4. CASE Restart
  <2>1. memory' = FreshMemory /\ pc' = "starting" /\ UNCHANGED <<policy, store>>
    BY <1>4 DEF Restart
  <2>2. /\ memory'.captureAfter = 0 /\ ~memory'.policySet
        /\ \A f \in Files : memory'.fileSizes[f] = -1
        /\ \A t \in Turns : memory'.signatures[t] = None
    BY <2>1 DEF FreshMemory
  <2>3. SettledTurnStored'
    BY <2>2 DEF SettledTurnStored
  <2> QED
    BY <2>1, <2>2, <2>3 DEF Calm, StoredAsSigned
<1>5. CASE ScanBegins
  <2>1. PICK answer \in Answers :
          /\ CapturePolicy(answer)
          /\ memory' = [memory EXCEPT
               !.captureAfter = CutOff(answer.enabled, answer.prompts),
               !.captureEnabled = answer.enabled, !.capturePrompts = answer.prompts,
               !.policySet = TRUE]
          /\ pc' = IF answer.enabled THEN "files" ELSE "paused"
          /\ UNCHANGED <<policy, store>>
    BY <1>5 DEF ScanBegins
  <2>2. answer = [enabled |-> TRUE, prompts |-> TRUE]
    BY <2>1, CalmAnswer
  <2>3. CutOff(answer.enabled, answer.prompts) = 0
    BY <2>2 DEF CutOff, Calm
  <2> HIDE DEF CutOff
  <2>4. /\ memory'.captureAfter = 0 /\ memory'.captureEnabled /\ memory'.capturePrompts
        /\ memory'.fileSizes = memory.fileSizes /\ memory'.signatures = memory.signatures
    BY <2>1, <2>2, <2>3, Numbers DEF Memories
  <2> QED
    BY <1>1, <2>1, <2>2, <2>4, CalmKept
<1>6. CASE Recheck
  <2>1. PICK answer \in Answers :
          /\ CapturePolicy(answer)
          /\ answer.enabled => pc' = "import" /\ UNCHANGED <<memory, scan>>
    BY <1>6 DEF Recheck
  <2>2. answer.enabled
    BY <2>1, CalmAnswer
  <2> QED
    BY <1>2, <1>6, <2>1, <2>2 DEF Recheck
<1>7. CASE ImportFile
  <2> DEFINE f == Head(scan.todo)
             parsed == Parsed(f, scan.size)
             turn == CurrentTurn(f, scan.size)
  <2>1. PICK answer \in Answers :
          /\ CapturePolicy(answer)
          /\ LET record == IF answer.prompts THEN parsed ELSE [parsed EXCEPT !.msgs = {}]
             IN  IF parsed.msgs = {} \/ memory.signatures[turn] = record
                 THEN FinishFile(parsed.msgs # {} /\ ~parsed.done, memory)
                 ELSE /\ pc' = "save" /\ memory' = memory
                      /\ scan' = [scan EXCEPT !.turn = turn, !.record = record]
    BY <1>7 DEF ImportFile
  <2>2. answer.prompts
    BY <2>1, CalmAnswer
  <2>3. pc = "import" /\ UNCHANGED <<file, policy, store>>
    BY <1>7 DEF ImportFile
  <2>4. f \in Files => scan.size \in 0 .. Len(file[f])
    BY <2>3 DEF WatcherInv, Scanning, InFile
  <2>5. CASE /\ pc' = "save" /\ memory' = memory
             /\ scan' = [scan EXCEPT !.turn = turn, !.record = parsed]
    <3>1. /\ scan'.todo = scan.todo /\ scan'.size = scan.size
          /\ scan'.record = parsed
      BY <2>5 DEF WatcherInv, Scanning, NoScan
    <3>2. ASSUME NEW g \in Files, g = Head(scan'.todo)
          PROVE  scan'.record = Parsed(g, scan.size)'
      BY <1>1, <2>4, <2>5, <3>1, <3>2, ParsedStays
    <3>3. SettledTurnStored'
      <4> SUFFICES \A g \in Files : Settled(g)'
        BY DEF SettledTurnStored, Settled
      <4> QED
        BY <1>1, <2>3, <2>5, SettledKept DEF Calm
    <3> QED
      BY <2>3, <2>5, <3>1, <3>2, <3>3 DEF Calm, StoredAsSigned
  <2>6. CASE /\ parsed.msgs = {} \/ memory.signatures[turn] = parsed
             /\ \E active \in BOOLEAN : FinishFile(active, memory)
    <3>1. PICK active \in BOOLEAN :
            /\ memory' = [memory EXCEPT !.fileSizes[f] = scan.size, !.fileActive[f] = active]
            /\ pc' = "files"
      BY <2>6 DEF FinishFile
    <3> HIDE DEF f
    <3>2. /\ memory'.captureAfter = memory.captureAfter
          /\ memory'.policySet = memory.policySet /\ memory'.captureEnabled = memory.captureEnabled
          /\ memory'.capturePrompts = memory.capturePrompts
          /\ memory'.signatures = memory.signatures
          /\ memory'.fileSizes = [memory.fileSizes EXCEPT ![f] = scan.size]
      BY <3>1, Numbers DEF Memories
    <3>3. memory.fileSizes \in [Files -> -1 .. MaxLines]
      BY Numbers DEF Memories
    <3>4. ASSUME NEW g \in Files
          PROVE  Settled(g)'
      <4>1. CASE g # f
        BY <1>1, <2>3, <3>2, <3>3, <4>1, SettledKept DEF Calm
      <4>2. CASE g = f
        <5>1. PICK n : n = scan.size
          OBVIOUS
        <5>2. memory'.fileSizes[g] = n /\ n \in 0 .. Len(file[g])
          BY <2>4, <3>2, <3>3, <4>2, <5>1
        <5>3. Parsed(g, n)' = Parsed(g, n) /\ CurrentTurn(g, n)' = CurrentTurn(g, n)
          BY <1>1, <3>2, <5>2, ParsedStays
        <5>4. Parsed(g, n).msgs # {} => CurrentTurn(g, n) \in Turns /\ Parsed(g, n) \in Records
          BY <5>2, Numbers, PartsParsed
        <5>5. Parsed(g, n).msgs # {} => store[CurrentTurn(g, n)] = Parsed(g, n)
          BY <2>6, <4>2, <5>1, <5>4, WatcherConstants DEF Calm, StoredAsSigned, Records
        <5> QED
          BY <2>3, <5>2, <5>3, <5>5 DEF Settled
      <4> QED
        BY <4>1, <4>2
    <3>5. SettledTurnStored'
      BY <3>4 DEF SettledTurnStored, Settled
    <3> QED
      BY <2>3, <3>1, <3>2, <3>5 DEF Calm, StoredAsSigned
  <2> QED
    BY <2>1, <2>2, <2>5, <2>6
<1>8. CASE SaveTurn
  <2> DEFINE f == Head(scan.todo)
             mem == [memory EXCEPT !.signatures[scan.turn] = scan.record]
  <2>1. /\ pc = "save" /\ pc' = "files" /\ UNCHANGED <<file, policy>>
        /\ store' = [store EXCEPT ![scan.turn] = scan.record]
        /\ \E active \in BOOLEAN :
             memory' = [mem EXCEPT !.fileSizes[f] = scan.size, !.fileActive[f] = active]
    BY <1>8 DEF SaveTurn, FinishFile
  <2>2. /\ f \in Files => /\ scan.size \in 0 .. Len(file[f])
                         /\ scan.turn = CurrentTurn(f, scan.size)
                         /\ scan.record = Parsed(f, scan.size)
        /\ \E k : scan.turn = <<f, k>>
    BY <2>1 DEF WatcherInv, Scanning, InFile, Calm
  <2> HIDE DEF f
  <2>3. /\ memory'.captureAfter = memory.captureAfter
        /\ memory'.policySet = memory.policySet /\ memory'.captureEnabled = memory.captureEnabled
        /\ memory'.capturePrompts = memory.capturePrompts
        /\ memory'.signatures = [memory.signatures EXCEPT ![scan.turn] = scan.record]
        /\ memory'.fileSizes = [memory.fileSizes EXCEPT ![f] = scan.size]
    BY <2>1, Numbers DEF Memories
  <2>4. /\ memory.fileSizes \in [Files -> -1 .. MaxLines]
        /\ DOMAIN memory.signatures = Turns /\ DOMAIN store = Turns
    BY Numbers DEF Memories, TypeOK
  <2>5. StoredAsSigned'
    BY <2>1, <2>3, <2>4 DEF StoredAsSigned, Calm
  <2>6. ASSUME NEW g \in Files
        PROVE  Settled(g)'
    <3>1. CASE g # f
      <4>1. \A k : <<g, k>> \in Turns => store'[<<g, k>>] = store[<<g, k>>]
        BY <2>1, <2>2, <2>4, <3>1
      <4> QED
        BY <1>1, <2>3, <2>4, <3>1, <4>1, SettledKept DEF Calm
    <3>2. CASE g = f
      <4>1. PICK n : n = scan.size
        OBVIOUS
      <4>2. memory'.fileSizes[g] = n /\ n \in 0 .. Len(file[g])
        BY <2>2, <2>3, <2>4, <3>2, <4>1
      <4>3. Parsed(g, n)' = Parsed(g, n) /\ CurrentTurn(g, n)' = CurrentTurn(g, n)
        BY <1>1, <2>3, <4>2, ParsedStays
      <4>4. Parsed(g, n).msgs # {} => CurrentTurn(g, n) \in Turns
        BY <4>2, Numbers, PartsParsed
      <4>5. Parsed(g, n).msgs # {} => store'[CurrentTurn(g, n)] = Parsed(g, n)
        BY <2>1, <2>2, <2>4, <3>2, <4>1, <4>4
      <4> QED
        BY <4>2, <4>3, <4>5 DEF Settled
    <3> QED
      BY <3>1, <3>2
  <2>7. SettledTurnStored'
    BY <2>6 DEF SettledTurnStored, Settled
  <2> QED
    BY <2>1, <2>3, <2>5, <2>7 DEF Calm
<1>9. (\E f \in Files : \E kind \in {"start", "msg", "done"} : CodexWrites(f, kind)) => Calm'
  BY <1>2 DEF CodexWrites, watcherVars, Calm
<1>10. RunBegins \/ StatFile \/ SaveFails \/ ScanEnds \/ DayPasses => Calm'
  BY <1>2 DEF RunBegins, StatFile, SaveFails, ScanEnds, DayPasses, watcherVars, Calm
<1>11. UNCHANGED vars => Calm'
  BY <1>2 DEF vars, watcherVars, Calm
<1> QED
  BY <1>2, <1>3, <1>4, <1>5, <1>6, <1>7, <1>8, <1>9, <1>10, <1>11
  DEF Next, Environment, WatcherStep

\* While capture stays on, the content a file is remembered by is stored in
\* full, whatever saves are refused and restarts come between.
THEOREM SettledMeansStored == Spec => []SettledTurnStored
<1>1. Init => CalmInv
  <2> SUFFICES ASSUME Init PROVE Calm
    BY DEF CalmInv
  <2>1. /\ memory.captureAfter = 0 /\ ~memory.policySet
        /\ \A f \in Files : memory.fileSizes[f] = -1
        /\ \A t \in Turns : memory.signatures[t] = None
    BY DEF Init, FreshMemory
  <2>2. SettledTurnStored
    BY <2>1 DEF SettledTurnStored
  <2> QED
    BY <2>1, <2>2 DEF Init, Calm, StoredAsSigned
<1>2. WatcherInv /\ CalmInv /\ [Next]_vars => CalmInv'
  <2>1. [Next]_vars => scenario' = scenario
    BY DEF Next, Environment, WatcherStep, vars
  <2>2. [Next]_vars => (Undisturbed' <=> Undisturbed)
    BY <2>1 DEF Undisturbed
  <2> QED
    BY <2>2, CalmStep DEF CalmInv
<1>3. CalmInv => SettledTurnStored
  BY DEF CalmInv, Calm, SettledTurnStored
<1> QED
  BY <1>1, <1>2, <1>3, WatcherTypeCorrect, PTL DEF Spec
-----------------------------------------------------------------------------
(* A pause stops what was being imported *)

\* Whatever is past the second look at the policy when the user pauses was
\* written before the pause.
PauseInv == policy.paused /\ pc \in {"import", "save"} =>
  \A f \in Files : f = Head(scan.todo) =>
    \A i \in 1 .. scan.size : file[f][i].at <= pausedSince

LEMMA PauseStep ==
  ASSUME WatcherInv, PauseInv, [Next]_vars
  PROVE  PauseInv'
<1>1. Extended
  BY FilesGrow DEF WatcherInv
<1>2. ASSUME NEW f \in Files, InFile, f = Head(scan.todo)
      PROVE  scan.size \in 0 .. Len(file[f]) /\ Len(file[f]) \in Nat
  BY <1>2, Numbers DEF WatcherInv, Scanning
<1>3. CASE UNCHANGED <<policy, pausedSince, pc, scan>>
  BY <1>1, <1>2, <1>3 DEF PauseInv, Extended, InFile
<1>4. CASE Pause
  BY <1>2, <1>4, Numbers DEF Pause, PauseInv, InFile, watcherVars
<1>5. CASE ~policy'.paused \/ pc' \notin {"import", "save"}
  BY <1>5 DEF PauseInv
<1>6. CASE Resume \/ FlipPrompts \/ DayPasses
  BY <1>3, <1>5, <1>6 DEF Resume, FlipPrompts, DayPasses, WatcherInv, TypeOK, watcherVars, PauseInv
<1>7. CASE Recheck
  <2>1. policy.paused => pc' = "idle"
    BY <1>7 DEF Recheck, CapturePolicy, Nothing
  <2> QED
    BY <1>5, <1>7, <2>1 DEF Recheck
<1>8. CASE ImportFile
  <2>1. CASE pc' = "save"
    <3>1. /\ scan'.todo = scan.todo /\ scan'.size = scan.size
          /\ UNCHANGED <<file, policy, pausedSince>> /\ pc = "import"
      BY <1>8, <2>1 DEF ImportFile, FinishFile, WatcherInv, Scanning, NoScan
    <3> QED
      BY <2>1, <3>1 DEF PauseInv
  <2>2. pc' \in {"save", "files"}
    BY <1>8 DEF ImportFile, FinishFile
  <2> QED
    BY <1>5, <2>1, <2>2
<1>9. RunBegins \/ ScanBegins \/ SkipPaused \/ StatFile \/ SaveTurn \/ SaveFails \/ ScanEnds \/ Restart =>
        PauseInv'
  BY <1>5 DEF RunBegins, ScanBegins, SkipPaused, StatFile, SaveTurn, FinishFile, SaveFails,
              ScanEnds, Restart
<1>10. (\E f \in Files : \E kind \in {"start", "msg", "done"} : CodexWrites(f, kind)) => PauseInv'
  BY <1>3 DEF CodexWrites, watcherVars
<1>11. UNCHANGED vars => PauseInv'
  BY <1>3 DEF vars, watcherVars
<1> QED
  BY <1>4, <1>6, <1>7, <1>8, <1>9, <1>10, <1>11 DEF Next, Environment, WatcherStep

\* What is saved during a pause was written before the pause began
\* (sessionlog.go:167-168).
THEOREM SavesStop == Spec => SavesStopAtPause
<1>1. Init => PauseInv
  BY DEF Init, PauseInv
<1>2. WatcherInv /\ PauseInv /\ [Next]_vars => PauseInv'
  BY PauseStep
<1>3. ASSUME WatcherInv, PauseInv, [Next]_vars, NEW t \in Turns, store'[t] # store[t],
             policy.paused
      PROVE  /\ store'[t].msgs \subseteq WrittenBeforePause(t, "msg")
             /\ store'[t].done => WrittenBeforePause(t, "done") # {}
  <2>1. SaveTurn
    BY <1>3 DEF Next, Environment, WatcherStep, CodexWrites, Pause, Resume, FlipPrompts, DayPasses, Restart,
                RunBegins, ScanBegins, SkipPaused, StatFile, Recheck, ImportFile, SaveFails,
                ScanEnds, vars
  <2>2. /\ pc = "save" /\ store' = [store EXCEPT ![scan.turn] = scan.record]
        /\ DOMAIN store = Turns
    BY <1>3, <2>1 DEF SaveTurn, WatcherInv, TypeOK
  <2>3. t = scan.turn /\ store'[t] = scan.record
    BY <1>3, <2>2
  <2>4. PICK f \in Files : f = Head(scan.todo) /\ t[1] = f
    BY <1>3, <2>2, <2>3 DEF WatcherInv, Scanning, Turns
  <2>5. /\ scan.size \in 0 .. Len(file[f]) /\ Len(file[f]) \in Nat /\ Len(file[f]) <= MaxLines
        /\ t = CurrentTurn(f, scan.size)
        /\ scan.record.msgs \subseteq Parsed(f, scan.size).msgs
        /\ scan.record.done = Parsed(f, scan.size).done
        /\ \A i \in 1 .. scan.size : file[f][i].at <= pausedSince
    BY <1>3, <2>2, <2>3, <2>4, Numbers DEF WatcherInv, Scanning, InFile, PauseInv
  <2>6. /\ \A i \in Parsed(f, scan.size).msgs : /\ i \in 1 .. scan.size
                                                /\ file[f][i].kind = "msg"
                                                /\ CurrentTurn(f, i) = t
        /\ Parsed(f, scan.size).done => \E i \in 1 .. scan.size : /\ file[f][i].kind = "done"
                                                                  /\ CurrentTurn(f, i) = t
    BY <1>3, <2>5, Numbers, PartsParsed
  <2> QED
    BY <2>3, <2>4, <2>5, <2>6 DEF WrittenBeforePause
<1>4. WatcherInv /\ PauseInv /\ [Next]_vars =>
        [\A t \in Turns : store'[t] # store[t] /\ policy.paused =>
           /\ store'[t].msgs \subseteq WrittenBeforePause(t, "msg")
           /\ store'[t].done => WrittenBeforePause(t, "done") # {}]_vars
  BY <1>3
<1> QED
  BY <1>1, <1>2, <1>4, WatcherTypeCorrect, PTL DEF Spec, SavesStopAtPause
=============================================================================
