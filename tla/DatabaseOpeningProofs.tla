----------------------- MODULE DatabaseOpeningProofs -----------------------
(* Theorems of DatabaseOpening, for every set of processes and releases.     *)
EXTENDS DatabaseOpening, TLAPS

\* The version of a content whose records are 1 .. n is n.
LEMMA VersionIs ==
  ASSUME NEW content, NEW n \in Nat, content.recorded = 1 .. n
  PROVE  Version(content) = n
<1>1. CASE n = 0
  BY <1>1 DEF Version
<1>2. CASE n # 0
  <2>1. n \in content.recorded /\ \A w \in content.recorded : w <= n
    BY <1>2
  <2>2. \A v \in content.recorded : (\A w \in content.recorded : w <= v) => v = n
    BY <2>1
  <2>3. content.recorded # {}
    BY <2>1
  <2>4. (CHOOSE v \in content.recorded : \A w \in content.recorded : w <= v) = n
    BY <2>1, <2>2
  <2> QED
    BY <2>3, <2>4 DEF Version
<1> QED
  BY <1>1, <1>2

\* A content with the tables and records 1 .. n is in order.
LEMMA OrderIs ==
  ASSUME NEW content, NEW n \in Nat, content.recorded = 1 .. n, content.tables = 1 .. n
  PROVE  InOrder(content) /\ Version(content) = n
BY VersionIs DEF InOrder

\* What no step of one process takes from another.
Grows ==
  /\ AtMost(committed, committed')
  /\ main # NoFile => main' # NoFile /\ AtMost(main, main')
  /\ fails' = 0 => fails = 0
  /\ \A s \in Seconds : backups[s] # NoFile => backups'[s] # NoFile

\* A process that does not move keeps its invariant while the rest grows and
\* its backup is left alone.
LEMMA StandsStill ==
  ASSUME OpeningInv, TypeOK', Grows, NEW q \in Procs, proc[q] # Off,
         proc'[q] = proc[q],
         proc[q].backup >= 0 => backups'[proc[q].backup] = backups[proc[q].backup]
  PROVE  ProcInv(q)'
<1> DEFINE r == proc[q]
<1>1. ProcInv(q) /\ r \in Running
  BY DEF OpeningInv, TypeOK
<1>2. AtMost(committed, committed') /\ committed \in Contents /\ committed' \in Contents
  BY DEF Grows, OpeningInv, TypeOK
<1>3. r.pc \notin {"connect", "version"} => AtMost(r.before, committed')
  BY <1>1, <1>2 DEF ProcInv, AtMost, Running, Contents
<1>4. fails' = 0 /\ r.pc = "backup" => AtMost(r.before, main')
  <2> HAVE fails' = 0 /\ r.pc = "backup"
  <2>1. main # NoFile /\ AtMost(r.before, main) /\ AtMost(main, main')
    BY <1>1 DEF Grows, ProcInv
  <2>2. main \in Contents /\ main' \in Contents
    BY <2>1 DEF Grows, OpeningInv, TypeOK
  <2> QED
    BY <1>1, <2>1, <2>2 DEF AtMost, Running, Contents
<1>5. r.backup >= 0 => backups'[r.backup] = backups[r.backup] /\ r.backup \in Seconds
  BY <1>1 DEF Running
<1>6. /\ r.had \/ r.pc # "connect" => main' # NoFile
      /\ r.pc \in {"connect", "version"} => r.found = 0
      /\ r.pc \in Migrating => /\ r.next \in r.found + 1 .. r.program.latest
                               /\ 1 .. r.next - 1 \subseteq committed'.tables
      /\ r.pc = "serving" => 1 .. r.program.latest \subseteq committed'.tables
      /\ r.pc \in {"connect", "version", "checkpoint", "backup"} => r.backup = -1
  BY <1>1, <1>2 DEF ProcInv, Grows, AtMost
<1>7. /\ r.pc = "copy" => r.backup >= 0 /\ backups'[r.backup] = Torn
      /\ fails' = 0 /\ r.pc = "copy" => /\ r.copied # NoFile
                                        /\ InOrder(r.copied)
                                        /\ AtMost(r.before, r.copied)
      /\ r.backup >= 0 => backups'[r.backup] # NoFile
  BY <1>1, <1>5 DEF ProcInv, Grows
<1>8. fails' = 0 /\ r.backup >= 0 => Holds(q)'
  BY <1>1, <1>5 DEF ProcInv, Grows, Holds
<1> QED
  BY <1>3, <1>4, <1>6, <1>7, <1>8 DEF ProcInv

\* A step of p keeps the invariant when it keeps p's part of it, lets the rest
\* grow, and touches only a backup that is new or that p is writing.
LEMMA OneMoves ==
  ASSUME OpeningInv, TypeOK', SchemaInOrder', DiskInv', Grows, NEW p \in Procs,
         \A q \in Procs \ {p} : proc'[q] = proc[q],
         proc'[p] # Off => ProcInv(p)',
         \A s \in Seconds :
           \/ backups'[s] = backups[s]
           \/ backups[s] = NoFile
           \/ At(p, "copy") /\ s = proc[p].backup,
         proc'[p] # Off /\ proc'[p].backup >= 0 =>
           \/ proc[p] # Off /\ proc[p].backup = proc'[p].backup
           \/ backups[proc'[p].backup] = NoFile
  PROVE  OpeningInv'
<1>1. ASSUME NEW q \in Procs \ {p}, proc[q] # Off, proc[q].backup >= 0
      PROVE  /\ backups[proc[q].backup] # NoFile
             /\ backups'[proc[q].backup] = backups[proc[q].backup]
  <2>1. proc[q] \in Running /\ ProcInv(q)
    BY <1>1 DEF OpeningInv, TypeOK
  <2>2. proc[q].backup \in Seconds /\ backups[proc[q].backup] # NoFile
    BY <1>1, <2>1 DEF Running, ProcInv
  <2>3. At(p, "copy") => proc[p].backup # proc[q].backup
    BY <1>1 DEF OpeningInv, NamesOwned, At, ProcInv
  <2> QED
    BY <2>2, <2>3
<1>2. ASSUME NEW q \in Procs, proc'[q] # Off PROVE ProcInv(q)'
  <2>1. CASE q = p
    BY <1>2, <2>1
  <2>2. CASE q # p
    BY <1>1, <1>2, <2>2, StandsStill
  <2> QED
    BY <2>1, <2>2
<1>3. NamesOwned'
  <2> SUFFICES ASSUME NEW q \in Procs, NEW r \in Procs, q # r,
                      proc'[q] # Off, proc'[r] # Off,
                      proc'[q].backup >= 0, proc'[r].backup >= 0
               PROVE  proc'[q].backup # proc'[r].backup
    BY DEF NamesOwned
  <2>1. CASE q # p /\ r # p
    BY <2>1 DEF OpeningInv, NamesOwned
  <2>2. CASE q = p
    BY <1>1, <2>2 DEF OpeningInv, NamesOwned
  <2>3. CASE r = p
    BY <1>1, <2>3 DEF OpeningInv, NamesOwned
  <2> QED
    BY <2>1, <2>2, <2>3
<1> QED
  BY <1>2, <1>3 DEF OpeningInv

\* A step that leaves the file, the log and the backups alone.
LEMMA Quiet ==
  ASSUME OpeningInv, UNCHANGED <<main, committed, backups>>, fails' = 0 => fails = 0
  PROVE  SchemaInOrder' /\ DiskInv' /\ Grows
<1>1. committed \in Contents /\ (main # NoFile => main \in Contents)
  BY DEF OpeningInv, TypeOK
<1>2. AtMost(committed, committed') /\ (main # NoFile => AtMost(main, main'))
  BY <1>1 DEF AtMost, Contents
<1>3. SchemaInOrder' /\ DiskInv'
  <2>1. SchemaInOrder /\ DiskInv
    BY DEF OpeningInv
  <2> QED
    BY <2>1 DEF SchemaInOrder, DiskInv
<1> QED
  BY <1>2, <1>3 DEF Grows

LEMMA OpenKeeps == ASSUME OpeningInv, NEW p \in Procs, Open(p) PROVE OpeningInv'
<1> USE OpeningConstants
<1>1. PICK program \in Programs :
        proc' = [proc EXCEPT ![p] =
                   [pc |-> "connect", program |-> program, had |-> main # NoFile,
                    found |-> 0, before |-> Empty, next |-> 0,
                    copied |-> NoFile, backup |-> -1]]
  BY DEF Open
<1>2. Empty \in Contents
  BY DEF Empty, Contents
<1>3. TypeOK'
  BY <1>1, <1>2 DEF Open, OpeningInv, TypeOK, Running, bounds
<1>4. SchemaInOrder' /\ DiskInv' /\ Grows
  BY Quiet DEF Open, bounds
<1>5. /\ proc'[p].pc = "connect" /\ proc'[p].found = 0 /\ proc'[p].backup = -1
      /\ proc'[p].had => main' # NoFile
  BY <1>1 DEF Open, OpeningInv, TypeOK
<1>6. ProcInv(p)'
  BY <1>5 DEF ProcInv, Migrating
<1> QED
  BY <1>1, <1>3, <1>4, <1>5, <1>6, OneMoves DEF Open, OpeningInv, TypeOK

LEMMA ConnectKeeps == ASSUME OpeningInv, NEW p \in Procs, Connect(p) PROVE OpeningInv'
<1>1. proc[p] \in Running /\ ProcInv(p)
  BY DEF Connect, At, OpeningInv, TypeOK
<1>2. Empty \in Contents /\ Empty.tables = {} /\ Empty.recorded = {} /\ Empty.rows = 0
  BY DEF Empty, Contents
<1>3. TypeOK'
  BY <1>1, <1>2 DEF Connect, At, Goto, OpeningInv, TypeOK, Running, bounds
<1>4. committed \in Contents
  BY DEF OpeningInv, TypeOK
<1>5. InOrder(Empty)
  <2>1. Empty.recorded = 1 .. 0 /\ Empty.tables = 1 .. 0
    BY <1>2
  <2> QED
    BY <2>1, OrderIs
<1>6. SchemaInOrder' /\ DiskInv' /\ Grows
  <2>1. AtMost(Empty, committed) /\ AtMost(committed, committed)
    BY <1>2, <1>4 DEF AtMost, Contents
  <2>2. SchemaInOrder'
    BY DEF Connect, OpeningInv, SchemaInOrder
  <2>3. DiskInv'
    <3>1. CASE main = NoFile
      BY <3>1, <1>5, <2>1 DEF Connect, DiskInv
    <3>2. CASE main # NoFile
      BY <3>2 DEF Connect, DiskInv, OpeningInv
    <3> QED
      BY <3>1, <3>2
  <2>4. Grows
    <3>1. main # NoFile => AtMost(main, main)
      BY DEF OpeningInv, TypeOK, AtMost, Contents
    <3> QED
      BY <2>1, <3>1 DEF Connect, Grows, bounds
  <2> QED
    BY <2>2, <2>3, <2>4
<1>7. proc'[p] = [proc[p] EXCEPT !.pc = "version"] /\ main' # NoFile
  BY <1>2, OpeningConstants DEF Connect, Goto, OpeningInv, TypeOK
<1>8. ProcInv(p)'
  BY <1>1, <1>7 DEF Connect, At, ProcInv, Migrating, Running
<1>9. proc'[p].backup = proc[p].backup
  BY <1>1, <1>7 DEF Running
<1> QED
  BY <1>3, <1>6, <1>8, <1>9, OneMoves DEF Connect, Goto, At, OpeningInv, TypeOK

LEMMA ReadVersionKeeps == ASSUME OpeningInv, NEW p \in Procs, ReadVersion(p) PROVE OpeningInv'
<1> DEFINE found == Version(committed)
           latest == proc[p].program.latest
           pc == IF found >= latest THEN "serving"
                 ELSE IF proc[p].had THEN "checkpoint" ELSE "apply"
<1>1. proc[p] \in Running /\ ProcInv(p) /\ proc[p].pc = "version"
  BY DEF ReadVersion, At, OpeningInv, TypeOK
<1>2. committed \in Contents /\ found \in Nat /\ committed.tables = 1 .. found
  BY DEF OpeningInv, TypeOK, SchemaInOrder, InOrder
<1>3. latest \in Nat \ {0}
  BY <1>1, OpeningConstants DEF Running
<1>4. proc' = [proc EXCEPT ![p] = [proc[p] EXCEPT !.found = found, !.before = committed,
                                                  !.next = found + 1, !.pc = pc]]
  BY DEF ReadVersion
<1> HIDE DEF found, latest
<1>5. TypeOK'
  <2>1. pc \in {"serving", "checkpoint", "apply"}
    OBVIOUS
  <2> HIDE DEF pc
  <2>2. [proc[p] EXCEPT !.found = found, !.before = committed,
                        !.next = found + 1, !.pc = pc] \in Running
    <3>1. found + 1 \in Nat
      BY <1>2
    <3> HIDE DEF found
    <3> QED
      BY <1>1, <1>2, <2>1, <3>1 DEF Running
  <2>3. proc' \in [Procs -> Running \cup {Off}]
    <3> DEFINE r == [proc[p] EXCEPT !.found = found, !.before = committed,
                                    !.next = found + 1, !.pc = pc]
    <3>1. r \in Running /\ proc' = [proc EXCEPT ![p] = r]
      BY <1>4, <2>2
    <3> HIDE DEF r
    <3> QED
      BY <3>1 DEF OpeningInv, TypeOK
  <2> QED
    BY <2>3 DEF ReadVersion, OpeningInv, TypeOK, bounds
<1>6. SchemaInOrder' /\ DiskInv' /\ Grows
  BY Quiet DEF ReadVersion, bounds
<1>7. /\ proc'[p].pc = pc /\ proc'[p].found = found /\ proc'[p].before = committed
      /\ proc'[p].next = found + 1 /\ proc'[p].had = proc[p].had
      /\ proc'[p].program = proc[p].program /\ proc'[p].backup = -1
      /\ proc'[p].copied = proc[p].copied
  BY <1>1, <1>4 DEF OpeningInv, TypeOK, Running, ProcInv
<1>8. ProcInv(p)'
  <2>1. AtMost(committed, committed')
    BY <1>6 DEF Grows
  <2>2. main' = main /\ main # NoFile /\ committed' = committed
    BY <1>1 DEF ReadVersion, ProcInv
  <2>3. proc[p].program.latest = latest
    BY DEF latest
  <2>4. /\ pc \in Migrating => found + 1 \in found + 1 .. latest /\ 1 .. found \subseteq committed.tables
        /\ pc = "serving" => 1 .. latest \subseteq committed.tables
        /\ pc \in {"serving", "checkpoint", "apply"}
    BY <1>2, <1>3 DEF Migrating
  <2>5. (found + 1) - 1 = found
    BY <1>2
  <2> HIDE DEF pc
  <2> QED
    BY <1>7, <2>1, <2>2, <2>3, <2>4, <2>5 DEF ProcInv, Migrating
<1> QED
  BY <1>4, <1>5, <1>6, <1>7, <1>8, OneMoves DEF ReadVersion, OpeningInv, TypeOK

Pcs == {"connect", "version", "checkpoint", "backup", "copy", "apply",
        "recover", "readonly", "serving"}

\* Goto changes one field of one process.
LEMMA GotoMoves ==
  ASSUME OpeningInv, NEW p \in Procs, proc[p] # Off, NEW x \in Pcs, Goto(p, x)
  PROVE  /\ proc' \in [Procs -> Running \cup {Off}]
         /\ proc[p] \in Running /\ ProcInv(p)
         /\ proc'[p].pc = x
         /\ proc'[p].program = proc[p].program /\ proc'[p].had = proc[p].had
         /\ proc'[p].found = proc[p].found /\ proc'[p].before = proc[p].before
         /\ proc'[p].next = proc[p].next /\ proc'[p].copied = proc[p].copied
         /\ proc'[p].backup = proc[p].backup
         /\ \A q \in Procs \ {p} : proc'[q] = proc[q]
<1>1. proc \in [Procs -> Running \cup {Off}] /\ proc[p] \in Running /\ ProcInv(p)
  BY DEF OpeningInv, TypeOK
<1> DEFINE r == [proc[p] EXCEPT !.pc = x]
<1>2. r \in Running
  BY <1>1 DEF Running, Pcs
<1>3. proc' = [proc EXCEPT ![p] = r]
  BY DEF Goto
<1>4. /\ r.pc = x /\ r.program = proc[p].program /\ r.had = proc[p].had
      /\ r.found = proc[p].found /\ r.before = proc[p].before
      /\ r.next = proc[p].next /\ r.copied = proc[p].copied
      /\ r.backup = proc[p].backup
  BY <1>1 DEF Running
<1> HIDE DEF r
<1> QED
  BY <1>1, <1>2, <1>3, <1>4

\* A process that gives up and goes on read-only, whatever the reason.
LEMMA GivesUp ==
  ASSUME OpeningInv, NEW p \in Procs, proc[p] # Off,
         proc[p].pc \notin {"connect", "version"},
         NEW x \in {"recover", "readonly"}, Goto(p, x),
         UNCHANGED <<main, committed, backups, now, crashes>>,
         fails' \in 0 .. MaxFails, fails' = 0 => fails = 0
  PROVE  OpeningInv'
<1>1. x \in Pcs
  BY DEF Pcs
<1>2. /\ proc' \in [Procs -> Running \cup {Off}]
      /\ proc[p] \in Running /\ ProcInv(p)
      /\ proc'[p].pc = x /\ proc'[p].had = proc[p].had
      /\ proc'[p].before = proc[p].before /\ proc'[p].backup = proc[p].backup
      /\ \A q \in Procs \ {p} : proc'[q] = proc[q]
  BY <1>1, GotoMoves
<1>3. TypeOK'
  BY <1>2 DEF OpeningInv, TypeOK
<1>4. SchemaInOrder' /\ DiskInv' /\ Grows
  BY Quiet
<1>5. fails' = 0 /\ proc'[p].backup >= 0 => Holds(p)'
  BY <1>2 DEF ProcInv, Holds
<1>6. ProcInv(p)'
  BY <1>2, <1>5 DEF ProcInv, Migrating
<1> QED
  BY <1>2, <1>3, <1>4, <1>6, OneMoves

\* A process that ends, in order or not.
LEMMA Ends ==
  ASSUME OpeningInv, NEW p \in Procs, proc' = [proc EXCEPT ![p] = Off],
         UNCHANGED <<main, committed, backups, now>>,
         fails' \in 0 .. MaxFails, crashes' \in 0 .. MaxCrashes, fails' = 0 => fails = 0
  PROVE  OpeningInv'
<1>1. TypeOK' /\ proc'[p] = Off /\ \A q \in Procs \ {p} : proc'[q] = proc[q]
  BY DEF OpeningInv, TypeOK
<1>2. SchemaInOrder' /\ DiskInv' /\ Grows
  BY Quiet
<1> QED
  BY <1>1, <1>2, OneMoves

LEMMA ApplyFailsKeeps == ASSUME OpeningInv, NEW p \in Procs, ApplyFails(p) PROVE OpeningInv'
<1>1. fails' = fails /\ fails \in 0 .. MaxFails
  BY DEF ApplyFails, bounds, OpeningInv, TypeOK
<1> QED
  BY <1>1, GivesUp DEF ApplyFails, At, bounds

LEMMA RecoverKeeps == ASSUME OpeningInv, NEW p \in Procs, Recover(p) PROVE OpeningInv'
<1>1. fails' = fails /\ fails \in 0 .. MaxFails
  BY DEF Recover, bounds, OpeningInv, TypeOK
<1> QED
  BY <1>1, GivesUp DEF Recover, At, bounds

LEMMA StepFailsKeeps == ASSUME OpeningInv, NEW p \in Procs, StepFails(p) PROVE OpeningInv'
<1>1. fails' \in 0 .. MaxFails /\ fails' # 0 /\ crashes \in 0 .. MaxCrashes
  BY OpeningConstants DEF StepFails, OpeningInv, TypeOK
<1>2. CASE proc[p].pc \in {"connect", "recover"}
  BY <1>1, <1>2, Ends DEF StepFails
<1>3. CASE proc[p].pc \in {"checkpoint", "backup", "copy", "apply"}
  <2>1. proc[p] # Off /\ proc[p] \in Running
    BY <1>3 DEF StepFails, At, OpeningInv, TypeOK
  <2>2. Goto(p, "recover")
    BY <1>3 DEF StepFails, Goto
  <2> QED
    BY <1>1, <1>3, <2>1, <2>2, GivesUp DEF StepFails
<1> QED
  BY <1>2, <1>3 DEF StepFails, At

LEMMA CloseKeeps == ASSUME OpeningInv, NEW p \in Procs, Close(p) PROVE OpeningInv'
BY Ends DEF Close, bounds, OpeningInv, TypeOK

LEMMA CrashKeeps == ASSUME OpeningInv, NEW p \in Procs, Crash(p) PROVE OpeningInv'
<1>1. crashes' \in 0 .. MaxCrashes
  BY OpeningConstants DEF Crash, OpeningInv, TypeOK
<1> QED
  BY <1>1, Ends DEF Crash, OpeningInv, TypeOK

\* A checkpoint makes the main file what is committed.
LEMMA Flushes ==
  ASSUME OpeningInv, main' = committed, UNCHANGED <<committed, backups>>,
         fails' = 0 => fails = 0
  PROVE  /\ SchemaInOrder' /\ DiskInv' /\ Grows
         /\ main' # NoFile /\ committed \in Contents
<1>1. committed \in Contents /\ committed # NoFile
  BY OpeningConstants DEF OpeningInv, TypeOK
<1>2. AtMost(committed, committed)
  BY <1>1 DEF AtMost, Contents
<1>3. InOrder(committed) /\ (main # NoFile => AtMost(main, committed))
  BY DEF OpeningInv, SchemaInOrder, DiskInv
<1> QED
  BY <1>1, <1>2, <1>3 DEF SchemaInOrder, DiskInv, Grows

LEMMA CheckpointKeeps == ASSUME OpeningInv, NEW p \in Procs, Checkpoint(p) PROVE OpeningInv'
<1>1. proc[p] # Off /\ proc[p].pc = "checkpoint" /\ Goto(p, "backup") /\ "backup" \in Pcs
  BY DEF Checkpoint, At, Pcs
<1>2. /\ proc' \in [Procs -> Running \cup {Off}]
      /\ proc[p] \in Running /\ ProcInv(p)
      /\ proc'[p].pc = "backup" /\ proc'[p].program = proc[p].program
      /\ proc'[p].found = proc[p].found /\ proc'[p].before = proc[p].before
      /\ proc'[p].next = proc[p].next /\ proc'[p].backup = proc[p].backup
      /\ \A q \in Procs \ {p} : proc'[q] = proc[q]
  BY <1>1, GotoMoves
<1>3. SchemaInOrder' /\ DiskInv' /\ Grows /\ main' # NoFile /\ committed \in Contents
  BY Flushes DEF Checkpoint, bounds
<1>4. TypeOK'
  BY <1>2, <1>3 DEF Checkpoint, OpeningInv, TypeOK, bounds
<1>5. AtMost(proc'[p].before, main') /\ AtMost(proc'[p].before, committed')
  BY <1>1, <1>2 DEF Checkpoint, ProcInv
<1>6. proc'[p].backup = -1 /\ committed' = committed
  BY <1>1, <1>2 DEF Checkpoint, ProcInv
<1>7. ProcInv(p)'
  BY <1>1, <1>2, <1>3, <1>5, <1>6 DEF ProcInv, Migrating
<1> QED
  BY <1>2, <1>3, <1>4, <1>6, <1>7, OneMoves DEF Checkpoint

LEMMA CheckpointBusyKeeps ==
  ASSUME OpeningInv, NEW p \in Procs, CheckpointBusy(p) PROVE OpeningInv'
<1>1. proc[p] # Off /\ proc[p].pc = "checkpoint" /\ Goto(p, "backup") /\ "backup" \in Pcs
  BY DEF CheckpointBusy, At, Pcs
<1>2. /\ proc' \in [Procs -> Running \cup {Off}]
      /\ proc[p] \in Running /\ ProcInv(p)
      /\ proc'[p].pc = "backup" /\ proc'[p].program = proc[p].program
      /\ proc'[p].found = proc[p].found /\ proc'[p].before = proc[p].before
      /\ proc'[p].next = proc[p].next /\ proc'[p].backup = proc[p].backup
      /\ \A q \in Procs \ {p} : proc'[q] = proc[q]
  BY <1>1, GotoMoves
<1>3. fails' \in 0 .. MaxFails /\ fails' # 0
  BY OpeningConstants DEF CheckpointBusy, OpeningInv, TypeOK
<1>4. SchemaInOrder' /\ DiskInv' /\ Grows
  BY <1>3, Quiet DEF CheckpointBusy
<1>5. TypeOK'
  BY <1>2, <1>3 DEF CheckpointBusy, OpeningInv, TypeOK
<1>6. proc'[p].backup = -1 /\ committed' = committed /\ main' = main
  BY <1>1, <1>2 DEF CheckpointBusy, ProcInv
<1>7. ProcInv(p)'
  BY <1>1, <1>2, <1>3, <1>6 DEF ProcInv, Migrating
<1> QED
  BY <1>2, <1>4, <1>5, <1>6, <1>7, OneMoves DEF CheckpointBusy

LEMMA ReadVersionFailsKeeps ==
  ASSUME OpeningInv, NEW p \in Procs, ReadVersionFails(p) PROVE OpeningInv'
<1> DEFINE pc == IF proc[p].had THEN "checkpoint" ELSE "apply"
           r == [proc[p] EXCEPT !.before = committed, !.next = 1, !.pc = pc]
<1>1. proc[p] \in Running /\ ProcInv(p) /\ proc[p].pc = "version" /\ committed \in Contents
  BY DEF ReadVersionFails, At, OpeningInv, TypeOK
<1>2. pc \in {"checkpoint", "apply"}
  OBVIOUS
<1>3. proc' = [proc EXCEPT ![p] = r]
  BY DEF ReadVersionFails
<1> HIDE DEF pc
<1>4. r \in Running
  BY <1>1, <1>2 DEF Running
<1>5. /\ r.pc = pc /\ r.program = proc[p].program /\ r.had = proc[p].had
      /\ r.found = 0 /\ r.before = committed /\ r.next = 1 /\ r.backup = -1
  BY <1>1 DEF Running, ProcInv
<1> HIDE DEF r
<1>6. /\ proc' \in [Procs -> Running \cup {Off}] /\ proc'[p] = r
      /\ \A q \in Procs \ {p} : proc'[q] = proc[q]
  BY <1>3, <1>4 DEF OpeningInv, TypeOK
<1>7. fails' \in 0 .. MaxFails /\ fails' # 0
  BY OpeningConstants DEF ReadVersionFails, OpeningInv, TypeOK
<1>8. SchemaInOrder' /\ DiskInv' /\ Grows
  BY <1>7, Quiet DEF ReadVersionFails
<1>9. TypeOK'
  BY <1>6, <1>7 DEF ReadVersionFails, OpeningInv, TypeOK
<1>10. ProcInv(p)'
  <2>1. main # NoFile
    BY <1>1 DEF ProcInv
  <2>2. r.program.latest \in Nat \ {0}
    BY <1>4, OpeningConstants DEF Running
  <2>3. AtMost(committed, committed)
    BY <1>1 DEF AtMost, Contents
  <2>4. 1 \in 0 + 1 .. r.program.latest /\ 1 .. 1 - 1 = {}
    BY <2>2
  <2> QED
    <3>1. /\ proc'[p].pc \in {"checkpoint", "apply"} /\ proc'[p].found = 0
          /\ proc'[p].next = 1 /\ proc'[p].backup = -1
          /\ proc'[p].before = committed /\ committed' = committed /\ main' = main
          /\ proc'[p].program = r.program
      BY <1>2, <1>5, <1>6 DEF ReadVersionFails
    <3> QED
      BY <1>7, <2>1, <2>3, <2>4, <3>1 DEF ProcInv, Migrating
<1>11. backups' = backups
  BY DEF ReadVersionFails
<1> QED
  BY <1>5, <1>6, <1>8, <1>9, <1>10, <1>11, OneMoves

\* The name taken is new, so no other process can be writing to it.
LEMMA CreateBackupKeeps ==
  ASSUME OpeningInv, NEW p \in Procs, CreateBackup(p) PROVE OpeningInv'
<1>1. /\ proc[p] # Off /\ proc[p].pc = "backup" /\ proc[p] \in Running /\ ProcInv(p)
      /\ main \in Contents \cup {NoFile} /\ now \in Seconds /\ now >= 0
      /\ committed \in Contents
  BY OpeningConstants DEF CreateBackup, At, OpeningInv, TypeOK, Seconds
<1>2. CASE backups[now] # NoFile
  <2>1. fails \in 0 .. MaxFails
    BY DEF OpeningInv, TypeOK
  <2> QED
    BY <1>1, <1>2, <2>1, GivesUp DEF CreateBackup, bounds
<1>3. CASE backups[now] = NoFile
  <2> DEFINE r == [proc[p] EXCEPT !.backup = now, !.copied = main, !.pc = "copy"]
  <2>1. proc' = [proc EXCEPT ![p] = r] /\ backups' = [backups EXCEPT ![now] = Torn]
    BY <1>3 DEF CreateBackup
  <2>2. r \in Running
    BY <1>1 DEF Running
  <2>3. /\ r.pc = "copy" /\ r.program = proc[p].program /\ r.found = proc[p].found
        /\ r.before = proc[p].before /\ r.next = proc[p].next
        /\ r.copied = main /\ r.backup = now
    BY <1>1 DEF Running
  <2> HIDE DEF r
  <2>4. /\ proc' \in [Procs -> Running \cup {Off}] /\ proc'[p] = r
        /\ \A q \in Procs \ {p} : proc'[q] = proc[q]
        /\ backups' \in [Seconds -> Contents \cup {NoFile, Torn}]
        /\ backups'[now] = Torn /\ \A s \in Seconds \ {now} : backups'[s] = backups[s]
    BY <1>1, <2>1, <2>2 DEF OpeningInv, TypeOK
  <2>5. UNCHANGED <<main, committed, now, fails, crashes>>
    BY DEF CreateBackup, bounds
  <2>6. TypeOK'
    BY <2>4, <2>5 DEF OpeningInv, TypeOK
  <2>7. SchemaInOrder' /\ DiskInv'
    BY <2>5 DEF OpeningInv, SchemaInOrder, DiskInv
  <2>8. Grows
    <3>1. AtMost(committed, committed) /\ (main # NoFile => AtMost(main, main))
      BY <1>1 DEF AtMost, Contents
    <3>2. Torn # NoFile
      BY OpeningConstants
    <3> QED
      BY <2>4, <2>5, <3>1, <3>2 DEF Grows
  <2>9. ProcInv(p)'
    <3>1. /\ main # NoFile /\ InOrder(main)
          /\ fails = 0 => AtMost(proc[p].before, main)
          /\ AtMost(proc[p].before, committed)
          /\ proc[p].next \in proc[p].found + 1 .. proc[p].program.latest
          /\ 1 .. proc[p].next - 1 \subseteq committed.tables
      BY <1>1 DEF ProcInv, Migrating, OpeningInv, DiskInv
    <3>2. /\ proc'[p].pc = "copy" /\ proc'[p].program = proc[p].program
          /\ proc'[p].found = proc[p].found /\ proc'[p].before = proc[p].before
          /\ proc'[p].next = proc[p].next /\ proc'[p].copied = main
          /\ proc'[p].backup = now /\ proc'[p].backup >= 0
          /\ backups'[proc'[p].backup] = Torn /\ Torn # NoFile
      BY <1>1, <2>3, <2>4, OpeningConstants
    <3>3. Holds(p)'
      BY <3>2 DEF Holds
    <3> QED
      BY <2>5, <3>1, <3>2, <3>3 DEF ProcInv
  <2> QED
    BY <1>3, <2>3, <2>4, <2>6, <2>7, <2>8, <2>9, OneMoves
<1> QED
  BY <1>2, <1>3

\* The copy is whole only when the file still is what it was, and that was at
\* least what p had found.
LEMMA CopyEndsKeeps == ASSUME OpeningInv, NEW p \in Procs, CopyEnds(p) PROVE OpeningInv'
<1>1. proc[p] # Off /\ proc[p].pc = "copy" /\ Goto(p, "apply") /\ "apply" \in Pcs
  BY DEF CopyEnds, At, Pcs
<1>2. /\ proc' \in [Procs -> Running \cup {Off}]
      /\ proc[p] \in Running /\ ProcInv(p)
      /\ proc'[p].pc = "apply" /\ proc'[p].program = proc[p].program
      /\ proc'[p].found = proc[p].found /\ proc'[p].before = proc[p].before
      /\ proc'[p].next = proc[p].next /\ proc'[p].backup = proc[p].backup
      /\ \A q \in Procs \ {p} : proc'[q] = proc[q]
  BY <1>1, GotoMoves
<1> DEFINE b == proc[p].backup
           copy == IF main = proc[p].copied THEN main ELSE Torn
<1>3. b \in Seconds /\ main # NoFile /\ main \in Contents /\ committed \in Contents
  BY <1>1, <1>2 DEF ProcInv, Running, OpeningInv, TypeOK
<1>4. /\ copy \in Contents \cup {Torn} /\ copy # NoFile
      /\ copy # Torn => copy = main /\ main = proc[p].copied
  BY <1>3, OpeningConstants
<1>5. backups' = [backups EXCEPT ![b] = copy] /\ UNCHANGED <<main, committed, now, fails, crashes>>
  BY DEF CopyEnds, bounds
<1> HIDE DEF b, copy
<1>6. /\ backups' \in [Seconds -> Contents \cup {NoFile, Torn}]
      /\ backups'[b] = copy /\ \A s \in Seconds \ {b} : backups'[s] = backups[s]
  BY <1>3, <1>4, <1>5 DEF OpeningInv, TypeOK
<1>7. TypeOK'
  BY <1>2, <1>5, <1>6 DEF OpeningInv, TypeOK
<1>8. SchemaInOrder' /\ DiskInv'
  BY <1>5 DEF OpeningInv, SchemaInOrder, DiskInv
<1>9. Grows
  <2>1. AtMost(committed, committed) /\ AtMost(main, main)
    BY <1>3 DEF AtMost, Contents
  <2> QED
    BY <1>4, <1>5, <1>6, <2>1 DEF Grows
<1>10. ProcInv(p)'
  <2>1. fails = 0 /\ copy # Torn => InOrder(copy) /\ AtMost(proc[p].before, copy)
    BY <1>1, <1>2, <1>4 DEF ProcInv
  <2>2. backups'[proc'[p].backup] = copy
    BY <1>2, <1>6 DEF b
  <2>3. fails' = 0 => Holds(p)'
    BY <1>2, <1>4, <1>5, <2>1, <2>2 DEF Holds
  <2> QED
    BY <1>1, <1>2, <1>3, <1>4, <1>5, <2>2, <2>3 DEF ProcInv, Migrating
<1> QED
  BY <1>1, <1>2, <1>6, <1>7, <1>8, <1>9, <1>10, OneMoves DEF b, At

\* A migration that can be applied is the next one of the schema, whatever
\* others have applied since p read the version.
LEMMA ApplyKeeps == ASSUME OpeningInv, NEW p \in Procs, Apply(p) PROVE OpeningInv'
<1> DEFINE next == proc[p].next
           latest == proc[p].program.latest
           pc == IF next = latest THEN "serving" ELSE "apply"
           r == [proc[p] EXCEPT !.next = next + 1, !.pc = pc]
<1>1. /\ proc[p] # Off /\ proc[p].pc = "apply" /\ proc[p] \in Running /\ ProcInv(p)
      /\ committed \in Contents /\ next \notin committed.tables
  BY DEF Apply, At, Applicable, OpeningInv, TypeOK
<1>2. next \in Nat /\ latest \in Nat /\ next >= 1 /\ next <= latest /\ next + 1 \in Nat
  BY <1>1, OpeningConstants DEF Running, ProcInv, Migrating
<1>3. proc' = [proc EXCEPT ![p] = r]
  BY DEF Apply, Advance
<1>4. /\ committed' = [committed EXCEPT !.tables = @ \cup {next}, !.recorded = @ \cup {next}]
      /\ UNCHANGED <<main, backups, now, fails, crashes>>
  BY DEF Apply, bounds
<1>5. /\ pc \in {"serving", "apply"} /\ (pc = "serving" => next = latest)
      /\ (pc = "apply" => next # latest)
  OBVIOUS
<1>6. next = Version(committed) + 1 /\ Version(committed) \in Nat
  <2>1. /\ Version(committed) \in Nat /\ committed.tables = 1 .. Version(committed)
        /\ 1 .. next - 1 \subseteq committed.tables
    BY <1>1 DEF OpeningInv, SchemaInOrder, InOrder, ProcInv, Migrating
  <2> HIDE DEF next
  <2>2. next > Version(committed)
    BY <1>1, <1>2, <2>1
  <2>3. next = 1 \/ next - 1 \in committed.tables
    BY <1>2, <2>1
  <2> QED
    BY <1>2, <2>1, <2>2, <2>3
<1> HIDE DEF next, latest, pc
<1>7. r \in Running
  BY <1>1, <1>2, <1>5 DEF Running
<1>8. /\ r.pc = pc /\ r.program = proc[p].program /\ r.had = proc[p].had
      /\ r.found = proc[p].found /\ r.before = proc[p].before
      /\ r.next = next + 1 /\ r.backup = proc[p].backup
  BY <1>1 DEF Running
<1> HIDE DEF r
<1>9. /\ proc' \in [Procs -> Running \cup {Off}] /\ proc'[p] = r
      /\ \A q \in Procs \ {p} : proc'[q] = proc[q]
  BY <1>3, <1>7 DEF OpeningInv, TypeOK
<1>10. /\ committed' \in Contents
       /\ committed'.tables = 1 .. next /\ committed'.recorded = 1 .. next
       /\ committed'.rows = committed.rows
  <2>1. /\ committed.tables = 1 .. Version(committed)
        /\ committed.recorded = 1 .. Version(committed)
    BY DEF OpeningInv, SchemaInOrder, InOrder
  <2>2. (1 .. Version(committed)) \cup {next} = 1 .. next
    BY <1>2, <1>6
  <2>3. /\ committed'.tables = committed.tables \cup {next}
        /\ committed'.recorded = committed.recorded \cup {next}
        /\ committed'.rows = committed.rows /\ committed' \in Contents
    BY <1>1, <1>2, <1>4 DEF Contents
  <2> QED
    BY <2>1, <2>2, <2>3
<1>11. TypeOK'
  BY <1>4, <1>9, <1>10 DEF OpeningInv, TypeOK
<1>12. AtMost(committed, committed')
  <2>1. committed.tables = 1 .. Version(committed)
    BY DEF OpeningInv, SchemaInOrder, InOrder
  <2> QED
    BY <1>1, <1>2, <1>6, <1>10, <2>1 DEF AtMost, Contents
<1>13. SchemaInOrder'
  BY <1>2, <1>10, OrderIs DEF SchemaInOrder
<1>14. DiskInv' /\ Grows
  <2>1. main # NoFile => InOrder(main) /\ AtMost(main, committed) /\ main \in Contents
    BY DEF OpeningInv, DiskInv, TypeOK
  <2>2. main # NoFile => AtMost(main, committed') /\ AtMost(main, main)
    BY <1>1, <1>10, <1>12, <2>1 DEF AtMost, Contents
  <2> QED
    BY <1>4, <1>12, <2>1, <2>2 DEF DiskInv, Grows
<1>15. ProcInv(p)'
  <2>1. AtMost(r.before, committed')
    <3>1. AtMost(r.before, committed) /\ r.before \in Contents
      BY <1>1, <1>8 DEF ProcInv, Running
    <3> QED
      BY <1>1, <1>10, <1>12, <3>1 DEF AtMost, Contents
  <2>2. /\ pc = "serving" => 1 .. r.program.latest \subseteq committed'.tables
        /\ pc = "apply" => r.next \in r.found + 1 .. r.program.latest
        /\ 1 .. r.next - 1 \subseteq committed'.tables
    <3>1. proc[p].next \in proc[p].found + 1 .. proc[p].program.latest
      BY <1>1 DEF ProcInv, Migrating
    <3>2. proc[p].found \in Nat /\ proc[p].next = next /\ proc[p].program.latest = latest
      BY <1>1 DEF Running, next, latest
    <3> QED
      BY <1>2, <1>5, <1>8, <1>10, <3>1, <3>2
  <2>3. /\ r.backup >= 0 => backups'[r.backup] # NoFile
        /\ fails' = 0 /\ r.backup >= 0 => Holds(p)'
    BY <1>1, <1>4, <1>8, <1>9 DEF ProcInv, Holds
  <2>4. main' # NoFile
    BY <1>1, <1>4 DEF ProcInv
  <2> QED
    BY <1>5, <1>8, <1>9, <2>1, <2>2, <2>3, <2>4 DEF ProcInv, Migrating
<1> QED
  BY <1>1, <1>4, <1>8, <1>9, <1>11, <1>13, <1>14, <1>15, OneMoves

\* A step in which no process moves.
LEMMA NobodyMoves ==
  ASSUME OpeningInv, TypeOK', SchemaInOrder', DiskInv', Grows, UNCHANGED <<proc, backups>>
  PROVE  OpeningInv'
<1>1. \A q \in Procs : proc'[q] # Off => ProcInv(q)'
  BY StandsStill
<1> QED
  BY <1>1 DEF OpeningInv, NamesOwned

LEMMA WriteKeeps == ASSUME OpeningInv, NEW p \in Procs, Write(p) PROVE OpeningInv'
<1>1. /\ committed \in Contents /\ UNCHANGED <<main, backups, proc, now, fails, crashes>>
      /\ committed' = [committed EXCEPT !.rows = @ + 1]
  BY DEF Write, bounds, OpeningInv, TypeOK
<1>2. /\ committed' \in Contents /\ committed'.tables = committed.tables
      /\ committed'.recorded = committed.recorded /\ committed'.rows = committed.rows + 1
  BY <1>1 DEF Contents
<1>3. TypeOK'
  BY <1>1, <1>2 DEF OpeningInv, TypeOK
<1>4. SchemaInOrder'
  <2>1. InOrder(committed)
    BY DEF OpeningInv, SchemaInOrder
  <2> QED
    BY <1>2, <2>1, OrderIs DEF SchemaInOrder, InOrder
<1>5. DiskInv' /\ Grows
  <2>1. main # NoFile => InOrder(main) /\ AtMost(main, committed) /\ main \in Contents
    BY DEF OpeningInv, DiskInv, TypeOK
  <2>2. /\ AtMost(committed, committed')
        /\ main # NoFile => AtMost(main, committed') /\ AtMost(main, main)
    BY <1>1, <1>2, <2>1 DEF AtMost, Contents
  <2> QED
    BY <1>1, <2>1, <2>2 DEF DiskInv, Grows
<1> QED
  BY <1>1, <1>3, <1>4, <1>5, NobodyMoves

LEMMA AutoCheckpointKeeps == ASSUME OpeningInv, AutoCheckpoint PROVE OpeningInv'
<1>1. SchemaInOrder' /\ DiskInv' /\ Grows /\ committed \in Contents
  BY Flushes DEF AutoCheckpoint, bounds
<1>2. TypeOK'
  BY <1>1 DEF AutoCheckpoint, bounds, OpeningInv, TypeOK
<1> QED
  BY <1>1, <1>2, NobodyMoves DEF AutoCheckpoint

LEMMA TickKeeps == ASSUME OpeningInv, Tick PROVE OpeningInv'
<1>1. SchemaInOrder' /\ DiskInv' /\ Grows
  BY Quiet DEF Tick
<1>2. TypeOK'
  BY OpeningConstants DEF Tick, OpeningInv, TypeOK, Seconds
<1> QED
  BY <1>1, <1>2, NobodyMoves DEF Tick

LEMMA InitOpens == Init => OpeningInv
<1> SUFFICES ASSUME Init PROVE OpeningInv
  OBVIOUS
<1>1. Empty \in Contents /\ Empty.tables = 1 .. 0 /\ Empty.recorded = 1 .. 0
  BY DEF Empty, Contents
<1>2. SchemaInOrder
  BY <1>1, OrderIs DEF Init, SchemaInOrder
<1>3. TypeOK
  BY <1>1, OpeningConstants DEF Init, TypeOK, Seconds
<1> QED
  BY <1>2, <1>3 DEF Init, OpeningInv, DiskInv, NamesOwned

LEMMA NextKeeps == OpeningInv /\ [Next]_vars => OpeningInv'
<1> SUFFICES ASSUME OpeningInv, [Next]_vars PROVE OpeningInv'
  OBVIOUS
<1>1. ASSUME NEW p \in Procs,
             \/ Open(p) \/ Connect(p) \/ ReadVersion(p) \/ ReadVersionFails(p)
             \/ Checkpoint(p) \/ CheckpointBusy(p) \/ CreateBackup(p) \/ CopyEnds(p)
      PROVE  OpeningInv'
  BY <1>1, OpenKeeps, ConnectKeeps, ReadVersionKeeps, ReadVersionFailsKeeps,
     CheckpointKeeps, CheckpointBusyKeeps, CreateBackupKeeps, CopyEndsKeeps
<1>2. ASSUME NEW p \in Procs,
             \/ Apply(p) \/ ApplyFails(p) \/ Recover(p) \/ StepFails(p)
             \/ Write(p) \/ Close(p) \/ Crash(p)
      PROVE  OpeningInv'
  BY <1>2, ApplyKeeps, ApplyFailsKeeps, RecoverKeeps, StepFailsKeeps,
     WriteKeeps, CloseKeeps, CrashKeeps
<1>3. CASE AutoCheckpoint \/ Tick
  BY <1>3, AutoCheckpointKeeps, TickKeeps
<1>4. CASE UNCHANGED vars
  <2>1. SchemaInOrder' /\ DiskInv' /\ Grows
    BY <1>4, Quiet DEF vars
  <2>2. TypeOK'
    BY <1>4 DEF vars, OpeningInv, TypeOK
  <2> QED
    BY <1>4, <2>1, <2>2, NobodyMoves DEF vars
<1> QED
  BY <1>1, <1>2, <1>3, <1>4 DEF Next

\* The inductive invariant of opening holds for any set of processes and
\* releases, any number of errors and crashes.
THEOREM OpeningInvariant == Spec => []OpeningInv
BY InitOpens, NextKeeps, PTL DEF Spec

\* The schema is always a prefix of the migrations, each applied once.
THEOREM SchemaAlwaysInOrder == Spec => []SchemaInOrder
<1>1. OpeningInv => SchemaInOrder
  BY DEF OpeningInv
<1> QED
  BY <1>1, OpeningInvariant, PTL

\* A process that accepts writes has the whole schema its program knows.
THEOREM ServingAlwaysCurrent == Spec => []ServingIsCurrent
<1>1. OpeningInv => ServingIsCurrent
  BY DEF OpeningInv, ServingIsCurrent, At, ProcInv
<1> QED
  BY <1>1, OpeningInvariant, PTL

\* A whole backup of a process holds all that was there before it migrated.
THEOREM BackupAlwaysHolds == Spec => []BackupHolds
<1>1. OpeningInv => BackupHolds
  BY DEF OpeningInv, BackupHolds, ProcInv
<1> QED
  BY <1>1, OpeningInvariant, PTL

\* No step touches a whole backup: a name is taken only when it is free, and a
\* copy is finished only by the process that took its name.
THEOREM BackupsAreKept == Spec => BackupsKept
<1>1. ASSUME OpeningInv, [Next]_vars, NEW s \in Seconds, backups[s] \notin {NoFile, Torn}
      PROVE  backups'[s] = backups[s]
  <2>0. backups \in [Seconds -> Contents \cup {NoFile, Torn}]
    BY <1>1 DEF OpeningInv, TypeOK
  <2>1. ASSUME NEW p \in Procs, CreateBackup(p) PROVE backups'[s] = backups[s]
    BY <1>1, <2>0, <2>1 DEF CreateBackup
  <2>2. ASSUME NEW p \in Procs, CopyEnds(p) PROVE backups'[s] = backups[s]
    <3>1. backups[proc[p].backup] = Torn
      BY <1>1, <2>2 DEF CopyEnds, At, OpeningInv, ProcInv
    <3> QED
      BY <1>1, <2>0, <2>2, <3>1 DEF CopyEnds
  <2> QED
    BY <1>1, <2>1, <2>2 DEF Next, vars, Open, Connect, ReadVersion, ReadVersionFails,
       Checkpoint, CheckpointBusy, Apply, ApplyFails, Recover, StepFails, Write,
       Close, Crash, AutoCheckpoint, Tick, bounds
<1>2. OpeningInv /\ [Next]_vars
        => [\A s \in Seconds : backups[s] \notin {NoFile, Torn} => backups'[s] = backups[s]]_vars
  BY <1>1
<1> QED
  BY <1>2, OpeningInvariant, PTL DEF Spec, BackupsKept
-----------------------------------------------------------------------------
(* Why a process ends up read-only *)

Cause(p) ==
  \/ proc[p].program.broken /\ Version(committed) < proc[p].program.latest
  \/ Version(committed) > proc[p].found
  \/ proc[p].had /\ proc[p].backup = -1

\* The version found is not beyond the schema's, a backup is for those who had a
\* file, and who has given up has a cause, which stays one.
CauseInv(p) ==
  /\ proc[p].found <= Version(committed)
  /\ proc[p].pc \in {"checkpoint", "backup"} => proc[p].had
  /\ fails = 0 /\ proc[p].pc \in {"recover", "readonly"} => Cause(p)

CausesInv == \A p \in Procs : proc[p] # Off => CauseInv(p)

\* The schema's version never falls.
LEMMA VersionGrows ==
  ASSUME OpeningInv, OpeningInv', [Next]_vars
  PROVE  /\ Version(committed) \in Nat /\ Version(committed') \in Nat
         /\ Version(committed) <= Version(committed')
         /\ fails' = 0 => fails = 0
<1>1. /\ Version(committed) \in Nat /\ committed.tables = 1 .. Version(committed)
      /\ Version(committed') \in Nat /\ committed'.tables = 1 .. Version(committed')
  BY DEF OpeningInv, SchemaInOrder, InOrder
<1>2. committed \in Contents /\ fails \in Nat
  BY OpeningConstants DEF OpeningInv, TypeOK
<1>3. committed.tables \subseteq committed'.tables
  <2>1. ASSUME NEW p \in Procs, Apply(p) \/ Write(p)
        PROVE  committed.tables \subseteq committed'.tables
    BY <1>2, <2>1 DEF Apply, Write, Contents
  <2>2. ASSUME NEW p \in Procs,
               \/ Open(p) \/ Connect(p) \/ ReadVersion(p) \/ ReadVersionFails(p)
               \/ Checkpoint(p) \/ CheckpointBusy(p) \/ CreateBackup(p) \/ CopyEnds(p)
               \/ ApplyFails(p) \/ Recover(p) \/ StepFails(p) \/ Close(p) \/ Crash(p)
        PROVE  committed' = committed
    BY <2>2 DEF Open, Connect, ReadVersion, ReadVersionFails, Checkpoint, CheckpointBusy,
       CreateBackup, CopyEnds, ApplyFails, Recover, StepFails, Close, Crash
  <2>3. CASE AutoCheckpoint \/ Tick \/ UNCHANGED vars
    BY <2>3 DEF AutoCheckpoint, Tick, vars
  <2> QED
    BY <2>1, <2>2, <2>3 DEF Next
<1>4. fails' = fails \/ fails' = fails + 1
  <2>1. ASSUME NEW p \in Procs, ReadVersionFails(p) \/ CheckpointBusy(p) \/ StepFails(p)
        PROVE  fails' = fails + 1
    BY <2>1 DEF ReadVersionFails, CheckpointBusy, StepFails
  <2>2. ASSUME NEW p \in Procs,
               \/ Open(p) \/ Connect(p) \/ ReadVersion(p) \/ Checkpoint(p)
               \/ CreateBackup(p) \/ CopyEnds(p) \/ Apply(p) \/ ApplyFails(p)
               \/ Recover(p) \/ Write(p) \/ Close(p) \/ Crash(p)
        PROVE  fails' = fails
    BY <2>2 DEF Open, Connect, ReadVersion, Checkpoint, CreateBackup, CopyEnds, Apply,
       ApplyFails, Recover, Write, Close, Crash, bounds
  <2>3. CASE AutoCheckpoint \/ Tick \/ UNCHANGED vars
    BY <2>3 DEF AutoCheckpoint, Tick, vars, bounds
  <2> QED
    BY <2>1, <2>2, <2>3 DEF Next
<1>5. Version(committed) <= Version(committed')
  <2> DEFINE v == Version(committed)
  <2>1. v = 0 \/ v \in committed'.tables
    BY <1>1, <1>3
  <2> QED
    BY <1>1, <2>1
<1> QED
  BY <1>1, <1>2, <1>4, <1>5

\* A process that keeps its record, but for its place, keeps its cause.
LEMMA CauseStays ==
  ASSUME OpeningInv, NEW q \in Procs, proc[q] # Off, CauseInv(q),
         Version(committed) \in Nat, Version(committed') \in Nat,
         Version(committed) <= Version(committed'),
         fails' = 0 => fails = 0,
         proc'[q].program = proc[q].program, proc'[q].had = proc[q].had,
         proc'[q].found = proc[q].found,
         fails' = 0 /\ proc'[q].pc \in {"recover", "readonly"} =>
           proc[q].backup = proc'[q].backup /\ Cause(q),
         proc'[q].pc \in {"checkpoint", "backup"} => proc[q].had
  PROVE  CauseInv(q)'
<1>1. proc[q] \in Running
  BY DEF OpeningInv, TypeOK
<1>2. proc[q].found \in Nat /\ proc[q].program.latest \in Nat
  BY <1>1, OpeningConstants DEF Running
<1>3. proc'[q].found <= Version(committed')
  BY <1>2 DEF CauseInv
<1>4. ASSUME fails' = 0, proc'[q].pc \in {"recover", "readonly"} PROVE Cause(q)'
  <2>1. Cause(q) /\ proc'[q].backup = proc[q].backup
    BY <1>4
  <2>2. CASE Version(committed) = Version(committed')
    BY <2>1, <2>2 DEF Cause
  <2>3. CASE Version(committed) < Version(committed')
    <3>1. Version(committed') > proc'[q].found
      BY <1>2, <2>3 DEF CauseInv
    <3> QED
      BY <3>1 DEF Cause
  <2> QED
    BY <2>2, <2>3
<1> QED
  BY <1>3, <1>4 DEF CauseInv

\* A migration that cannot be applied is broken, or another process was faster.
LEMMA ApplyFailsHasCause ==
  ASSUME OpeningInv, NEW p \in Procs, ApplyFails(p), Version(committed) \in Nat
  PROVE  Cause(p)
<1>1. /\ proc[p] \in Running /\ proc[p] # Off /\ ProcInv(p) /\ proc[p].pc = "apply"
      /\ committed.tables = 1 .. Version(committed)
  BY DEF ApplyFails, At, OpeningInv, TypeOK, SchemaInOrder, InOrder
<1>2. /\ proc[p].found \in Nat /\ proc[p].program.latest \in Nat
      /\ proc[p].next \in proc[p].found + 1 .. proc[p].program.latest
  BY <1>1, OpeningConstants DEF Running, ProcInv, Migrating
<1>3. CASE proc[p].next \in committed.tables
  <2>1. Version(committed) > proc[p].found
    BY <1>1, <1>2, <1>3
  <2> QED
    BY <2>1 DEF Cause
<1>4. CASE proc[p].next \notin committed.tables
  <2>1. proc[p].program.broken /\ proc[p].next = proc[p].program.latest
    BY <1>4 DEF ApplyFails, Applicable
  <2>2. Version(committed) < proc[p].program.latest
    BY <1>1, <1>2, <1>4, <2>1
  <2> QED
    BY <2>1, <2>2 DEF Cause
<1> QED
  BY <1>3, <1>4

\* A process that moves without reading the version.
LEMMA CauseOfMover ==
  ASSUME OpeningInv, OpeningInv', CausesInv, NEW p \in Procs, proc[p] # Off,
         proc'[p] # Off, [Next]_vars,
         \/ Connect(p) \/ Checkpoint(p) \/ CheckpointBusy(p) \/ CreateBackup(p)
         \/ CopyEnds(p) \/ Apply(p) \/ ApplyFails(p) \/ Recover(p) \/ StepFails(p)
  PROVE  CauseInv(p)'
<1>1. /\ CauseInv(p) /\ ProcInv(p) /\ proc[p] \in Running
      /\ proc \in [Procs -> Running \cup {Off}]
  BY DEF CausesInv, OpeningInv, TypeOK
<1>2. /\ Version(committed) \in Nat /\ Version(committed') \in Nat
      /\ Version(committed) <= Version(committed')
      /\ fails' = 0 => fails = 0
  BY VersionGrows
<1>3. ASSUME NEW x, Goto(p, x)
      PROVE  /\ proc'[p].pc = x
             /\ proc'[p].program = proc[p].program /\ proc'[p].had = proc[p].had
             /\ proc'[p].found = proc[p].found /\ proc'[p].backup = proc[p].backup
  BY <1>1, <1>3 DEF Goto, Running
<1>4. CASE Connect(p)
  <2>1. Goto(p, "version")
    BY <1>4 DEF Connect
  <2> QED
    BY <1>1, <1>2, <1>3, <2>1, CauseStays
<1>5. CASE Checkpoint(p) \/ CheckpointBusy(p)
  <2>1. Goto(p, "backup") /\ proc[p].had
    BY <1>1, <1>5 DEF Checkpoint, CheckpointBusy, At, CauseInv
  <2>2. /\ proc'[p].pc = "backup"
        /\ proc'[p].program = proc[p].program /\ proc'[p].had = proc[p].had
        /\ proc'[p].found = proc[p].found /\ proc'[p].backup = proc[p].backup
    BY <1>3, <2>1
  <2> QED
    BY <1>1, <1>2, <2>1, <2>2, CauseStays
<1>6. CASE CreateBackup(p)
  <2>1. proc[p].had /\ proc[p].backup = -1 /\ fails' = fails
    BY <1>1, <1>6 DEF CreateBackup, At, CauseInv, ProcInv, bounds
  <2>2. CASE backups[now] = NoFile
    <3>1. /\ proc'[p].pc = "copy"
          /\ proc'[p].program = proc[p].program /\ proc'[p].had = proc[p].had
          /\ proc'[p].found = proc[p].found
      BY <1>1, <1>6, <2>2 DEF CreateBackup, Running
    <3> QED
      BY <1>1, <1>2, <3>1, CauseStays
  <2>3. CASE backups[now] # NoFile
    <3>1. Goto(p, "recover")
      BY <1>6, <2>3 DEF CreateBackup
    <3>2. Cause(p)
      BY <2>1 DEF Cause
    <3> QED
      BY <1>1, <1>2, <1>3, <3>1, <3>2, CauseStays
  <2> QED
    BY <2>2, <2>3
<1>7. CASE CopyEnds(p)
  <2>1. Goto(p, "apply")
    BY <1>7 DEF CopyEnds
  <2> QED
    BY <1>1, <1>2, <1>3, <2>1, CauseStays
<1>8. CASE Apply(p)
  <2>1. /\ proc'[p].pc \in {"serving", "apply"}
        /\ proc'[p].program = proc[p].program /\ proc'[p].had = proc[p].had
        /\ proc'[p].found = proc[p].found
    BY <1>1, <1>8 DEF Apply, Advance, Running
  <2> QED
    BY <1>1, <1>2, <2>1, CauseStays
<1>9. CASE ApplyFails(p)
  <2>1. Goto(p, "recover") /\ Cause(p)
    BY <1>2, <1>9, ApplyFailsHasCause DEF ApplyFails
  <2> QED
    BY <1>1, <1>2, <1>3, <2>1, CauseStays
<1>10. CASE Recover(p)
  <2>1. Goto(p, "readonly") /\ (fails' = 0 => Cause(p))
    BY <1>1, <1>2, <1>10 DEF Recover, At, CauseInv
  <2> QED
    BY <1>1, <1>2, <1>3, <2>1, CauseStays
<1>11. CASE StepFails(p)
  <2>1. Goto(p, "recover") /\ fails' # 0
    <3>1. fails \in Nat /\ fails' = fails + 1
      BY <1>11, OpeningConstants DEF StepFails, OpeningInv, TypeOK
    <3>2. proc[p].pc \notin {"connect", "recover"}
      BY <1>1, <1>11 DEF StepFails
    <3> QED
      BY <1>11, <3>1, <3>2 DEF StepFails, Goto
  <2> QED
    BY <1>1, <1>2, <1>3, <2>1, CauseStays
<1> QED
  BY <1>4, <1>5, <1>6, <1>7, <1>8, <1>9, <1>10, <1>11

\* A process that opens, reads the version or stops.
LEMMA CauseOfReader ==
  ASSUME OpeningInv, OpeningInv', CausesInv, NEW p \in Procs, proc'[p] # Off, [Next]_vars,
         \/ Open(p) \/ ReadVersion(p) \/ ReadVersionFails(p) \/ Close(p) \/ Crash(p)
  PROVE  CauseInv(p)'
<1>1. /\ proc \in [Procs -> Running \cup {Off}]
      /\ proc[p] # Off => proc[p] \in Running /\ ProcInv(p)
      /\ Version(committed) \in Nat /\ Version(committed') \in Nat
  BY VersionGrows DEF OpeningInv, TypeOK
<1>2. CASE Open(p)
  <2>1. proc'[p].pc = "connect" /\ proc'[p].found = 0
    BY <1>1, <1>2 DEF Open
  <2> QED
    BY <1>1, <2>1 DEF CauseInv
<1>3. CASE ReadVersion(p)
  <2>1. /\ proc[p] \in Running /\ committed' = committed
        /\ proc'[p].found = Version(committed) /\ proc'[p].had = proc[p].had
        /\ proc'[p].pc \in {"serving", "checkpoint", "apply"}
        /\ proc'[p].pc = "checkpoint" => proc[p].had
    BY <1>1, <1>3 DEF ReadVersion, At, Running
  <2> QED
    BY <1>1, <2>1 DEF CauseInv
<1>4. CASE ReadVersionFails(p)
  <2>1. /\ proc[p] \in Running /\ committed' = committed
        /\ proc'[p].found = proc[p].found /\ proc'[p].had = proc[p].had
        /\ proc'[p].pc \in {"checkpoint", "apply"}
        /\ proc'[p].pc = "checkpoint" => proc[p].had
    BY <1>1, <1>4 DEF ReadVersionFails, At, Running
  <2>2. proc[p].found = 0
    BY <1>1, <1>4 DEF ReadVersionFails, At, ProcInv
  <2> QED
    BY <1>1, <2>1, <2>2 DEF CauseInv
<1>5. CASE Close(p) \/ Crash(p)
  BY <1>1, <1>5 DEF Close, Crash
<1> QED
  BY <1>2, <1>3, <1>4, <1>5

\* A process that does not move.
LEMMA CauseOfOthers ==
  ASSUME OpeningInv, OpeningInv', CausesInv, NEW q \in Procs, proc'[q] # Off, [Next]_vars,
         proc'[q] = proc[q]
  PROVE  CauseInv(q)'
<1>1. CauseInv(q)
  BY DEF CausesInv
<1>2. fails' = 0 /\ proc'[q].pc \in {"recover", "readonly"} => Cause(q)
  BY <1>1, VersionGrows DEF CauseInv
<1>3. proc'[q].pc \in {"checkpoint", "backup"} => proc[q].had
  BY <1>1 DEF CauseInv
<1> QED
  BY <1>1, <1>2, <1>3, VersionGrows, CauseStays

LEMMA CausesKept ==
  ASSUME OpeningInv, OpeningInv', CausesInv, [Next]_vars
  PROVE  CausesInv'
<1> SUFFICES ASSUME NEW q \in Procs, proc'[q] # Off PROVE CauseInv(q)'
  BY DEF CausesInv
<1>1. proc \in [Procs -> Running \cup {Off}]
  BY DEF OpeningInv, TypeOK
<1>2. CASE proc'[q] = proc[q]
  BY <1>2, CauseOfOthers
<1>3. CASE proc'[q] # proc[q]
  <2>1. ASSUME NEW p \in Procs,
               \/ Connect(p) \/ Checkpoint(p) \/ CheckpointBusy(p) \/ CreateBackup(p)
               \/ CopyEnds(p) \/ Apply(p) \/ ApplyFails(p) \/ Recover(p) \/ StepFails(p)
        PROVE  CauseInv(q)'
    <3>1. p = q /\ proc[p] # Off
      BY <1>1, <1>3, <2>1 DEF Connect, Checkpoint, CheckpointBusy, CreateBackup, CopyEnds,
         Apply, Advance, ApplyFails, Recover, StepFails, Goto, At
    <3> QED
      BY <2>1, <3>1, CauseOfMover
  <2>2. ASSUME NEW p \in Procs,
               \/ Open(p) \/ ReadVersion(p) \/ ReadVersionFails(p) \/ Close(p) \/ Crash(p)
        PROVE  CauseInv(q)'
    <3>1. p = q
      BY <1>1, <1>3, <2>2 DEF Open, ReadVersion, ReadVersionFails, Close, Crash
    <3> QED
      BY <2>2, <3>1, CauseOfReader
  <2>3. ~(\E p \in Procs : Write(p)) /\ ~AutoCheckpoint /\ ~Tick /\ ~UNCHANGED vars
    BY <1>3 DEF Write, AutoCheckpoint, Tick, vars
  <2> QED
    BY <2>1, <2>2, <2>3 DEF Next
<1> QED
  BY <1>2, <1>3

\* Without errors of the disk, a process that ends up read-only has a broken last
\* migration, was overtaken, or found the name of its backup taken
\* (db.go:27-59, migrate.go:51-139).
THEOREM ReadOnlyAlwaysHasCause == Spec => []ReadOnlyHasCause
<1>1. Init => CausesInv
  BY DEF Init, CausesInv
<1>2. OpeningInv /\ OpeningInv' /\ CausesInv /\ [Next]_vars => CausesInv'
  BY CausesKept
<1>3. CausesInv => ReadOnlyHasCause
  BY DEF CausesInv, CauseInv, Cause, ReadOnlyHasCause, At
<1> QED
  BY <1>1, <1>2, <1>3, OpeningInvariant, PTL DEF Spec
=============================================================================
