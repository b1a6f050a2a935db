-------------------------- MODULE DatabaseOpening --------------------------
(***************************************************************************)
(* Opening the local database, internal/storage/db.go and migrate.go.      *)
(* Every command, hook and daemon opens the same SQLite file: it looks     *)
(* whether the file holds anything, reads the schema version, backs the    *)
(* file up and applies what its program knows beyond that version, one     *)
(* transaction per migration.  When that fails it serves read-only.        *)
(* Processes of different releases open at once, crash and come back.      *)
(*                                                                         *)
(* What SQLite has committed is split in two: the main file, and the       *)
(* write-ahead log, which reaches the main file by a checkpoint.  A backup *)
(* is a copy of the main file.                                             *)
(***************************************************************************)
EXTENDS Integers, FiniteSets

CONSTANTS Procs,     \* processes
          Programs,  \* releases: [latest, broken], broken when the SQL of the
                     \* latest migration fails
          Off,       \* a process that is not running
          NoFile,    \* no database, or no backup of that name
          Torn,      \* a copy that is incomplete, or of two moments
          MaxTime,   \* bound: seconds
          MaxRows,   \* bound: rows written
          MaxFails,  \* bound: errors of the disk or of SQLite
          MaxCrashes \* bound: processes that die

Contents == [tables : SUBSET Nat, recorded : SUBSET Nat, rows : Nat]

ASSUME OpeningConstants ==
  /\ \A program \in Programs : program.latest \in Nat \ {0} /\ program.broken \in BOOLEAN
  /\ MaxTime \in Nat /\ MaxRows \in Nat /\ MaxFails \in Nat /\ MaxCrashes \in Nat
  /\ NoFile \notin Contents /\ Torn \notin Contents /\ NoFile # Torn

VARIABLES
  main,      \* the main file, or NoFile
  committed, \* [tables, recorded, rows]: main file and log together
  backups,   \* backups[s]: the file named after second s, or NoFile
  proc,      \* proc[p]: where p is and what it has read
  now,       \* the clock, in the seconds a backup is named after
  fails, crashes

vars == <<main, committed, backups, proc, now, fails, crashes>>
bounds == <<now, fails, crashes>>

Empty == [tables |-> {}, recorded |-> {}, rows |-> 0]
Seconds == 0 .. MaxTime

Version(content) ==
  IF content.recorded = {} THEN 0
  ELSE CHOOSE v \in content.recorded : \A w \in content.recorded : w <= v

Init == /\ main = NoFile
        /\ committed = Empty
        /\ backups = [s \in Seconds |-> NoFile]
        /\ proc = [p \in Procs |-> Off]
        /\ now = 0 /\ fails = 0 /\ crashes = 0

At(p, pc) == proc[p] # Off /\ proc[p].pc = pc
Goto(p, pc) == proc' = [proc EXCEPT ![p].pc = pc]
-----------------------------------------------------------------------------
\* openWithMigrations: whether the file holds something to back up.
Open(p) ==
  /\ proc[p] = Off
  /\ \E program \in Programs :
       proc' = [proc EXCEPT ![p] =
                  [pc |-> "connect", program |-> program, had |-> main # NoFile,
                   found |-> 0, before |-> Empty, next |-> 0,
                   copied |-> NoFile, backup |-> -1]]
  /\ UNCHANGED <<main, committed, backups, bounds>>

\* openSQLite: the write-ahead log is switched on, which fills the first page.
Connect(p) ==
  /\ At(p, "connect")
  /\ main' = IF main = NoFile THEN Empty ELSE main
  /\ Goto(p, "version")
  /\ UNCHANGED <<committed, backups, bounds>>

\* A slip the runs must notice: the version found is applied once more.
ReadVersionAgain(p) ==
  /\ At(p, "version")
  /\ LET found == Version(committed)
         latest == proc[p].program.latest
     IN  proc' = [proc EXCEPT ![p].found = found, ![p].before = committed,
                              ![p].next = IF found = 0 THEN 1 ELSE found,
                              ![p].pc = IF found > latest THEN "serving"
                                        ELSE IF proc[p].had THEN "checkpoint" ELSE "apply"]
  /\ UNCHANGED <<main, committed, backups, bounds>>

\* migrate: what the program knows beyond the version found is pending.
ReadVersion(p) ==
  /\ At(p, "version")
  /\ LET found == Version(committed)
         latest == proc[p].program.latest
     IN  proc' = [proc EXCEPT ![p].found = found, ![p].before = committed,
                              ![p].next = found + 1,
                              ![p].pc = IF found >= latest THEN "serving"
                                        ELSE IF proc[p].had THEN "checkpoint" ELSE "apply"]
  /\ UNCHANGED <<main, committed, backups, bounds>>

\* currentSchemaVersion takes an error for version 0.
ReadVersionFails(p) ==
  /\ At(p, "version")
  /\ fails < MaxFails
  /\ fails' = fails + 1
  /\ proc' = [proc EXCEPT ![p].before = committed, ![p].next = 1,
                          ![p].pc = IF proc[p].had THEN "checkpoint" ELSE "apply"]
  /\ UNCHANGED <<main, committed, backups, now, crashes>>

\* A slip the runs must notice: the log is not brought into the file first.
NoCheckpoint(p) == /\ At(p, "checkpoint")
                   /\ Goto(p, "backup")
                   /\ UNCHANGED <<main, committed, backups, bounds>>

\* PRAGMA wal_checkpoint(TRUNCATE).
Checkpoint(p) == /\ At(p, "checkpoint")
                 /\ main' = committed
                 /\ Goto(p, "backup")
                 /\ UNCHANGED <<committed, backups, bounds>>

\* It gives up on a log another process is using, and that is a result row
\* (busy = 1), which Exec does not look at, not an error.
CheckpointBusy(p) == /\ At(p, "checkpoint")
                     /\ fails < MaxFails
                     /\ \E q \in Procs \ {p} : proc[q] # Off /\ proc[q].pc # "connect"
                     /\ fails' = fails + 1
                     /\ Goto(p, "backup")
                     /\ UNCHANGED <<main, committed, backups, now, crashes>>

\* A slip the runs must notice: a backup of the same second is overwritten.
CreateBackupAnyhow(p) ==
  /\ At(p, "backup")
  /\ backups' = [backups EXCEPT ![now] = Torn]
  /\ proc' = [proc EXCEPT ![p].backup = now, ![p].copied = main, ![p].pc = "copy"]
  /\ UNCHANGED <<main, committed, bounds>>

\* backupIfPresent: the name must be new (O_EXCL).
CreateBackup(p) ==
  /\ At(p, "backup")
  /\ IF backups[now] = NoFile
     THEN /\ backups' = [backups EXCEPT ![now] = Torn]
          /\ proc' = [proc EXCEPT ![p].backup = now, ![p].copied = main, ![p].pc = "copy"]
     ELSE Goto(p, "recover") /\ UNCHANGED backups
  /\ UNCHANGED <<main, committed, bounds>>

\* ... and the copy, whole only when the file was left alone meanwhile.
CopyEnds(p) ==
  /\ At(p, "copy")
  /\ backups' = [backups EXCEPT ![proc[p].backup] =
                   IF main = proc[p].copied THEN main ELSE Torn]
  /\ Goto(p, "apply")
  /\ UNCHANGED <<main, committed, bounds>>

\* The SQL of a migration creates tables and columns: it fails when they exist.
Applicable(p) == /\ proc[p].next \notin committed.tables
                 /\ ~(proc[p].program.broken /\ proc[p].next = proc[p].program.latest)

Advance(p) ==
  proc' = [proc EXCEPT ![p].next = @ + 1,
                       ![p].pc = IF proc[p].next = proc[p].program.latest
                                 THEN "serving" ELSE "apply"]

\* A slip the runs must notice: the SQL is committed before the version is recorded.
ApplyUnrecorded(p) ==
  /\ At(p, "apply") /\ Applicable(p)
  /\ committed' = [committed EXCEPT !.tables = @ \cup {proc[p].next}]
  /\ Goto(p, "recover")
  /\ UNCHANGED <<main, backups, bounds>>

\* One migration and its record, in one transaction.
Apply(p) ==
  /\ At(p, "apply") /\ Applicable(p)
  /\ committed' = [committed EXCEPT !.tables = @ \cup {proc[p].next},
                                    !.recorded = @ \cup {proc[p].next}]
  /\ Advance(p)
  /\ UNCHANGED <<main, backups, bounds>>

\* A slip the runs must notice: a migration that fails is passed over.
ApplyPassesOver(p) == /\ At(p, "apply") /\ ~Applicable(p)
                      /\ Advance(p)
                      /\ UNCHANGED <<main, committed, backups, bounds>>

\* The transaction is rolled back, and the process goes on read-only.
ApplyFails(p) == /\ At(p, "apply") /\ ~Applicable(p)
                 /\ Goto(p, "recover")
                 /\ UNCHANGED <<main, committed, backups, bounds>>

\* The writable connection is closed and a read-only one opened.
Recover(p) == /\ At(p, "recover")
              /\ Goto(p, "readonly")
              /\ UNCHANGED <<main, committed, backups, bounds>>

\* An error of the disk or of SQLite, SQLITE_BUSY after five seconds included.
StepFails(p) ==
  /\ fails < MaxFails
  /\ \/ At(p, "connect") \/ At(p, "recover")
     \/ \E pc \in {"checkpoint", "backup", "copy", "apply"} : At(p, pc)
  /\ proc' = [proc EXCEPT ![p] = IF @.pc \in {"connect", "recover"} THEN Off
                                 ELSE [@ EXCEPT !.pc = "recover"]]
  /\ fails' = fails + 1
  /\ UNCHANGED <<main, committed, backups, now, crashes>>
-----------------------------------------------------------------------------
\* Any write of a process that serves; a read-only one refuses it.
Write(p) == /\ At(p, "serving")
            /\ committed.rows < MaxRows
            /\ committed' = [committed EXCEPT !.rows = @ + 1]
            /\ UNCHANGED <<main, backups, proc, bounds>>

\* SQLite brings the log into the file, in any process that may write.
AutoCheckpoint == /\ \E p \in Procs : proc[p] # Off /\ proc[p].pc \notin {"connect", "readonly"}
                  /\ main # committed
                  /\ main' = committed
                  /\ UNCHANGED <<committed, backups, proc, bounds>>

\* A process ends; one that dies is not asked where it is.
Close(p) == /\ At(p, "serving") \/ At(p, "readonly")
            /\ proc' = [proc EXCEPT ![p] = Off]
            /\ UNCHANGED <<main, committed, backups, bounds>>

Crash(p) == /\ proc[p] # Off
            /\ crashes < MaxCrashes
            /\ crashes' = crashes + 1
            /\ proc' = [proc EXCEPT ![p] = Off]
            /\ UNCHANGED <<main, committed, backups, now, fails>>

Tick == /\ now < MaxTime
        /\ now' = now + 1
        /\ UNCHANGED <<main, committed, backups, proc, fails, crashes>>

Next == \/ \E p \in Procs :
             \/ Open(p) \/ Connect(p) \/ ReadVersion(p)
             \/ ReadVersionFails(p) \/ Checkpoint(p)
             \/ CheckpointBusy(p)
             \/ CreateBackup(p) \/ CopyEnds(p) \/ Apply(p) \/ ApplyFails(p)
             \/ Recover(p) \/ StepFails(p) \/ Write(p) \/ Close(p) \/ Crash(p)
        \/ AutoCheckpoint
        \/ Tick

Spec == Init /\ [][Next]_vars
-----------------------------------------------------------------------------
Running == [pc : {"connect", "version", "checkpoint", "backup", "copy", "apply",
                  "recover", "readonly", "serving"},
            program : Programs, had : BOOLEAN, found : Nat, before : Contents,
            next : Nat, copied : Contents \cup {NoFile}, backup : Seconds \cup {-1}]

TypeOK == /\ main \in Contents \cup {NoFile}
          /\ committed \in Contents
          /\ backups \in [Seconds -> Contents \cup {NoFile, Torn}]
          /\ proc \in [Procs -> Running \cup {Off}]
          /\ now \in Seconds
          /\ fails \in 0 .. MaxFails /\ crashes \in 0 .. MaxCrashes

\* The schema of a content is a prefix of the migrations, each one recorded.
InOrder(content) == /\ Version(content) \in Nat
                    /\ content.tables = 1 .. Version(content)
                    /\ content.recorded = 1 .. Version(content)

AtMost(a, b) == a.tables \subseteq b.tables /\ a.rows <= b.rows

\* Whatever opens, fails or dies at once, the migrations are applied in order,
\* each once, and recorded when they are applied (migrate.go:76-95).
SchemaInOrder == InOrder(committed)

\* A process that accepts writes has all the tables its program knows, though
\* it may have read the version long before (db.go:40-45).
ServingIsCurrent ==
  \A p \in Procs : At(p, "serving") => 1 .. proc[p].program.latest \subseteq committed.tables

\* Without errors, the backup a process made, unless another one wrote to the
\* file while it was being copied, holds all that was there when the process
\* read the version, also what a process that died had left in the log
\* (migrate.go:66-75, 112-139).
Holds(p) ==
  LET copy == backups[proc[p].backup]
  IN  copy # Torn => copy # NoFile /\ InOrder(copy) /\ AtMost(proc[p].before, copy)

BackupHolds ==
  \A p \in Procs : fails = 0 /\ proc[p] # Off /\ proc[p].backup >= 0 => Holds(p)

\* A whole backup is never touched again.
BackupsKept ==
  [][\A s \in Seconds : backups[s] \notin {NoFile, Torn} => backups'[s] = backups[s]]_vars

\* Without errors of the disk, a process ends up read-only only when its last
\* migration is broken, when another process migrated after it had read the
\* version, or when the name of its backup was taken.
ReadOnlyHasCause ==
  \A p \in Procs :
    At(p, "readonly") /\ fails = 0 =>
      \/ proc[p].program.broken /\ Version(committed) < proc[p].program.latest
      \/ Version(committed) > proc[p].found
      \/ proc[p].had /\ proc[p].backup = -1
-----------------------------------------------------------------------------
\* The inductive invariant.  The main file is the committed content of some
\* moment; a process that has migrations to apply has its program's earlier ones
\* in place, though it does not know how many more; and names of backups are not
\* shared.
DiskInv == main # NoFile => InOrder(main) /\ AtMost(main, committed)

Migrating == {"checkpoint", "backup", "copy", "apply"}

ProcInv(p) ==
  /\ proc[p].had \/ proc[p].pc # "connect" => main # NoFile
  /\ proc[p].pc \in {"connect", "version"} => proc[p].found = 0
  /\ proc[p].pc \in Migrating => /\ proc[p].next \in proc[p].found + 1 .. proc[p].program.latest
                                 /\ 1 .. proc[p].next - 1 \subseteq committed.tables
  /\ proc[p].pc = "serving" => 1 .. proc[p].program.latest \subseteq committed.tables
  /\ proc[p].pc \notin {"connect", "version"} => AtMost(proc[p].before, committed)
  /\ proc[p].pc \in {"connect", "version", "checkpoint", "backup"} => proc[p].backup = -1
  /\ fails = 0 /\ proc[p].pc = "backup" => AtMost(proc[p].before, main)
  /\ proc[p].pc = "copy" => proc[p].backup >= 0 /\ backups[proc[p].backup] = Torn
  /\ fails = 0 /\ proc[p].pc = "copy" => /\ proc[p].copied # NoFile
                                         /\ InOrder(proc[p].copied)
                                         /\ AtMost(proc[p].before, proc[p].copied)
  /\ proc[p].backup >= 0 => backups[proc[p].backup] # NoFile
  /\ fails = 0 /\ proc[p].backup >= 0 => Holds(p)

NamesOwned ==
  \A p, q \in Procs :
    /\ p # q /\ proc[p] # Off /\ proc[q] # Off
    /\ proc[p].backup >= 0 /\ proc[q].backup >= 0
    => proc[p].backup # proc[q].backup

\* TypeOK, SchemaInOrder and BackupHolds with what their induction needs
\* (db.go:27-59, migrate.go:51-139).
OpeningInv == /\ TypeOK /\ SchemaInOrder /\ DiskInv /\ NamesOwned
              /\ \A p \in Procs : proc[p] # Off => ProcInv(p)
=============================================================================
