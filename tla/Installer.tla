------------------------------ MODULE Installer ------------------------------
(***************************************************************************)
(* Setup and uninstall of internal/installer: the plan is made by reading  *)
(* the configuration files one after another, and applied file by file -   *)
(* compare with the plan, back up, replace - undoing every earlier file    *)
(* when a step fails.  The user, and a second agent-doctor process (the    *)
(* dashboard sets up by itself when it starts), may write the same files   *)
(* at any moment, any write may fail, and a process may die between any    *)
(* two steps.                                                              *)
(*                                                                         *)
(* A file holds a text of the user's, 0 for none, and Agent Doctor's       *)
(* block or not.  Modes, links and the portable fallback of rename are     *)
(* left out; a replacement is one rename.                                  *)
(***************************************************************************)
EXTENDS Integers, Sequences, SequencesExt, FiniteSets

CONSTANTS Procs,      \* agent-doctor processes
          Order,      \* the files of a plan, in order
          Whole,      \* the files that are wholly Agent Doctor's (skills, hooks)
          Config,     \* the file uninstall looks at, Codex's config.toml
          Absent,     \* the file does not exist
          MaxRuns,    \* bound: setups and uninstalls
          MaxEdits,   \* bound: edits of the user's
          MaxFails,   \* bound: steps that fail
          MaxCrashes  \* bound: processes that die

Files == ToSet(Order)
Texts == 0 .. MaxEdits
Contents == [user : Texts, block : BOOLEAN]

ASSUME InstallerConstants == /\ Order \in Seq(Files)
                             /\ IsInjective(Order)
                             /\ Whole \subseteq Files
                             /\ Config \in Files \ Whole
                             /\ Absent \notin Contents
                             /\ {MaxRuns, MaxEdits, MaxFails, MaxCrashes} \subseteq Nat

Empty == [user |-> 0, block |-> FALSE]

VARIABLES disk,    \* disk[f]: content of file f, or Absent
          backups, \* copies in the backup directories: [file, content]
          proc,    \* proc[p]: where the process is, and its locals
          touched, \* touched[p]: files others wrote since p read them to plan
          typed,   \* typed[f]: the text the user last saved in f
          raced,   \* files the user saved while a process was about to write them
          budget

vars == <<disk, backups, proc, touched, typed, raced, budget>>

\* The bytes read of a file: one that is absent reads like an empty one.
Bytes(c) == IF c = Absent THEN Empty ELSE c

Resting == [pc |-> "idle", plan |-> [f \in Files |-> Absent], next |-> 1,
            read |-> Absent, applied |-> <<>>, complete |-> TRUE]

Init == /\ disk \in [Files -> {Absent, Empty}]
        /\ backups = {}
        /\ proc = [p \in Procs |-> Resting]
        /\ touched = [p \in Procs |-> {}]
        /\ typed = [f \in Files |-> 0]
        /\ raced = {}
        /\ budget = [runs |-> MaxRuns, edits |-> MaxEdits, fails |-> MaxFails,
                     crashes |-> MaxCrashes]

Spend(what) == /\ budget[what] > 0
               /\ budget' = [budget EXCEPT ![what] = @ - 1]

\* Someone writes f; every process but p notices, if it looks.
Touch(p, f) == touched' = [q \in Procs |-> IF q = p THEN touched[q] ELSE touched[q] \cup {f}]

Goto(p, pc) == proc' = [proc EXCEPT ![p].pc = pc]
----------------------------------------------------------------------------
(* Setup *)

Change(p) == Order[proc[p].next]

\* BuildAllPlan, BuildCodexMCPPlan ...
BuildPlan(p) ==
  /\ proc[p].pc \in {"idle", "ready", "failed"}
  /\ Spend("runs")
  /\ proc' = [proc EXCEPT ![p] = [Resting EXCEPT !.pc = "plan"]]
  /\ touched' = [touched EXCEPT ![p] = {}]
  /\ UNCHANGED <<disk, backups, typed, raced>>

\* ... read the files one after another (readCurrent): Before is what each held
\* when its turn came ...
ReadBefore(p) ==
  LET f == Change(p)
      last == proc[p].next = Len(Order)
  IN  /\ proc[p].pc = "plan"
      /\ proc' = [proc EXCEPT ![p].plan[f] = disk[f],
                              ![p].next = IF last THEN 1 ELSE @ + 1,
                              ![p].pc = IF last THEN "check" ELSE "plan"]
      /\ touched' = [touched EXCEPT ![p] = @ \ {f}]
      /\ UNCHANGED <<disk, backups, typed, raced, budget>>

\* ... and a file that cannot be read ends the run before it wrote anything.
PlanFails(p) ==
  /\ proc[p].pc = "plan"
  /\ Spend("fails")
  /\ proc' = [proc EXCEPT ![p] = Resting]
  /\ UNCHANGED <<disk, backups, touched, typed, raced>>

Before(p, f) == Bytes(proc[p].plan[f])
\* AppendMarkedBlock keeps the rest of the file; a skill or hook file is replaced.
After(p, f) == [user |-> IF f \in Whole THEN 0 ELSE Before(p, f).user, block |-> TRUE]

\* Slips the runs must notice: a file that holds a block counts as done, a file
\* is replaced without a backup.
CheckAnyBlock(p) ==
  LET f == Change(p)
      current == Bytes(disk[f])
  IN  /\ proc[p].pc = "check" /\ proc[p].next <= Len(Order)
      /\ proc' = [proc EXCEPT ![p].read = disk[f],
                              ![p].next = IF current.block THEN @ + 1 ELSE @,
                              ![p].pc = IF current.block THEN "check"
                                        ELSE IF current # Before(p, f) THEN "rollback"
                                        ELSE IF disk[f] = Absent THEN "write" ELSE "backup"]
      /\ UNCHANGED <<disk, backups, touched, typed, raced, budget>>

CheckBacksUpLater(p) ==
  LET f == Change(p)
      current == Bytes(disk[f])
  IN  /\ proc[p].pc = "check" /\ proc[p].next <= Len(Order)
      /\ proc' = [proc EXCEPT ![p].read = disk[f],
                              ![p].next = IF current = After(p, f) THEN @ + 1 ELSE @,
                              ![p].pc = IF current = After(p, f) THEN "check"
                                        ELSE IF current # Before(p, f) THEN "rollback"
                                        ELSE "write"]
      /\ UNCHANGED <<disk, backups, touched, typed, raced, budget>>

\* Apply looks at the next file: done already, changed since the plan, or due.
Check(p) ==
  LET f == Change(p)
      current == Bytes(disk[f])
  IN  /\ proc[p].pc = "check" /\ proc[p].next <= Len(Order)
      /\ proc' = [proc EXCEPT ![p].read = disk[f],
                              ![p].next = IF current = After(p, f) THEN @ + 1 ELSE @,
                              ![p].pc = IF current = After(p, f) THEN "check"
                                        ELSE IF current # Before(p, f) THEN "rollback"
                                        ELSE IF disk[f] = Absent THEN "write" ELSE "backup"]
      /\ UNCHANGED <<disk, backups, touched, typed, raced, budget>>

Backup(p) == /\ proc[p].pc = "backup"
             /\ backups' = backups \cup {[file |-> Change(p), content |-> proc[p].read]}
             /\ Goto(p, "write")
             /\ UNCHANGED <<disk, touched, typed, raced, budget>>

\* atomicWrite.
Write(p) ==
  LET f == Change(p)
  IN  /\ proc[p].pc = "write"
      /\ disk' = [disk EXCEPT ![f] = After(p, f)]
      /\ proc' = [proc EXCEPT ![p].applied = Append(@, [file |-> f, was |-> proc[p].read]),
                              ![p].next = @ + 1, ![p].pc = "check"]
      /\ Touch(p, f)
      /\ UNCHANGED <<backups, typed, raced, budget>>

\* After the last file: the manifest, when anything was written.
WriteManifest(p) == /\ proc[p].pc = "check" /\ proc[p].next > Len(Order)
                    /\ Goto(p, "ready")
                    /\ UNCHANGED <<disk, backups, touched, typed, raced, budget>>

\* Any of these steps may fail, and undoes what was applied.
StepFails(p) ==
  /\ \/ proc[p].pc \in {"backup", "write"}
     \/ proc[p].pc = "check" /\ (proc[p].next <= Len(Order) \/ proc[p].applied # <<>>)
  /\ Spend("fails")
  /\ Goto(p, "rollback")
  /\ UNCHANGED <<disk, backups, touched, typed, raced>>

\* A slip the runs must notice: a file that was not there is left behind, empty.
RestoredEmpty(p, item) == Bytes(item.was)

\* What rollbackApplied puts back.
Restored(p, item) == IF item.was = Absent THEN Absent ELSE Before(p, item.file)

\* rollbackApplied, last file first; a failure is noted and the rest undone.
RollBack(p) ==
  /\ proc[p].pc = "rollback" /\ proc[p].applied # <<>>
  /\ LET item == Last(proc[p].applied)
     IN  \/ /\ disk' = [disk EXCEPT ![item.file] = Restored(p, item)]
            /\ proc' = [proc EXCEPT ![p].applied = Front(@)]
            /\ Touch(p, item.file)
            /\ UNCHANGED budget
         \/ /\ Spend("fails")
            /\ proc' = [proc EXCEPT ![p].applied = Front(@), ![p].complete = FALSE]
            /\ UNCHANGED <<disk, touched>>
  /\ UNCHANGED <<backups, typed, raced>>

RolledBack(p) == /\ proc[p].pc = "rollback" /\ proc[p].applied = <<>>
                 /\ Goto(p, "failed")
                 /\ UNCHANGED <<disk, backups, touched, typed, raced, budget>>
----------------------------------------------------------------------------
(* Uninstall, the user, and crashes *)

\* UninstallMarkedBlock reads the file ...
Uninstall(p) ==
  /\ proc[p].pc \in {"idle", "ready", "failed"}
  /\ Spend("runs")
  /\ disk[Config] # Absent /\ disk[Config].block
  /\ proc' = [proc EXCEPT ![p] = [Resting EXCEPT !.pc = "remove", !.read = disk[Config]]]
  /\ UNCHANGED <<disk, backups, touched, typed, raced>>

\* ... and replaces it by what it read without the block, or fails.
RemoveBlock(p) ==
  /\ proc[p].pc = "remove"
  /\ \/ /\ disk' = [disk EXCEPT ![Config] = [proc[p].read EXCEPT !.block = FALSE]]
        /\ Touch(p, Config)
        /\ UNCHANGED budget
     \/ Spend("fails") /\ UNCHANGED <<disk, touched>>
  /\ Goto(p, "idle")
  /\ UNCHANGED <<backups, typed, raced>>

\* The files p has read and is going to write without reading them again.
Window(p) == CASE proc[p].pc \in {"backup", "write"} ->
                    {Change(p)} \cup {item.file : item \in ToSet(proc[p].applied)}
               [] proc[p].pc = "remove" -> {Config}
               [] proc[p].pc \in {"check", "rollback"} ->
                    {item.file : item \in ToSet(proc[p].applied)}
               [] OTHER -> {}

\* The user saves a new text of his; what else is in the file he keeps.
UserSaves(f) ==
  /\ Spend("edits")
  /\ LET text == MaxEdits - budget.edits + 1
     IN  /\ disk' = [disk EXCEPT ![f] = [user |-> text, block |-> Bytes(@).block]]
         /\ typed' = [typed EXCEPT ![f] = text]
  /\ touched' = [p \in Procs |-> touched[p] \cup {f}]
  /\ raced' = IF \E p \in Procs : f \in Window(p) THEN raced \cup {f} ELSE raced \ {f}
  /\ UNCHANGED <<backups, proc>>

Crash(p) == /\ proc[p].pc \notin {"idle", "ready", "failed"}
            /\ Spend("crashes")
            /\ proc' = [proc EXCEPT ![p] = Resting]
            /\ UNCHANGED <<disk, backups, touched, typed, raced>>

Next == \/ \E p \in Procs : \/ BuildPlan(p) \/ ReadBefore(p) \/ PlanFails(p)
                            \/ Check(p) \/ Backup(p) \/ Write(p)
                            \/ WriteManifest(p) \/ StepFails(p) \/ RollBack(p)
                            \/ RolledBack(p) \/ Uninstall(p) \/ RemoveBlock(p) \/ Crash(p)
        \/ \E f \in Files : UserSaves(f)

Spec == Init /\ [][Next]_vars
----------------------------------------------------------------------------
Processes ==
  [pc : {"idle", "plan", "check", "backup", "write", "rollback", "remove", "ready", "failed"},
   plan : [Files -> Contents \cup {Absent}], next : 1 .. Len(Order) + 1,
   read : Contents \cup {Absent},
   applied : Seq([file : Files, was : Contents \cup {Absent}]), complete : BOOLEAN]

\* Only what was read of a file that exists is ever in a backup.
TypeOK ==
  /\ disk \in [Files -> Contents \cup {Absent}]
  /\ backups \subseteq [file : Files, content : Contents]
  /\ proc \in [Procs -> Processes]
  /\ touched \in [Procs -> SUBSET Files]
  /\ typed \in [Files -> Texts]
  /\ raced \subseteq Files
  /\ budget \in [runs : Nat, edits : 0 .. MaxEdits, fails : Nat, crashes : Nat]

\* After a setup that failed and could undo everything, each file no one else
\* wrote is as it was planned from, absent ones absent again (apply.go:42-76,
\* rollback.go:10-25; installer_test.go:163 tries one failure of one step).
FailureRestores ==
  \A p \in Procs : proc[p].pc = "failed" /\ proc[p].complete =>
    \A f \in Files \ touched[p] : disk[f] = proc[p].plan[f]

\* A setup that reports success leaves every file as planned, unless someone
\* else wrote it; in particular it never skips a file for looking done.
ReadyMeansInstalled ==
  \A p \in Procs : proc[p].pc = "ready" =>
    \A f \in Files \ touched[p] : disk[f] = After(p, f)

\* What the user saved outside the short windows of a running setup or
\* uninstall is never lost: it is in its file or in a backup, whatever fails,
\* crashes or runs next to it (apply.go:48-69: compare, back up, replace).
Kept(f) == \/ typed[f] = 0
           \/ disk[f] # Absent /\ disk[f].user = typed[f]
           \/ \E b \in backups : b.file = f /\ b.content.user = typed[f]

SavedTextKept == \A f \in Files \ raced : Kept(f)
=============================================================================
