-------------------------- MODULE InstallerProofs ---------------------------
(***************************************************************************)
(* Proofs about Installer, for every number of processes, files, edits,    *)
(* failures and crashes: types, that a setup leaves what it promises or    *)
(* puts back what it found, and that no text of the user's is lost.        *)
(***************************************************************************)
EXTENDS Installer, SequenceTheorems, TLAPS

(* The inductive invariant *)

AppliedFiles(p) == {proc[p].applied[i].file : i \in 1 .. Len(proc[p].applied)}

\* Where a process is in its plan; it has read what it is about to replace.
PlanInv(p) ==
  /\ proc[p].pc = "plan" => proc[p].next <= Len(Order) /\ proc[p].applied = <<>>
  /\ proc[p].pc \in {"backup", "write"} => proc[p].next <= Len(Order)
  /\ proc[p].pc = "ready" => proc[p].next = Len(Order) + 1
  /\ proc[p].pc \in {"backup", "remove"} => proc[p].read # Absent
  /\ proc[p].pc = "failed" => proc[p].applied = <<>>
  /\ \A i \in 1 .. Len(proc[p].applied) :
       \E j \in 1 .. proc[p].next - 1 : proc[p].applied[i].file = Order[j]

\* What has been read for the plan is still there, unless someone else wrote it.
ReadInv(p) ==
  proc[p].pc = "plan" =>
    \A j \in 1 .. proc[p].next - 1 :
      Order[j] \in touched[p] \/ disk[Order[j]] = proc[p].plan[Order[j]]

\* The files before the next one are as planned, unless someone else wrote them.
DoneInv(p) ==
  proc[p].pc \in {"check", "backup", "write", "ready"} =>
    \A j \in 1 .. proc[p].next - 1 :
      Order[j] \in touched[p] \/ disk[Order[j]] = After(p, Order[j])

\* What was applied can be undone, and the rest is as the plan found it, as
\* long as no undo has failed.
ReadPlanned(p) ==
  proc[p].pc \in {"backup", "write"} =>
    Change(p) \in touched[p] \/ proc[p].read = proc[p].plan[Change(p)]

AppliedPlanned(p) ==
  \A i \in 1 .. Len(proc[p].applied) :
    LET item == proc[p].applied[i]
    IN  item.file \in touched[p] \/ item.was = proc[p].plan[item.file]

RestPlanned(p) ==
  \A f \in Files : f \in touched[p] \cup AppliedFiles(p) \/ disk[f] = proc[p].plan[f]

UndoInv(p) ==
  proc[p].pc \in {"check", "backup", "write", "rollback", "failed"} /\ proc[p].complete =>
    ReadPlanned(p) /\ AppliedPlanned(p) /\ RestPlanned(p)

\* The user's text no longer depends on the file: it is in a backup.
Saved(f) == typed[f] = 0 \/ \E b \in backups : b.file = f /\ b.content.user = typed[f]

\* Whatever a process is about to write over is in a backup by then.
KeepInv(p) ==
  \A f \in Files \ raced :
    /\ proc[p].pc \in {"check", "backup", "write", "rollback"} /\ f \in AppliedFiles(p) => Saved(f)
    /\ proc[p].pc = "write" /\ f = Change(p) => Saved(f)
    /\ proc[p].pc = "backup" /\ f = Change(p) => Saved(f) \/ proc[p].read.user = typed[f]
    /\ proc[p].pc = "remove" /\ f = Config => Saved(f) \/ proc[p].read.user = typed[f]

PlansInv == TypeOK /\ \A p \in Procs : PlanInv(p)
UndosInv == \A p \in Procs : ReadInv(p) /\ DoneInv(p) /\ UndoInv(p)
KeptInv == SavedTextKept /\ \A p \in Procs : KeepInv(p)
-----------------------------------------------------------------------------
(* Constants, contents and sequences *)

LEMMA OrderFacts ==
  /\ Len(Order) \in Nat \ {0}
  /\ \A i \in 1 .. Len(Order) : Order[i] \in Files
  /\ \A i, j \in 1 .. Len(Order) : Order[i] = Order[j] => i = j
  /\ \A f \in Files : \E i \in 1 .. Len(Order) : f = Order[i]
<1>1. Order \in Seq(Files) /\ IsInjective(Order) /\ Files = {Order[i] : i \in DOMAIN Order}
  BY InstallerConstants DEF Files, ToSet
<1> HIDE DEF Files
<1>2. DOMAIN Order = 1 .. Len(Order)
  BY <1>1
<1>3. Config \in Files
  BY InstallerConstants
<1> QED
  BY <1>1, <1>2, <1>3 DEF IsInjective

LEMMA ContentFacts ==
  /\ Empty \in Contents
  /\ \A c \in Contents \cup {Absent} : /\ Bytes(c) \in Contents
                                       /\ Bytes(c).block => Bytes(c) = c
                                       /\ c # Absent => Bytes(c) = c
  /\ \A c \in Contents, b \in BOOLEAN : [c EXCEPT !.block = b] \in Contents
                                        /\ [c EXCEPT !.block = b].user = c.user
  /\ \A t \in Texts, b \in BOOLEAN : [user |-> t, block |-> b] \in Contents
<1>1. MaxEdits \in Nat
  BY InstallerConstants
<1> QED
  BY <1>1 DEF Empty, Contents, Texts, Bytes

LEMMA AfterTyped ==
  ASSUME TypeOK, NEW p \in Procs, NEW f \in Files
  PROVE  /\ Before(p, f) \in Contents /\ After(p, f) \in Contents /\ After(p, f).block
         /\ proc[p].plan[f] \in Contents \cup {Absent}
         /\ proc[p].plan[f] # Absent => Before(p, f) = proc[p].plan[f]
<1>1. proc[p].plan[f] \in Contents \cup {Absent}
  BY DEF TypeOK, Processes
<1>2. Before(p, f) \in Contents /\ (proc[p].plan[f] # Absent => Before(p, f) = proc[p].plan[f])
  BY <1>1, ContentFacts DEF Before
<1>3. Before(p, f).user \in Texts /\ 0 \in Texts
  BY <1>2, InstallerConstants DEF Contents, Texts
<1> QED
  BY <1>1, <1>2, <1>3, ContentFacts DEF After

Items == [file : Files, was : Contents \cup {Absent}]

LEMMA FrontFacts ==
  ASSUME NEW s \in Seq(Items), s # <<>>
  PROVE  /\ Last(s) \in Items /\ Len(s) \in Nat \ {0} /\ Last(s) = s[Len(s)]
         /\ Front(s) \in Seq(Items) /\ Len(Front(s)) = Len(s) - 1
         /\ \A i \in 1 .. Len(s) - 1 : Front(s)[i] = s[i]
<1>1. Len(s) \in Nat \ {0}
  BY EmptySeq
<1>2. \A i \in 1 .. Len(s) - 1 : s[i] \in Items
  BY <1>1
<1>3. /\ SubSeq(s, 1, Len(s) - 1) \in Seq(Items)
      /\ Len(SubSeq(s, 1, Len(s) - 1)) = Len(s) - 1
      /\ \A i \in 1 .. Len(s) - 1 : SubSeq(s, 1, Len(s) - 1)[i] = s[i]
  <2>1. PICK n : n = Len(s) - 1 /\ n \in Nat
    BY <1>1
  <2>2. 1 \in Int /\ n \in Int /\ \A i \in 1 .. n : s[i] \in Items
    BY <1>2, <2>1
  <2>3. /\ SubSeq(s, 1, n) \in Seq(Items)
        /\ Len(SubSeq(s, 1, n)) = IF 1 <= n THEN n - 1 + 1 ELSE 0
        /\ \A i \in 1 .. n - 1 + 1 : SubSeq(s, 1, n)[i] = s[1 + i - 1]
    BY ONLY <2>2, SubSeqProperties
  <2> QED
    BY <2>1, <2>3
<1> QED
  BY <1>1, <1>3 DEF Front, Last

LEMMA AppendFacts ==
  ASSUME NEW s \in Seq(Items), NEW item \in Items
  PROVE  /\ Append(s, item) \in Seq(Items) /\ Len(s) \in Nat
         /\ Len(Append(s, item)) = Len(s) + 1
         /\ \A i \in 1 .. Len(s) : Append(s, item)[i] = s[i]
         /\ Append(s, item)[Len(s) + 1] = item
OBVIOUS
-----------------------------------------------------------------------------
(* What each action does to the process that takes it *)

\* Only p moves; r is what it becomes.
Moves(p, r) == proc' = [proc EXCEPT ![p] = r]

LEMMA Moved ==
  ASSUME TypeOK, NEW p \in Procs, NEW r \in Processes, Moves(p, r)
  PROVE  /\ proc' \in [Procs -> Processes] /\ proc'[p] = r
         /\ \A q \in Procs \ {p} : proc'[q] = proc[q]
BY DEF TypeOK, Moves

LEMMA GotoMoves ==
  ASSUME TypeOK, NEW p \in Procs,
         NEW pc \in {"idle", "plan", "check", "backup", "write", "rollback", "remove", "ready", "failed"},
         Goto(p, pc)
  PROVE  /\ proc' \in [Procs -> Processes]
         /\ proc'[p] = [proc[p] EXCEPT !.pc = pc]
         /\ proc'[p].pc = pc /\ proc'[p].plan = proc[p].plan /\ proc'[p].next = proc[p].next
         /\ proc'[p].read = proc[p].read /\ proc'[p].applied = proc[p].applied
         /\ proc'[p].complete = proc[p].complete
         /\ \A q \in Procs \ {p} : proc'[q] = proc[q]
BY DEF TypeOK, Goto, Processes

LEMMA Resets ==
  ASSUME TypeOK, NEW p \in Procs
  PROVE  /\ Resting \in Processes
         /\ [Resting EXCEPT !.pc = "plan"] \in Processes
         /\ disk[Config] # Absent =>
              [Resting EXCEPT !.pc = "remove", !.read = disk[Config]] \in Processes
<1>1. 1 \in 1 .. Len(Order) + 1 /\ <<>> \in Seq(Items) /\ Config \in Files
  BY OrderFacts, InstallerConstants
<1>2. disk \in [Files -> Contents \cup {Absent}]
  BY DEF TypeOK
<1> QED
  BY <1>1, <1>2 DEF Resting, Processes, Items

\* Check: the file is done, has changed, or is due.
LEMMA CheckMoves ==
  ASSUME TypeOK, NEW p \in Procs, Check(p)
  PROVE  LET f == Change(p)
             r == proc'[p]
         IN  /\ f \in Files /\ proc' \in [Procs -> Processes]
             /\ \A q \in Procs \ {p} : proc'[q] = proc[q]
             /\ r.plan = proc[p].plan /\ r.applied = proc[p].applied
             /\ r.complete = proc[p].complete /\ r.read = disk[f]
             /\ \/ r.pc = "check" /\ r.next = proc[p].next + 1 /\ disk[f] = After(p, f)
                \/ r.pc = "rollback" /\ r.next = proc[p].next
                \/ r.pc = "write" /\ r.next = proc[p].next /\ disk[f] = Absent
                \/ r.pc = "backup" /\ r.next = proc[p].next /\ disk[f] # Absent
<1> DEFINE f == Change(p)
           current == Bytes(disk[f])
           pc == IF current = After(p, f) THEN "check"
                 ELSE IF current # Before(p, f) THEN "rollback"
                 ELSE IF disk[f] = Absent THEN "write" ELSE "backup"
           next == IF current = After(p, f) THEN proc[p].next + 1 ELSE proc[p].next
<1>1. proc[p] \in Processes /\ proc[p].next \in 1 .. Len(Order) /\ f = Order[proc[p].next]
  <2>1. proc[p] \in Processes
    BY DEF TypeOK
  <2>2. proc[p].next \in 1 .. Len(Order) + 1 /\ proc[p].next <= Len(Order)
    BY <2>1 DEF Check, Processes
  <2> QED
    BY <2>1, <2>2, OrderFacts DEF Change
<1>2. f \in Files /\ disk[f] \in Contents \cup {Absent}
  BY <1>1, OrderFacts DEF TypeOK
<1>3. next \in 1 .. Len(Order) + 1
  BY <1>1, OrderFacts
<1>4. proc' = [proc EXCEPT ![p] = [proc[p] EXCEPT !.read = disk[f], !.next = next, !.pc = pc]]
  BY <1>1 DEF Check, TypeOK, Processes
<1>5. current = After(p, f) => disk[f] = After(p, f)
  BY <1>2, AfterTyped, ContentFacts
<1>6. pc \in {"check", "backup", "write", "rollback"}
  OBVIOUS
<1>7. [proc[p] EXCEPT !.read = disk[f], !.next = next, !.pc = pc] \in Processes
  BY <1>1, <1>2, <1>3, <1>6 DEF Processes
<1>8. /\ proc' \in [Procs -> Processes]
      /\ proc'[p] = [proc[p] EXCEPT !.read = disk[f], !.next = next, !.pc = pc]
      /\ \A q \in Procs \ {p} : proc'[q] = proc[q]
  BY <1>4, <1>7, Moved DEF Moves
<1>9. /\ proc'[p].read = disk[f] /\ proc'[p].next = next /\ proc'[p].pc = pc
      /\ proc'[p].plan = proc[p].plan /\ proc'[p].applied = proc[p].applied
      /\ proc'[p].complete = proc[p].complete
  BY <1>1, <1>8 DEF Processes
<1> QED
  BY <1>2, <1>5, <1>8, <1>9

LEMMA WriteMoves ==
  ASSUME TypeOK, NEW p \in Procs, PlanInv(p), Write(p)
  PROVE  LET f == Change(p)
             r == proc'[p]
             item == [file |-> f, was |-> proc[p].read]
         IN  /\ f \in Files /\ proc' \in [Procs -> Processes] /\ item \in Items
             /\ \A q \in Procs \ {p} : proc'[q] = proc[q]
             /\ r.plan = proc[p].plan /\ r.applied = Append(proc[p].applied, item)
             /\ r.complete = proc[p].complete /\ r.read = proc[p].read
             /\ r.pc = "check" /\ r.next = proc[p].next + 1
<1> DEFINE f == Change(p)
           item == [file |-> f, was |-> proc[p].read]
           r == [proc[p] EXCEPT !.applied = Append(@, item), !.next = @ + 1, !.pc = "check"]
<1>1. /\ proc[p] \in Processes /\ proc[p].next \in 1 .. Len(Order)
      /\ f = Order[proc[p].next]
  <2>1. proc[p] \in Processes
    BY DEF TypeOK
  <2>2. proc[p].next \in 1 .. Len(Order) + 1 /\ proc[p].next <= Len(Order)
    BY <2>1 DEF Write, PlanInv, Processes
  <2> QED
    BY <2>1, <2>2, OrderFacts DEF Change
<1>2. f \in Files
  BY <1>1, OrderFacts
<1>3. item \in Items /\ proc[p].applied \in Seq(Items)
  BY <1>1, <1>2 DEF Processes, Items
<1>4. Append(proc[p].applied, item) \in Seq(Items) /\ proc[p].next + 1 \in 1 .. Len(Order) + 1
  BY <1>1, <1>3, OrderFacts
<1>5. proc' = [proc EXCEPT ![p] = r]
  BY <1>1 DEF Write, TypeOK, Processes
<1>6. r \in Processes
  BY <1>1, <1>4 DEF Processes, Items
<1>7. proc' \in [Procs -> Processes] /\ proc'[p] = r /\ \A q \in Procs \ {p} : proc'[q] = proc[q]
  BY <1>5, <1>6, Moved DEF Moves
<1>8. /\ r.plan = proc[p].plan /\ r.applied = Append(proc[p].applied, item)
      /\ r.complete = proc[p].complete /\ r.read = proc[p].read
      /\ r.pc = "check" /\ r.next = proc[p].next + 1
  BY <1>1 DEF Processes
<1> QED
  BY <1>2, <1>3, <1>7, <1>8

LEMMA RollBackMoves ==
  ASSUME TypeOK, NEW p \in Procs, RollBack(p)
  PROVE  LET r == proc'[p]
             s == proc[p].applied
             item == Last(s)
         IN  /\ proc' \in [Procs -> Processes] /\ item \in Items
             /\ \A q \in Procs \ {p} : proc'[q] = proc[q]
             /\ s \in Seq(Items) /\ s # <<>>
             /\ r.plan = proc[p].plan /\ r.applied = Front(s)
             /\ r.read = proc[p].read /\ proc[p].pc = "rollback"
             /\ r.pc = "rollback" /\ r.next = proc[p].next
             /\ \/ /\ r.complete = proc[p].complete
                   /\ disk' = [disk EXCEPT ![item.file] = Restored(p, item)]
                   /\ Touch(p, item.file) /\ UNCHANGED budget
                \/ ~r.complete /\ UNCHANGED <<disk, touched>> /\ Spend("fails")
<1> DEFINE s == proc[p].applied
           item == Last(s)
           Back(done) == [proc[p] EXCEPT !.applied = Front(@), !.complete = done]
<1>1. /\ proc[p] \in Processes /\ proc[p].pc = "rollback" /\ s # <<>>
      /\ proc[p].complete \in BOOLEAN
  BY DEF RollBack, TypeOK, Processes
<1>2. s \in Seq(Items)
  BY <1>1 DEF Processes, Items
<1>3. item \in Items /\ Front(s) \in Seq(Items)
  BY <1>1, <1>2, FrontFacts
<1>4. \A done \in BOOLEAN :
        /\ Back(done) \in Processes
        /\ Back(done).plan = proc[p].plan /\ Back(done).applied = Front(s)
        /\ Back(done).read = proc[p].read /\ Back(done).pc = "rollback"
        /\ Back(done).next = proc[p].next /\ Back(done).complete = done
  BY <1>1, <1>3 DEF Processes, Items
<1>5. \/ /\ proc' = [proc EXCEPT ![p] = Back(proc[p].complete)]
         /\ disk' = [disk EXCEPT ![item.file] = Restored(p, item)]
         /\ Touch(p, item.file) /\ UNCHANGED budget
      \/ /\ proc' = [proc EXCEPT ![p] = Back(FALSE)]
         /\ UNCHANGED <<disk, touched>> /\ Spend("fails")
  <2>1. CASE /\ proc' = [proc EXCEPT ![p].applied = Front(@)]
             /\ disk' = [disk EXCEPT ![item.file] = Restored(p, item)]
             /\ Touch(p, item.file) /\ UNCHANGED budget
    <3>1. proc' = [proc EXCEPT ![p] = Back(proc[p].complete)]
      BY <1>1, <2>1 DEF TypeOK, Processes
    <3> QED
      BY <2>1, <3>1
  <2>2. CASE /\ proc' = [proc EXCEPT ![p].applied = Front(@), ![p].complete = FALSE]
             /\ UNCHANGED <<disk, touched>> /\ Spend("fails")
    <3>1. proc' = [proc EXCEPT ![p] = Back(FALSE)]
      BY <1>1, <2>2 DEF TypeOK, Processes
    <3> QED
      BY <2>2, <3>1
  <2> QED
    BY <2>1, <2>2 DEF RollBack
<1> HIDE DEF Back, item
<1>6. \E done \in BOOLEAN : Moves(p, Back(done))
  BY <1>1, <1>5 DEF Moves
<1>7. /\ proc' \in [Procs -> Processes]
      /\ \A q \in Procs \ {p} : proc'[q] = proc[q]
      /\ \E done \in BOOLEAN : proc'[p] = Back(done)
  BY <1>4, <1>6, Moved
<1>8. \/ /\ proc'[p] = Back(proc[p].complete)
         /\ disk' = [disk EXCEPT ![item.file] = Restored(p, item)]
         /\ Touch(p, item.file) /\ UNCHANGED budget
      \/ /\ proc'[p] = Back(FALSE)
         /\ UNCHANGED <<disk, touched>> /\ Spend("fails")
  BY <1>5 DEF TypeOK
<1> QED
  BY <1>1, <1>2, <1>3, <1>4, <1>7, <1>8 DEF item

\* A new run, and the end of one that died.
LEMMA ResetMoves ==
  ASSUME TypeOK, NEW p \in Procs
  PROVE  /\ BuildPlan(p) => /\ proc' \in [Procs -> Processes]
                            /\ \A q \in Procs \ {p} : proc'[q] = proc[q]
                            /\ proc'[p].pc = "plan" /\ proc'[p].next = 1
                            /\ proc'[p].applied = <<>>
         /\ Uninstall(p) => /\ proc' \in [Procs -> Processes]
                            /\ \A q \in Procs \ {p} : proc'[q] = proc[q]
                            /\ proc'[p].pc = "remove" /\ proc'[p].applied = <<>>
                            /\ proc'[p].read = disk[Config] /\ disk[Config] # Absent
         /\ Crash(p) \/ PlanFails(p) => /\ proc' \in [Procs -> Processes]
                                        /\ \A q \in Procs \ {p} : proc'[q] = proc[q]
                                        /\ proc'[p].pc = "idle" /\ proc'[p].applied = <<>>
<1>1. ASSUME BuildPlan(p)
      PROVE  /\ proc' \in [Procs -> Processes] /\ \A q \in Procs \ {p} : proc'[q] = proc[q]
             /\ proc'[p] = [Resting EXCEPT !.pc = "plan"]
  <2>1. Moves(p, [Resting EXCEPT !.pc = "plan"])
    BY <1>1 DEF BuildPlan, Moves
  <2> QED
    BY <2>1, Moved, Resets
<1>2. ASSUME Uninstall(p)
      PROVE  /\ proc' \in [Procs -> Processes] /\ \A q \in Procs \ {p} : proc'[q] = proc[q]
             /\ proc'[p] = [Resting EXCEPT !.pc = "remove", !.read = disk[Config]]
             /\ disk[Config] # Absent
  <2>1. Moves(p, [Resting EXCEPT !.pc = "remove", !.read = disk[Config]]) /\ disk[Config] # Absent
    BY <1>2 DEF Uninstall, Moves
  <2> QED
    BY <2>1, Moved, Resets
<1>3. ASSUME Crash(p) \/ PlanFails(p)
      PROVE  /\ proc' \in [Procs -> Processes] /\ \A q \in Procs \ {p} : proc'[q] = proc[q]
             /\ proc'[p] = Resting
  <2>1. Moves(p, Resting)
    BY <1>3 DEF Crash, PlanFails, Moves
  <2> QED
    BY <2>1, Moved, Resets
<1>4. /\ Resting.pc = "idle" /\ Resting.applied = <<>>
      /\ LET r == [Resting EXCEPT !.pc = "plan"]
         IN  r.pc = "plan" /\ r.next = 1 /\ r.applied = <<>>
      /\ LET r == [Resting EXCEPT !.pc = "remove", !.read = disk[Config]]
         IN  r.pc = "remove" /\ r.applied = <<>> /\ r.read = disk[Config]
  BY DEF Resting
<1> HIDE DEF Resting
<1> QED
  BY <1>1, <1>2, <1>3, <1>4

\* One file read for the plan: the next one's turn, or the end of the plan.
LEMMA ReadBeforeMoves ==
  ASSUME TypeOK, NEW p \in Procs, PlanInv(p), ReadBefore(p)
  PROVE  LET f == Change(p)
             r == proc'[p]
         IN  /\ f \in Files /\ f = Order[proc[p].next]
             /\ proc[p].next \in 1 .. Len(Order)
             /\ proc' \in [Procs -> Processes]
             /\ \A q \in Procs \ {p} : proc'[q] = proc[q]
             /\ r.plan = [proc[p].plan EXCEPT ![f] = disk[f]]
             /\ r.applied = <<>> /\ r.complete = proc[p].complete
             /\ \/ /\ r.pc = "plan" /\ r.next = proc[p].next + 1
                   /\ r.next <= Len(Order)
                \/ r.pc = "check" /\ r.next = 1 /\ proc[p].next = Len(Order)
<1> DEFINE f == Change(p)
           last == proc[p].next = Len(Order)
           next == IF last THEN 1 ELSE proc[p].next + 1
           pc == IF last THEN "check" ELSE "plan"
           plan == [proc[p].plan EXCEPT ![f] = disk[f]]
           r == [proc[p] EXCEPT !.plan = plan, !.next = next, !.pc = pc]
<1>1. /\ proc[p] \in Processes /\ proc[p].pc = "plan" /\ proc[p].applied = <<>>
      /\ proc[p].next \in 1 .. Len(Order) /\ Len(Order) \in Nat \ {0}
      /\ proc[p].plan \in [Files -> Contents \cup {Absent}]
  <2>1. proc[p] \in Processes
    BY DEF TypeOK
  <2>2. proc[p].next \in 1 .. Len(Order) + 1 /\ proc[p].next <= Len(Order)
    BY <2>1 DEF ReadBefore, PlanInv, Processes
  <2> QED
    BY <2>1, <2>2, OrderFacts DEF ReadBefore, PlanInv, Processes
<1>2. f \in Files /\ f = Order[proc[p].next] /\ disk[f] \in Contents \cup {Absent}
  BY <1>1, OrderFacts DEF Change, TypeOK
<1>3. plan \in [Files -> Contents \cup {Absent}]
  BY <1>1, <1>2
<1>4. next \in 1 .. Len(Order) + 1 /\ (~last => next <= Len(Order))
  BY <1>1
<1>5. Moves(p, r)
  <2>1. proc' = [proc EXCEPT ![p] = r]
    BY <1>1, <1>2 DEF ReadBefore, TypeOK, Processes
  <2> QED
    BY <2>1 DEF Moves
<1>6. r \in Processes
  BY <1>1, <1>3, <1>4 DEF Processes
<1>7. proc' \in [Procs -> Processes] /\ proc'[p] = r /\ \A q \in Procs \ {p} : proc'[q] = proc[q]
  BY <1>5, <1>6, Moved
<1>8. /\ r.plan = plan /\ r.applied = <<>> /\ r.complete = proc[p].complete
      /\ r.next = next /\ r.pc = pc
  BY <1>1 DEF Processes
<1> QED
  BY <1>1, <1>2, <1>4, <1>7, <1>8

\* The steps that only go on.
OnlyGoes(p) == \/ Backup(p) \/ WriteManifest(p) \/ StepFails(p) \/ RolledBack(p) \/ RemoveBlock(p)

LEMMA GoesMoves ==
  ASSUME TypeOK, NEW p \in Procs, OnlyGoes(p)
  PROVE  LET r == proc'[p]
         IN  /\ proc' \in [Procs -> Processes] /\ \A q \in Procs \ {p} : proc'[q] = proc[q]
             /\ r.plan = proc[p].plan /\ r.next = proc[p].next
             /\ r.read = proc[p].read /\ r.applied = proc[p].applied
             /\ r.complete = proc[p].complete
             /\ \/ Backup(p) /\ proc[p].pc = "backup" /\ r.pc = "write"
                \/ WriteManifest(p) /\ proc[p].pc = "check" /\ r.pc = "ready"
                \/ StepFails(p) /\ proc[p].pc \in {"check", "backup", "write"} /\ r.pc = "rollback"
                \/ /\ RolledBack(p) /\ proc[p].pc = "rollback" /\ r.pc = "failed"
                   /\ proc[p].applied = <<>>
                \/ RemoveBlock(p) /\ proc[p].pc = "remove" /\ r.pc = "idle"
<1>1. CASE Backup(p)
  BY <1>1, GotoMoves DEF Backup
<1>2. CASE WriteManifest(p)
  BY <1>2, GotoMoves DEF WriteManifest
<1>3. CASE StepFails(p)
  BY <1>3, GotoMoves DEF StepFails
<1>4. CASE RolledBack(p)
  BY <1>4, GotoMoves DEF RolledBack
<1>5. CASE RemoveBlock(p)
  BY <1>5, GotoMoves DEF RemoveBlock
<1> QED
  BY <1>1, <1>2, <1>3, <1>4, <1>5 DEF OnlyGoes
-----------------------------------------------------------------------------
(* Types and plans *)

LEMMA ProcFields ==
  ASSUME TypeOK, NEW p \in Procs
  PROVE  /\ proc[p] \in Processes /\ proc[p].next \in 1 .. Len(Order) + 1
         /\ proc[p].plan \in [Files -> Contents \cup {Absent}]
         /\ proc[p].read \in Contents \cup {Absent}
         /\ proc[p].applied \in Seq(Items) /\ Len(proc[p].applied) \in Nat
         /\ proc[p].complete \in BOOLEAN
<1>1. proc[p] \in Processes
  BY DEF TypeOK
<1>2. proc[p].applied \in Seq(Items)
  BY <1>1 DEF Processes, Items
<1> QED
  BY <1>1, <1>2 DEF Processes

LEMMA PlanStep ==
  ASSUME PlansInv, [Next]_vars, NEW q \in Procs
  PROVE  PlanInv(q)'
<1>1. /\ TypeOK /\ Len(Order) \in Nat \ {0}
      /\ \A p \in Procs : /\ PlanInv(p) /\ proc[p].next \in 1 .. Len(Order) + 1
                          /\ Len(proc[p].applied) \in Nat
  BY ProcFields, OrderFacts DEF PlansInv
<1>2. ASSUME proc'[q] = proc[q]
      PROVE  PlanInv(q)'
  BY <1>1, <1>2 DEF PlanInv
<1>3. ASSUME NEW p \in Procs, \A o \in Procs \ {p} : proc'[o] = proc[o], PlanInv(p)'
      PROVE  PlanInv(q)'
  BY <1>2, <1>3
<1>4. ASSUME NEW p \in Procs, BuildPlan(p) \/ Uninstall(p) \/ Crash(p) \/ PlanFails(p)
      PROVE  PlanInv(q)'
  <2>1. /\ proc'[p].pc \in {"plan", "remove", "idle"} /\ proc'[p].applied = <<>>
        /\ proc'[p].pc = "remove" => proc'[p].read # Absent
        /\ proc'[p].pc = "plan" => proc'[p].next = 1
        /\ \A o \in Procs \ {p} : proc'[o] = proc[o]
    BY <1>1, <1>4, ResetMoves
  <2> QED
    BY <1>1, <1>3, <2>1 DEF PlanInv
<1>5. ASSUME NEW p \in Procs, Check(p)
      PROVE  PlanInv(q)'
  <2>1. proc[p].next <= Len(Order) /\ proc'[p].applied = proc[p].applied
        /\ \A o \in Procs \ {p} : proc'[o] = proc[o]
    BY <1>1, <1>5, CheckMoves DEF Check
  <2>2. \/ proc'[p].pc = "check" /\ proc'[p].next = proc[p].next + 1
        \/ proc'[p].pc = "rollback" /\ proc'[p].next = proc[p].next
        \/ proc'[p].pc = "write" /\ proc'[p].next = proc[p].next
        \/ proc'[p].pc = "backup" /\ proc'[p].next = proc[p].next /\ proc'[p].read # Absent
    BY <1>1, <1>5, CheckMoves
  <2>3. \A i \in 1 .. Len(proc'[p].applied) :
          \E j \in 1 .. proc'[p].next - 1 : proc'[p].applied[i].file = Order[j]
    BY <1>1, <2>1, <2>2 DEF PlanInv
  <2>4. PlanInv(p)'
    BY <1>1, <2>1, <2>2, <2>3 DEF PlanInv
  <2> QED
    BY <1>3, <2>1, <2>4
<1>6. ASSUME NEW p \in Procs, Write(p)
      PROVE  PlanInv(q)'
  <2>1. /\ \A o \in Procs \ {p} : proc'[o] = proc[o]
        /\ proc'[p].pc = "check" /\ proc'[p].next = proc[p].next + 1
        /\ proc[p].pc = "write"
    BY <1>1, <1>6, WriteMoves DEF Write
  <2>2. PICK item \in Items : /\ item.file = Order[proc[p].next]
                              /\ proc'[p].applied = Append(proc[p].applied, item)
    BY <1>1, <1>6, WriteMoves DEF Change
  <2>3. /\ Len(proc'[p].applied) = Len(proc[p].applied) + 1
        /\ \A i \in 1 .. Len(proc[p].applied) : proc'[p].applied[i] = proc[p].applied[i]
        /\ proc'[p].applied[Len(proc[p].applied) + 1] = item
    BY <1>1, <2>2, AppendFacts, ProcFields
  <2>4. \A i \in 1 .. Len(proc'[p].applied) :
          \E j \in 1 .. proc'[p].next - 1 : proc'[p].applied[i].file = Order[j]
    <3> TAKE i \in 1 .. Len(proc'[p].applied)
    <3>1. proc[p].next \in 1 .. proc'[p].next - 1
      BY <1>1, <2>1
    <3>2. CASE i = Len(proc[p].applied) + 1
      BY <2>2, <2>3, <3>1, <3>2
    <3>3. CASE i \in 1 .. Len(proc[p].applied)
      <4>1. PICK j \in 1 .. proc[p].next - 1 : proc[p].applied[i].file = Order[j]
        BY <1>1, <3>3 DEF PlanInv
      <4>2. j \in 1 .. proc'[p].next - 1
        BY <1>1, <2>1
      <4> QED
        BY <2>3, <3>3, <4>1, <4>2
    <3> QED
      BY <1>1, <2>3, <3>2, <3>3
  <2>5. PlanInv(p)'
    BY <1>1, <2>1, <2>4 DEF PlanInv
  <2> QED
    BY <1>3, <2>1, <2>5
<1>7. ASSUME NEW p \in Procs, RollBack(p)
      PROVE  PlanInv(q)'
  <2>1. /\ proc'[p].pc = "rollback" /\ proc'[p].next = proc[p].next
        /\ proc'[p].applied = Front(proc[p].applied)
        /\ proc[p].applied \in Seq(Items) /\ proc[p].applied # <<>>
        /\ \A o \in Procs \ {p} : proc'[o] = proc[o]
    BY <1>1, <1>7, RollBackMoves
  <2>2. /\ Len(proc'[p].applied) = Len(proc[p].applied) - 1
        /\ \A i \in 1 .. Len(proc[p].applied) - 1 : proc'[p].applied[i] = proc[p].applied[i]
    BY <2>1, FrontFacts
  <2>3. \A i \in 1 .. Len(proc'[p].applied) :
          \E j \in 1 .. proc[p].next - 1 : proc[p].applied[i].file = Order[j]
    <3>1. \A i \in 1 .. Len(proc'[p].applied) : i \in 1 .. Len(proc[p].applied)
      BY <1>1, <2>2
    <3> QED
      BY <1>1, <3>1 DEF PlanInv
  <2>4. \A i \in 1 .. Len(proc'[p].applied) : proc'[p].applied[i] = proc[p].applied[i]
    BY <1>1, <2>2
  <2>5. PlanInv(p)'
    BY <2>1, <2>3, <2>4 DEF PlanInv
  <2> QED
    BY <1>3, <2>1, <2>5
<1>8. ASSUME NEW p \in Procs, OnlyGoes(p)
      PROVE  PlanInv(q)'
  <2>1. /\ \A o \in Procs \ {p} : proc'[o] = proc[o]
        /\ proc'[p].next = proc[p].next /\ proc'[p].applied = proc[p].applied
    BY <1>1, <1>8, GoesMoves
  <2>2. \/ proc[p].pc = "backup" /\ proc'[p].pc = "write"
        \/ proc[p].next > Len(Order) /\ proc'[p].pc = "ready"
        \/ proc'[p].pc \in {"rollback", "idle"}
        \/ proc'[p].pc = "failed" /\ proc[p].applied = <<>>
    BY <1>1, <1>8, GoesMoves DEF WriteManifest
  <2>3. PlanInv(p)'
    BY <1>1, <2>1, <2>2 DEF PlanInv
  <2> QED
    BY <1>3, <2>1, <2>3
<1>9. ASSUME UNCHANGED proc
      PROVE  PlanInv(q)'
  BY <1>2, <1>9
<1>10. ASSUME NEW p \in Procs, ReadBefore(p)
       PROVE  PlanInv(q)'
  <2>1. /\ proc'[p].applied = <<>> /\ \A o \in Procs \ {p} : proc'[o] = proc[o]
        /\ \/ proc'[p].pc = "plan" /\ proc'[p].next <= Len(Order)
           \/ proc'[p].pc = "check"
    BY <1>1, <1>10, ReadBeforeMoves
  <2> QED
    BY <1>3, <2>1 DEF PlanInv
<1> QED
  BY <1>4, <1>5, <1>6, <1>7, <1>8, <1>9, <1>10 DEF Next, UserSaves, vars, OnlyGoes

\* A process that writes f: the others will see that it was touched.
Writes(p, f, c) == /\ disk' = [disk EXCEPT ![f] = c]
                   /\ Touch(p, f)

LEMMA WritesFacts ==
  ASSUME TypeOK, NEW p \in Procs, NEW f \in Files, NEW c \in Contents \cup {Absent}, Writes(p, f, c)
  PROVE  /\ disk' \in [Files -> Contents \cup {Absent}] /\ disk'[f] = c
         /\ \A g \in Files \ {f} : disk'[g] = disk[g]
         /\ touched' \in [Procs -> SUBSET Files] /\ touched'[p] = touched[p]
         /\ \A q \in Procs \ {p} : touched'[q] = touched[q] \cup {f}
BY DEF TypeOK, Writes, Touch

\* What the steps of a process do to the files.
LEMMA DiskSteps ==
  ASSUME PlansInv, NEW p \in Procs
  PROVE  /\ Write(p) => Change(p) \in Files /\ Writes(p, Change(p), After(p, Change(p)))
                        /\ After(p, Change(p)) \in Contents
         /\ RollBack(p) =>
              LET item == Last(proc[p].applied)
              IN  /\ item.file \in Files /\ Restored(p, item) \in Contents \cup {Absent}
                  /\ Writes(p, item.file, Restored(p, item)) \/ UNCHANGED <<disk, touched>>
         /\ RemoveBlock(p) =>
              LET c == [proc[p].read EXCEPT !.block = FALSE]
              IN  /\ c \in Contents /\ c.user = proc[p].read.user
                  /\ Writes(p, Config, c) \/ UNCHANGED <<disk, touched>>
<1>1. TypeOK /\ PlanInv(p)
  BY DEF PlansInv
<1>2. Write(p) => Change(p) \in Files /\ Writes(p, Change(p), After(p, Change(p)))
                  /\ After(p, Change(p)) \in Contents
  BY <1>1, WriteMoves, AfterTyped DEF Write, Writes
<1>3. ASSUME RollBack(p)
      PROVE  LET item == Last(proc[p].applied)
             IN  /\ item.file \in Files /\ Restored(p, item) \in Contents \cup {Absent}
                 /\ Writes(p, item.file, Restored(p, item)) \/ UNCHANGED <<disk, touched>>
  <2> DEFINE item == Last(proc[p].applied)
  <2>1. item \in Items
    BY <1>1, <1>3, RollBackMoves
  <2>2. item.file \in Files
    BY <2>1 DEF Items
  <2>3. Restored(p, item) \in Contents \cup {Absent}
    BY <1>1, <2>2, AfterTyped DEF Restored
  <2>4. Writes(p, item.file, Restored(p, item)) \/ UNCHANGED <<disk, touched>>
    BY <1>1, <1>3, RollBackMoves DEF Writes
  <2> QED
    BY <2>2, <2>3, <2>4
<1>4. ASSUME RemoveBlock(p)
      PROVE  LET c == [proc[p].read EXCEPT !.block = FALSE]
             IN  /\ c \in Contents /\ c.user = proc[p].read.user
                 /\ Writes(p, Config, c) \/ UNCHANGED <<disk, touched>>
  <2>1. proc[p].read \in Contents
    BY <1>1, <1>4, ProcFields DEF RemoveBlock, PlanInv
  <2>2. /\ [proc[p].read EXCEPT !.block = FALSE] \in Contents
        /\ [proc[p].read EXCEPT !.block = FALSE].user = proc[p].read.user
    BY <2>1, ContentFacts
  <2> QED
    BY <1>4, <2>2 DEF RemoveBlock, Writes
<1> QED
  BY <1>2, <1>3, <1>4

LEMMA UserSavesFacts ==
  ASSUME TypeOK, NEW f \in Files, UserSaves(f)
  PROVE  /\ disk' \in [Files -> Contents \cup {Absent}] /\ disk'[f] # Absent
         /\ disk'[f].user = typed'[f] /\ typed' \in [Files -> Texts]
         /\ \A g \in Files \ {f} : disk'[g] = disk[g] /\ typed'[g] = typed[g]
         /\ touched' \in [Procs -> SUBSET Files]
         /\ \A p \in Procs : touched'[p] = touched[p] \cup {f}
         /\ UNCHANGED <<proc, backups>>
         /\ raced' \subseteq Files /\ \A g \in Files \ {f} : g \in raced' <=> g \in raced
         /\ f \notin raced' => \A p \in Procs : f \notin Window(p)
<1> DEFINE text == MaxEdits - budget.edits + 1
           c == [user |-> text, block |-> Bytes(disk[f]).block]
<1>1. /\ disk' = [disk EXCEPT ![f] = c] /\ typed' = [typed EXCEPT ![f] = text]
      /\ touched' = [p \in Procs |-> touched[p] \cup {f}]
      /\ raced' = IF \E p \in Procs : f \in Window(p) THEN raced \cup {f} ELSE raced \ {f}
      /\ UNCHANGED <<proc, backups>>
  BY DEF UserSaves, TypeOK
<1>2. text \in Texts
  <2>1. budget.edits \in 0 .. MaxEdits /\ budget.edits > 0 /\ MaxEdits \in Nat
    BY InstallerConstants DEF TypeOK, UserSaves, Spend
  <2> QED
    BY <2>1 DEF Texts
<1>3. Bytes(disk[f]).block \in BOOLEAN
  BY ContentFacts DEF TypeOK, Contents
<1>4. c \in Contents /\ c # Absent /\ c.user = text
  BY <1>2, <1>3, ContentFacts, InstallerConstants
<1> HIDE DEF c, text
<1> QED
  BY <1>1, <1>2, <1>4 DEF TypeOK

LEMMA TypeStep ==
  ASSUME PlansInv, [Next]_vars
  PROVE  TypeOK'
<1>1. TypeOK /\ \A p \in Procs : PlanInv(p)
  BY DEF PlansInv
<1>2. ASSUME NEW what \in {"runs", "edits", "fails", "crashes"}, Spend(what)
      PROVE  budget' \in [runs : Nat, edits : 0 .. MaxEdits, fails : Nat, crashes : Nat]
  BY <1>1, <1>2, InstallerConstants DEF TypeOK, Spend
<1>3. budget' \in [runs : Nat, edits : 0 .. MaxEdits, fails : Nat, crashes : Nat]
  <2>1. \/ UNCHANGED budget
        \/ \E what \in {"runs", "edits", "fails", "crashes"} : Spend(what)
    BY DEF Next, BuildPlan, ReadBefore, PlanFails, Check, Backup, Write, WriteManifest, StepFails,
           RollBack, RolledBack, Uninstall, RemoveBlock, Crash, UserSaves, vars
  <2> QED
    BY <1>1, <1>2, <2>1 DEF TypeOK
<1>4. proc' \in [Procs -> Processes]
  <2>1. ASSUME NEW p \in Procs, \/ BuildPlan(p) \/ Uninstall(p) \/ Crash(p) \/ Check(p)
                                \/ Write(p) \/ RollBack(p) \/ OnlyGoes(p)
                                \/ ReadBefore(p) \/ PlanFails(p)
        PROVE  proc' \in [Procs -> Processes]
    BY <2>1, <1>1, ResetMoves, ReadBeforeMoves, CheckMoves, WriteMoves, RollBackMoves, GoesMoves
  <2>2. UNCHANGED proc => proc' \in [Procs -> Processes]
    BY <1>1 DEF TypeOK
  <2> QED
    BY <2>1, <2>2 DEF Next, UserSaves, vars, OnlyGoes
<1>5. /\ disk' \in [Files -> Contents \cup {Absent}] /\ touched' \in [Procs -> SUBSET Files]
      /\ typed' \in [Files -> Texts] /\ raced' \subseteq Files
  <2>1. CASE UNCHANGED <<disk, typed, raced>> /\ \E p \in Procs : BuildPlan(p) \/ ReadBefore(p)
    BY <1>1, <2>1 DEF BuildPlan, ReadBefore, TypeOK
  <2>2. CASE UNCHANGED <<disk, touched, typed, raced>>
    BY <1>1, <2>2 DEF TypeOK
  <2>3. ASSUME NEW p \in Procs, NEW f \in Files, NEW c \in Contents \cup {Absent},
               Writes(p, f, c), UNCHANGED <<typed, raced>>
        PROVE  /\ disk' \in [Files -> Contents \cup {Absent}] /\ touched' \in [Procs -> SUBSET Files]
               /\ typed' \in [Files -> Texts] /\ raced' \subseteq Files
    BY <1>1, <2>3, WritesFacts DEF TypeOK
  <2>4. CASE \E p \in Procs : Write(p) \/ RollBack(p) \/ RemoveBlock(p)
    <3>1. PICK p \in Procs : Write(p) \/ RollBack(p) \/ RemoveBlock(p)
      BY <2>4
    <3>2. UNCHANGED <<typed, raced>> /\ Config \in Files
      BY <3>1, InstallerConstants DEF Write, RollBack, RemoveBlock
    <3>3. \/ UNCHANGED <<disk, touched>>
          \/ \E f \in Files, c \in Contents \cup {Absent} : Writes(p, f, c)
      BY <3>1, <3>2, DiskSteps
    <3> QED
      BY <2>2, <2>3, <3>2, <3>3
  <2>5. CASE \E f \in Files : UserSaves(f)
    BY <1>1, <2>5, UserSavesFacts
  <2> QED
    BY <2>1, <2>2, <2>4, <2>5
    DEF Next, BuildPlan, ReadBefore, PlanFails, Check, Backup, WriteManifest, StepFails, RolledBack,
        Uninstall, Crash, vars
<1>6. backups' \subseteq [file : Files, content : Contents]
  <2>1. CASE UNCHANGED backups
    BY <1>1, <2>1 DEF TypeOK
  <2>2. ASSUME NEW p \in Procs, Backup(p)
        PROVE  backups' \subseteq [file : Files, content : Contents]
    <3>1. proc[p].next \in 1 .. Len(Order) + 1 /\ proc[p].next <= Len(Order) /\ Len(Order) \in Nat
          /\ proc[p].read \in Contents
      BY <1>1, <2>2, ProcFields, OrderFacts DEF Backup, PlanInv
    <3>2. Change(p) \in Files
      BY <3>1, OrderFacts DEF Change
    <3> QED
      BY <1>1, <2>2, <3>1, <3>2 DEF Backup, TypeOK
  <2> QED
    BY <2>1, <2>2 DEF Next, BuildPlan, ReadBefore, PlanFails, Check, Write, WriteManifest, StepFails, RollBack, RolledBack,
                      Uninstall, RemoveBlock, Crash, UserSaves, vars
<1> QED
  BY <1>3, <1>4, <1>5, <1>6 DEF TypeOK
-----------------------------------------------------------------------------
(* What a setup leaves *)

\* A process that does not move, while others write.
LEMMA OthersKept ==
  ASSUME NEW q \in Procs, DoneInv(q), UndoInv(q), proc'[q] = proc[q],
         Len(Order) \in Nat, \A i \in 1 .. Len(Order) : Order[i] \in Files,
         proc[q].next \in 1 .. Len(Order) + 1,
         touched[q] \subseteq touched'[q],
         \A f \in Files : disk'[f] = disk[f] \/ f \in touched'[q]
  PROVE  DoneInv(q)' /\ UndoInv(q)'
<1>1. \A f \in Files : After(q, f)' = After(q, f)
  BY DEF After, Before
<1>2. AppliedFiles(q)' = AppliedFiles(q) /\ Change(q)' = Change(q)
  BY DEF AppliedFiles, Change
<1>3. \A j \in 1 .. proc[q].next - 1 : Order[j] \in Files
  OBVIOUS
<1>4. DoneInv(q)'
  BY <1>1, <1>3 DEF DoneInv
<1>5. UndoInv(q)'
  <2>1. ReadPlanned(q) => ReadPlanned(q)'
    BY <1>2 DEF ReadPlanned
  <2>2. AppliedPlanned(q) => AppliedPlanned(q)'
    BY DEF AppliedPlanned
  <2>3. RestPlanned(q) => RestPlanned(q)'
    BY <1>2 DEF RestPlanned
  <2> QED
    BY <2>1, <2>2, <2>3 DEF UndoInv
<1> QED
  BY <1>4, <1>5

\* The file whose turn it is has not been applied yet.
LEMMA ChangeIsNew ==
  ASSUME TypeOK, NEW p \in Procs, PlanInv(p), proc[p].next <= Len(Order)
  PROVE  /\ Change(p) \in Files /\ Change(p) \notin AppliedFiles(p)
         /\ \A j \in 1 .. proc[p].next - 1 : Order[j] \in Files \ {Change(p)}
<1>1. /\ proc[p].next \in 1 .. Len(Order) /\ Len(Order) \in Nat
      /\ Change(p) = Order[proc[p].next]
  BY ProcFields, OrderFacts DEF Change
<1>2. \A j \in 1 .. proc[p].next - 1 : j \in 1 .. Len(Order) /\ j # proc[p].next
  BY <1>1
<1>3. \A j \in 1 .. proc[p].next - 1 : Order[j] \in Files \ {Change(p)}
  BY <1>1, <1>2, OrderFacts
<1> QED
  <2>1. Change(p) \in Files
    BY <1>1, OrderFacts
  <2>2. \A i \in 1 .. Len(proc[p].applied) : proc[p].applied[i].file # Change(p)
    BY <1>3 DEF PlanInv
  <2>3. Change(p) \notin AppliedFiles(p)
    BY <2>2 DEF AppliedFiles
  <2> QED
    BY <1>3, <2>1, <2>3

\* What was read for a plan, over every step.
LEMMA ReadStep ==
  ASSUME PlansInv, UndosInv, [Next]_vars, NEW q \in Procs
  PROVE  ReadInv(q)'
<1>1. /\ TypeOK /\ Len(Order) \in Nat
      /\ \A i \in 1 .. Len(Order) : Order[i] \in Files
      /\ \A p \in Procs : /\ PlanInv(p) /\ ReadInv(p)
                          /\ proc[p].next \in 1 .. Len(Order) + 1
  BY ProcFields, OrderFacts DEF PlansInv, UndosInv
<1>2. ASSUME proc'[q] = proc[q], touched[q] \subseteq touched'[q],
             \A f \in Files : disk'[f] = disk[f] \/ f \in touched'[q]
      PROVE  ReadInv(q)'
  <2>1. \A j \in 1 .. proc[q].next - 1 : Order[j] \in Files
    BY <1>1
  <2> QED
    BY <1>1, <1>2, <2>1 DEF ReadInv
<1>3. ASSUME NEW p \in Procs, NEW f \in Files, NEW c \in Contents \cup {Absent},
             Writes(p, f, c), q # p, proc'[q] = proc[q]
      PROVE  ReadInv(q)'
  BY <1>1, <1>2, <1>3, WritesFacts
<1>4. ASSUME NEW p \in Procs, BuildPlan(p)
      PROVE  ReadInv(q)'
  <2>1. /\ disk' = disk /\ touched' = [touched EXCEPT ![p] = {}]
        /\ \A o \in Procs \ {p} : proc'[o] = proc[o]
        /\ proc'[p].next = 1
    BY <1>1, <1>4, ResetMoves DEF BuildPlan
  <2>2. CASE q # p
    BY <1>1, <1>2, <2>1, <2>2 DEF TypeOK
  <2>3. CASE q = p
    BY <2>1, <2>3 DEF ReadInv
  <2> QED
    BY <2>2, <2>3
<1>5. ASSUME NEW p \in Procs, ReadBefore(p)
      PROVE  ReadInv(q)'
  <2> DEFINE f == Change(p)
  <2>1. /\ disk' = disk /\ touched' = [touched EXCEPT ![p] = touched[p] \ {f}]
        /\ \A o \in Procs \ {p} : proc'[o] = proc[o]
        /\ f \in Files /\ f = Order[proc[p].next] /\ proc[p].next \in 1 .. Len(Order)
        /\ proc'[p].plan = [proc[p].plan EXCEPT ![f] = disk[f]]
        /\ proc'[p].pc = "plan" => proc'[p].next = proc[p].next + 1
        /\ proc[p].pc = "plan"
    BY <1>1, <1>5, ReadBeforeMoves DEF ReadBefore
  <2>2. CASE q # p
    BY <1>1, <1>2, <2>1, <2>2 DEF TypeOK
  <2>3. CASE q = p
    <3>1. proc[p].plan \in [Files -> Contents \cup {Absent}]
      BY <1>1, ProcFields
    <3>2. proc'[p].pc = "plan" => 1 .. proc'[p].next - 1 = 1 .. proc[p].next
      BY <1>1, <2>1
    <3>3. SUFFICES ASSUME proc'[p].pc = "plan", NEW j \in 1 .. proc[p].next
                   PROVE  \/ Order[j] \in touched'[p]
                          \/ disk[Order[j]] = proc'[p].plan[Order[j]]
      BY <2>1, <2>3, <3>2 DEF ReadInv
    <3>4. Order[j] \in Files /\ touched'[p] = touched[p] \ {f}
      BY <1>1, <2>1 DEF TypeOK
    <3>5. CASE Order[j] = f
      BY <2>1, <3>1, <3>5
    <3>6. CASE Order[j] # f
      <4>1. j \in 1 .. proc[p].next - 1
        BY <1>1, <2>1, <3>6
      <4>2. Order[j] \in touched[p] \/ disk[Order[j]] = proc[p].plan[Order[j]]
        BY <1>1, <2>1, <4>1 DEF ReadInv
      <4> QED
        BY <2>1, <3>1, <3>4, <3>6, <4>2
    <3> QED
      BY <3>5, <3>6
  <2> QED
    BY <2>2, <2>3
<1>6. ASSUME NEW p \in Procs, \/ Uninstall(p) \/ Crash(p) \/ PlanFails(p) \/ Check(p)
                               \/ Backup(p) \/ WriteManifest(p) \/ StepFails(p) \/ RolledBack(p)
      PROVE  ReadInv(q)'
  <2>1. UNCHANGED <<disk, touched>>
    BY <1>6 DEF Uninstall, Crash, PlanFails, Check, Backup, WriteManifest, StepFails, RolledBack
  <2>2. /\ \A o \in Procs \ {p} : proc'[o] = proc[o]
        /\ proc'[p].pc # "plan"
    <3>1. CASE Uninstall(p) \/ Crash(p) \/ PlanFails(p)
      BY <1>1, <3>1, ResetMoves
    <3>2. CASE Check(p)
      BY <1>1, <3>2, CheckMoves
    <3>3. CASE OnlyGoes(p)
      BY <1>1, <3>3, GoesMoves
    <3> QED
      BY <1>6, <3>1, <3>2, <3>3 DEF OnlyGoes
  <2> QED
    BY <1>2, <2>1, <2>2 DEF ReadInv
<1>7. ASSUME NEW p \in Procs, Write(p) \/ RollBack(p) \/ RemoveBlock(p)
      PROVE  ReadInv(q)'
  <2>1. /\ \A o \in Procs \ {p} : proc'[o] = proc[o]
        /\ proc'[p].pc # "plan"
    <3>1. CASE Write(p)
      BY <1>1, <3>1, WriteMoves
    <3>2. CASE RollBack(p)
      BY <1>1, <3>2, RollBackMoves
    <3>3. CASE RemoveBlock(p)
      BY <1>1, <3>3, GoesMoves DEF OnlyGoes
    <3> QED
      BY <1>7, <3>1, <3>2, <3>3
  <2>2. \/ UNCHANGED <<disk, touched>>
        \/ \E f \in Files, c \in Contents \cup {Absent} : Writes(p, f, c)
    BY <1>7, DiskSteps, InstallerConstants
  <2>3. CASE q # p
    BY <1>2, <1>3, <2>1, <2>2, <2>3
  <2> QED
    BY <2>1, <2>3 DEF ReadInv
<1>8. ASSUME NEW f \in Files, UserSaves(f)
      PROVE  ReadInv(q)'
  BY <1>1, <1>2, <1>8, UserSavesFacts
<1>9. ASSUME UNCHANGED vars
      PROVE  ReadInv(q)'
  BY <1>2, <1>9 DEF vars
<1> QED
  BY <1>4, <1>5, <1>6, <1>7, <1>8, <1>9 DEF Next

LEMMA UndosStep ==
  ASSUME PlansInv, UndosInv, [Next]_vars, NEW q \in Procs
  PROVE  DoneInv(q)' /\ UndoInv(q)'
<1>1. /\ TypeOK /\ Len(Order) \in Nat /\ \A i \in 1 .. Len(Order) : Order[i] \in Files
      /\ \A p \in Procs : /\ PlanInv(p) /\ ReadInv(p) /\ DoneInv(p) /\ UndoInv(p)
                          /\ proc[p].next \in 1 .. Len(Order) + 1
                          /\ Len(proc[p].applied) \in Nat
  BY ProcFields, OrderFacts DEF PlansInv, UndosInv
<1>2. ASSUME proc'[q] = proc[q], touched[q] \subseteq touched'[q],
             \A f \in Files : disk'[f] = disk[f] \/ f \in touched'[q]
      PROVE  DoneInv(q)' /\ UndoInv(q)'
  BY <1>1, <1>2, OthersKept
<1>3. ASSUME NEW p \in Procs, NEW f \in Files, NEW c \in Contents \cup {Absent},
             Writes(p, f, c), q # p, proc'[q] = proc[q]
      PROVE  DoneInv(q)' /\ UndoInv(q)'
  BY <1>1, <1>2, <1>3, WritesFacts
<1>4. ASSUME NEW p \in Procs, BuildPlan(p)
      PROVE  DoneInv(q)' /\ UndoInv(q)'
  <2>1. /\ disk' = disk /\ touched' = [touched EXCEPT ![p] = {}]
        /\ \A o \in Procs \ {p} : proc'[o] = proc[o]
        /\ proc'[p].pc = "plan"
    BY <1>1, <1>4, ResetMoves DEF BuildPlan
  <2>2. CASE q # p
    BY <1>1, <1>2, <2>1, <2>2 DEF TypeOK
  <2>3. CASE q = p
    BY <2>1, <2>3 DEF DoneInv, UndoInv
  <2> QED
    BY <2>2, <2>3
<1>5. ASSUME NEW p \in Procs, Uninstall(p) \/ Crash(p) \/ PlanFails(p)
      PROVE  DoneInv(q)' /\ UndoInv(q)'
  <2>1. /\ UNCHANGED <<disk, touched>> /\ proc'[p].pc \in {"remove", "idle"}
        /\ \A o \in Procs \ {p} : proc'[o] = proc[o]
    BY <1>1, <1>5, ResetMoves DEF Uninstall, Crash, PlanFails
  <2> QED
    BY <1>2, <2>1 DEF DoneInv, UndoInv
<1>6. ASSUME NEW p \in Procs, Check(p)
      PROVE  DoneInv(q)' /\ UndoInv(q)'
  <2> DEFINE f == Change(p)
  <2>1. /\ UNCHANGED <<disk, touched>> /\ proc[p].pc = "check" /\ proc[p].next <= Len(Order)
        /\ \A o \in Procs \ {p} : proc'[o] = proc[o]
    BY <1>1, <1>6, CheckMoves DEF Check
  <2>2. CASE q # p
    BY <1>2, <2>1, <2>2
  <2>3. CASE q = p
    <3>1. /\ f \in Files /\ f \notin AppliedFiles(p) /\ f = Order[proc[p].next]
          /\ \A j \in 1 .. proc[p].next - 1 : Order[j] \in Files
      BY <1>1, <2>1, ChangeIsNew DEF Change
    <3>2. /\ proc'[p].plan = proc[p].plan /\ proc'[p].applied = proc[p].applied
          /\ proc'[p].complete = proc[p].complete /\ proc'[p].read = disk[f]
          /\ \/ proc'[p].pc = "check" /\ proc'[p].next = proc[p].next + 1 /\ disk[f] = After(p, f)
             \/ proc'[p].pc \in {"rollback", "write", "backup"} /\ proc'[p].next = proc[p].next
      BY <1>1, <1>6, CheckMoves
    <3>3. /\ \A g \in Files : After(p, g)' = After(p, g)
          /\ AppliedFiles(p)' = AppliedFiles(p)
      BY <3>2 DEF After, Before, AppliedFiles
    <3>4. DoneInv(p)'
      BY <1>1, <2>1, <3>1, <3>2, <3>3 DEF DoneInv
    <3>5. proc'[p].pc # "check" => Change(p)' = f
      BY <3>2 DEF Change
    <3>6. UndoInv(p)'
      <4>1. ASSUME proc[p].complete
            PROVE  ReadPlanned(p)' /\ AppliedPlanned(p)' /\ RestPlanned(p)'
        <5>1. AppliedPlanned(p) /\ RestPlanned(p)
          BY <1>1, <2>1, <4>1 DEF UndoInv
        <5>2. ReadPlanned(p)'
          BY <2>1, <3>1, <3>2, <3>5, <5>1 DEF ReadPlanned, RestPlanned
        <5>3. AppliedPlanned(p)'
          BY <2>1, <3>2, <5>1 DEF AppliedPlanned
        <5>4. RestPlanned(p)'
          BY <2>1, <3>2, <3>3, <5>1 DEF RestPlanned
        <5> QED
          BY <5>2, <5>3, <5>4
      <4> QED
        BY <3>2, <4>1 DEF UndoInv
    <3> QED
      BY <2>3, <3>4, <3>6
  <2> QED
    BY <2>2, <2>3
<1>7. ASSUME NEW p \in Procs, Write(p)
      PROVE  DoneInv(q)' /\ UndoInv(q)'
  <2> DEFINE f == Change(p)
             item == [file |-> f, was |-> proc[p].read]
  <2>1. /\ Writes(p, f, After(p, f)) /\ After(p, f) \in Contents
        /\ proc[p].pc = "write" /\ proc[p].next <= Len(Order)
        /\ \A o \in Procs \ {p} : proc'[o] = proc[o]
    BY <1>1, <1>7, DiskSteps, WriteMoves DEF Write, PlanInv
  <2>2. /\ f \in Files /\ f = Order[proc[p].next]
        /\ \A j \in 1 .. proc[p].next - 1 : Order[j] \in Files \ {f}
    BY <1>1, <2>1, ChangeIsNew DEF Change
  <2>3. CASE q # p
    BY <1>3, <2>1, <2>2, <2>3
  <2>4. CASE q = p
    <3>1. /\ proc'[p].plan = proc[p].plan /\ item \in Items
          /\ proc'[p].applied = Append(proc[p].applied, item)
          /\ proc'[p].complete = proc[p].complete /\ proc'[p].pc = "check"
          /\ proc'[p].next = proc[p].next + 1
      BY <1>1, <1>7, WriteMoves
    <3>2. /\ disk'[f] = After(p, f) /\ \A g \in Files \ {f} : disk'[g] = disk[g]
          /\ touched'[p] = touched[p]
      BY <1>1, <2>1, <2>2, WritesFacts
    <3>3. \A g \in Files : After(p, g)' = After(p, g)
      BY <3>1 DEF After, Before
    <3>4. DoneInv(p)'
      <4> SUFFICES ASSUME NEW j \in 1 .. proc'[p].next - 1
                   PROVE  Order[j] \in touched'[p] \/ disk'[Order[j]] = After(p, Order[j])'
        BY DEF DoneInv
      <4>1. CASE j = proc[p].next
        BY <2>2, <3>2, <3>3, <4>1
      <4>2. CASE j \in 1 .. proc[p].next - 1
        BY <1>1, <2>1, <2>2, <3>2, <3>3, <4>2 DEF DoneInv
      <4> QED
        BY <1>1, <3>1, <4>1, <4>2
    <3>5. /\ Len(proc'[p].applied) = Len(proc[p].applied) + 1
          /\ \A i \in 1 .. Len(proc[p].applied) : proc'[p].applied[i] = proc[p].applied[i]
          /\ proc'[p].applied[Len(proc[p].applied) + 1] = item
      BY <1>1, <3>1, AppendFacts, ProcFields
    <3>6. AppliedFiles(p) \cup {f} \subseteq AppliedFiles(p)'
      <4>1. f \in AppliedFiles(p)'
        <5>1. Len(proc'[p].applied) \in 1 .. Len(proc'[p].applied)
              /\ proc'[p].applied[Len(proc'[p].applied)].file = f
          BY <1>1, <3>5
        <5> QED
          BY <5>1 DEF AppliedFiles
      <4>2. \A i \in 1 .. Len(proc[p].applied) : i \in 1 .. Len(proc'[p].applied)
        BY <1>1, <3>5
      <4>3. AppliedFiles(p) \subseteq AppliedFiles(p)'
        BY <3>5, <4>2 DEF AppliedFiles
      <4> QED
        BY <4>1, <4>3
    <3>7. ASSUME proc[p].complete
          PROVE  ReadPlanned(p)' /\ AppliedPlanned(p)' /\ RestPlanned(p)'
      <4>1. ReadPlanned(p) /\ AppliedPlanned(p) /\ RestPlanned(p)
        BY <1>1, <2>1, <3>7 DEF UndoInv
      <4>2. f \in touched[p] \/ proc[p].read = proc[p].plan[f]
        BY <2>1, <4>1 DEF ReadPlanned
      <4>3. AppliedPlanned(p)'
        <5> SUFFICES ASSUME NEW i \in 1 .. Len(proc'[p].applied)
                     PROVE  LET made == proc'[p].applied[i]
                            IN  made.file \in touched[p] \/ made.was = proc[p].plan[made.file]
          BY <3>1, <3>2 DEF AppliedPlanned
        <5>1. CASE i = Len(proc[p].applied) + 1
          BY <3>5, <4>2, <5>1
        <5>2. CASE i \in 1 .. Len(proc[p].applied)
          BY <3>5, <4>1, <5>2 DEF AppliedPlanned
        <5>3. i = Len(proc[p].applied) + 1 \/ i \in 1 .. Len(proc[p].applied)
          BY <1>1, <3>5
        <5> QED
          BY <5>1, <5>2, <5>3
      <4>4. RestPlanned(p)'
        BY <3>1, <3>2, <3>6, <4>1 DEF RestPlanned
      <4>5. ReadPlanned(p)'
        BY <3>1 DEF ReadPlanned
      <4> QED
        BY <4>3, <4>4, <4>5
    <3>8. UndoInv(p)'
      BY <3>1, <3>7 DEF UndoInv
    <3> QED
      BY <2>4, <3>4, <3>8
  <2> QED
    BY <2>3, <2>4
<1>8. ASSUME NEW p \in Procs, RollBack(p)
      PROVE  DoneInv(q)' /\ UndoInv(q)'
  <2> DEFINE s == proc[p].applied
             item == Last(s)
  <2>1. /\ \A o \in Procs \ {p} : proc'[o] = proc[o]
        /\ s \in Seq(Items) /\ s # <<>>
        /\ proc'[p].plan = proc[p].plan /\ proc'[p].applied = Front(s)
        /\ proc[p].pc = "rollback" /\ proc'[p].pc = "rollback"
        /\ \/ proc'[p].complete = proc[p].complete /\ Writes(p, item.file, Restored(p, item))
           \/ ~proc'[p].complete /\ UNCHANGED <<disk, touched>>
    BY <1>1, <1>8, RollBackMoves DEF Writes
  <2>2. item.file \in Files /\ Restored(p, item) \in Contents \cup {Absent}
    BY <1>8, DiskSteps
  <2>3. CASE q # p
    BY <1>2, <1>3, <2>1, <2>2, <2>3
  <2>4. CASE q = p
    <3>1. DoneInv(p)'
      BY <2>1 DEF DoneInv
    <3>2. CASE ~proc'[p].complete
      BY <2>4, <3>1, <3>2 DEF UndoInv
    <3>3. CASE proc'[p].complete
      <4>1. proc[p].complete /\ Writes(p, item.file, Restored(p, item))
        BY <2>1, <3>3
      <4>2. /\ disk'[item.file] = Restored(p, item)
            /\ \A g \in Files \ {item.file} : disk'[g] = disk[g]
            /\ touched'[p] = touched[p]
        BY <1>1, <2>2, <4>1, WritesFacts
      <4>3. /\ Len(s) \in Nat \ {0} /\ item = s[Len(s)] /\ Len(proc'[p].applied) = Len(s) - 1
            /\ \A i \in 1 .. Len(s) - 1 : proc'[p].applied[i] = s[i]
        BY <2>1, FrontFacts
      <4>4. item.file \in touched[p] \/ item.was = proc[p].plan[item.file]
        <5>1. AppliedPlanned(p)
          BY <1>1, <2>1, <4>1 DEF UndoInv
        <5>2. Len(s) \in 1 .. Len(s)
          BY <4>3
        <5> QED
          BY <4>3, <5>1, <5>2 DEF AppliedPlanned
      <4>5. item.was = proc[p].plan[item.file] => Restored(p, item) = proc[p].plan[item.file]
        BY <1>1, <2>2, AfterTyped DEF Restored
      <4>6. AppliedFiles(p) \subseteq AppliedFiles(p)' \cup {item.file}
        BY <4>3 DEF AppliedFiles
      <4>7. UndoInv(p)'
        <5>1. AppliedPlanned(p) /\ RestPlanned(p)
          BY <1>1, <2>1, <4>1 DEF UndoInv
        <5>2. AppliedPlanned(p)'
          <6>1. \A i \in 1 .. Len(proc'[p].applied) : i \in 1 .. Len(s)
            BY <4>3
          <6> QED
            BY <2>1, <4>2, <4>3, <5>1, <6>1 DEF AppliedPlanned
        <5>3. RestPlanned(p)'
          BY <2>1, <2>2, <4>2, <4>4, <4>5, <4>6, <5>1 DEF RestPlanned
        <5>4. ReadPlanned(p)'
          BY <2>1 DEF ReadPlanned
        <5> QED
          BY <5>2, <5>3, <5>4 DEF UndoInv
      <4> QED
        BY <2>4, <3>1, <4>7
    <3> QED
      BY <3>2, <3>3
  <2> QED
    BY <2>3, <2>4
<1>9. ASSUME NEW p \in Procs, RemoveBlock(p)
      PROVE  DoneInv(q)' /\ UndoInv(q)'
  <2>1. proc'[p].pc = "idle" /\ \A o \in Procs \ {p} : proc'[o] = proc[o]
    BY <1>1, <1>9, GoesMoves DEF OnlyGoes, RemoveBlock, Backup, WriteManifest, StepFails, RolledBack
  <2>2. \/ UNCHANGED <<disk, touched>>
        \/ \E c \in Contents : Writes(p, Config, c)
    BY <1>9, DiskSteps
  <2>3. CASE q # p
    BY <1>2, <1>3, <2>1, <2>2, <2>3, InstallerConstants
  <2>4. CASE q = p
    BY <2>1, <2>4 DEF DoneInv, UndoInv
  <2> QED
    BY <2>3, <2>4
<1>10. ASSUME NEW p \in Procs, Backup(p) \/ WriteManifest(p) \/ StepFails(p) \/ RolledBack(p)
       PROVE  DoneInv(q)' /\ UndoInv(q)'
  <2>1. /\ UNCHANGED <<disk, touched>>
        /\ \A o \in Procs \ {p} : proc'[o] = proc[o]
        /\ proc'[p].plan = proc[p].plan /\ proc'[p].next = proc[p].next
        /\ proc'[p].read = proc[p].read /\ proc'[p].applied = proc[p].applied
        /\ proc'[p].complete = proc[p].complete
        /\ \/ proc[p].pc = "backup" /\ proc'[p].pc = "write"
           \/ proc[p].pc = "check" /\ proc'[p].pc = "ready"
           \/ proc[p].pc \in {"check", "backup", "write"} /\ proc'[p].pc = "rollback"
           \/ proc[p].pc = "rollback" /\ proc'[p].pc = "failed"
    BY <1>1, <1>10, GoesMoves DEF OnlyGoes, RemoveBlock, Backup, WriteManifest, StepFails, RolledBack
  <2>2. CASE q # p
    BY <1>2, <2>1, <2>2
  <2>3. CASE q = p
    <3>1. /\ \A g \in Files : After(p, g)' = After(p, g)
          /\ AppliedFiles(p)' = AppliedFiles(p) /\ Change(p)' = Change(p)
      BY <2>1 DEF After, Before, AppliedFiles, Change
    <3>2. DoneInv(p)'
      <4>1. \A j \in 1 .. proc[p].next - 1 : Order[j] \in Files
        BY <1>1
      <4> QED
        BY <1>1, <2>1, <3>1, <4>1 DEF DoneInv
    <3>3. UndoInv(p)'
      <4>1. ASSUME proc[p].complete
            PROVE  ReadPlanned(p)' /\ AppliedPlanned(p)' /\ RestPlanned(p)'
        <5>1. ReadPlanned(p) /\ AppliedPlanned(p) /\ RestPlanned(p)
          BY <1>1, <2>1, <4>1 DEF UndoInv
        <5>2. ReadPlanned(p)'
          BY <2>1, <3>1, <5>1 DEF ReadPlanned
        <5>3. AppliedPlanned(p)'
          BY <2>1, <5>1 DEF AppliedPlanned
        <5>4. RestPlanned(p)'
          BY <2>1, <3>1, <5>1 DEF RestPlanned
        <5> QED
          BY <5>2, <5>3, <5>4
      <4> QED
        BY <2>1, <4>1 DEF UndoInv
    <3> QED
      BY <2>3, <3>2, <3>3
  <2> QED
    BY <2>2, <2>3
<1>11. ASSUME NEW f \in Files, UserSaves(f)
       PROVE  DoneInv(q)' /\ UndoInv(q)'
  BY <1>1, <1>2, <1>11, UserSavesFacts
<1>12. ASSUME UNCHANGED vars
       PROVE  DoneInv(q)' /\ UndoInv(q)'
  BY <1>2, <1>12 DEF vars
<1>13. ASSUME NEW p \in Procs, ReadBefore(p)
       PROVE  DoneInv(q)' /\ UndoInv(q)'
  <2> DEFINE f == Change(p)
  <2>1. /\ disk' = disk /\ touched' = [touched EXCEPT ![p] = touched[p] \ {f}]
        /\ \A o \in Procs \ {p} : proc'[o] = proc[o]
        /\ f \in Files /\ f = Order[proc[p].next]
        /\ proc'[p].plan = [proc[p].plan EXCEPT ![f] = disk[f]] /\ proc'[p].applied = <<>>
        /\ \/ proc'[p].pc = "plan"
           \/ proc'[p].pc = "check" /\ proc'[p].next = 1 /\ proc[p].next = Len(Order)
        /\ proc[p].pc = "plan"
    BY <1>1, <1>13, ReadBeforeMoves DEF ReadBefore
  <2>2. CASE q # p
    BY <1>1, <1>2, <2>1, <2>2 DEF TypeOK
  <2>3. CASE q = p /\ proc'[p].pc = "plan"
    BY <2>3 DEF DoneInv, UndoInv
  <2>4. CASE q = p /\ proc'[p].pc = "check"
    <3>1. DoneInv(p)' /\ ReadPlanned(p)' /\ AppliedPlanned(p)'
      BY <2>1, <2>4 DEF DoneInv, ReadPlanned, AppliedPlanned
    <3>2. RestPlanned(p)'
      <4>1. proc[p].plan \in [Files -> Contents \cup {Absent}]
        BY <1>1, ProcFields
      <4>2. SUFFICES ASSUME NEW g \in Files
                     PROVE  g \in touched'[p] \/ disk[g] = proc'[p].plan[g]
        BY <2>1 DEF RestPlanned
      <4>3. CASE g = f
        BY <2>1, <4>1, <4>3
      <4>4. CASE g # f
        <5>1. PICK j \in 1 .. Len(Order) : g = Order[j]
          BY OrderFacts
        <5>2. j \in 1 .. proc[p].next - 1
          BY <1>1, <2>1, <2>4, <4>4, <5>1
        <5>3. g \in touched[p] \/ disk[g] = proc[p].plan[g]
          BY <1>1, <2>1, <5>1, <5>2 DEF ReadInv
        <5>4. touched'[p] = touched[p] \ {f}
          BY <1>1, <2>1 DEF TypeOK
        <5> QED
          BY <2>1, <4>1, <4>4, <5>3, <5>4
      <4> QED
        BY <4>3, <4>4
    <3> QED
      BY <2>4, <3>1, <3>2 DEF UndoInv
  <2> QED
    BY <2>1, <2>2, <2>3, <2>4
<1> QED
  BY <1>4, <1>5, <1>6, <1>7, <1>8, <1>9, <1>10, <1>11, <1>12, <1>13 DEF Next
-----------------------------------------------------------------------------
(* What becomes of the user's texts *)

\* Nothing that holds a text of the user's is written over before it is saved.
LEMMA SavedStays ==
  ASSUME backups \subseteq backups', UNCHANGED typed, NEW f, Saved(f)
  PROVE  Saved(f)'
BY DEF Saved

LEMMA KeptMeans ==
  ASSUME NEW f
  PROVE  /\ Kept(f) <=> Saved(f) \/ (disk[f] # Absent /\ disk[f].user = typed[f])
BY DEF Kept, Saved

\* A process that does not move while the user types nothing.
LEMMA OthersKeep ==
  ASSUME NEW q \in Procs, KeepInv(q), proc'[q] = proc[q], UNCHANGED <<typed, raced>>,
         backups \subseteq backups'
  PROVE  KeepInv(q)'
<1>1. AppliedFiles(q)' = AppliedFiles(q) /\ Change(q)' = Change(q)
  BY DEF AppliedFiles, Change
<1>2. \A f : Saved(f) => Saved(f)'
  BY SavedStays
<1> QED
  BY <1>1, <1>2 DEF KeepInv

LEMMA KeepStep ==
  ASSUME PlansInv, KeptInv, [Next]_vars, NEW q \in Procs
  PROVE  KeepInv(q)'
<1>1. /\ TypeOK /\ Len(Order) \in Nat
      /\ \A p \in Procs : /\ PlanInv(p) /\ KeepInv(p)
                          /\ proc[p].next \in 1 .. Len(Order) + 1
                          /\ Len(proc[p].applied) \in Nat
  BY ProcFields, OrderFacts DEF PlansInv, KeptInv
<1>2. ASSUME proc'[q] = proc[q], UNCHANGED <<typed, raced>>, backups \subseteq backups'
      PROVE  KeepInv(q)'
  BY <1>1, <1>2, OthersKeep
<1>3. ASSUME NEW p \in Procs, BuildPlan(p) \/ ReadBefore(p) \/ PlanFails(p) \/ Crash(p)
      PROVE  KeepInv(q)'
  <2>1. /\ proc'[p].pc \in {"plan", "check", "idle"} /\ proc'[p].applied = <<>>
        /\ \A o \in Procs \ {p} : proc'[o] = proc[o]
        /\ UNCHANGED <<typed, raced, backups>>
    BY <1>1, <1>3, ResetMoves, ReadBeforeMoves DEF BuildPlan, ReadBefore, PlanFails, Crash
  <2>2. AppliedFiles(p)' = {}
    BY <2>1 DEF AppliedFiles
  <2>3. KeepInv(p)'
    BY <2>1, <2>2 DEF KeepInv
  <2> QED
    BY <1>2, <2>1, <2>3
<1>4. ASSUME NEW p \in Procs, Uninstall(p)
      PROVE  KeepInv(q)'
  <2>1. /\ proc'[p].pc = "remove" /\ proc'[p].read = disk[Config] /\ disk[Config] # Absent
        /\ \A o \in Procs \ {p} : proc'[o] = proc[o]
        /\ UNCHANGED <<typed, raced, backups>>
    BY <1>1, <1>4, ResetMoves DEF Uninstall
  <2>2. Config \notin raced => Saved(Config)' \/ proc'[p].read.user = typed[Config]
    BY <2>1, KeptMeans, SavedStays, InstallerConstants DEF KeptInv, SavedTextKept
  <2>3. KeepInv(p)'
    BY <2>1, <2>2 DEF KeepInv
  <2> QED
    BY <1>2, <2>1, <2>3
<1>5. ASSUME NEW p \in Procs, Check(p)
      PROVE  KeepInv(q)'
  <2> DEFINE f == Change(p)
  <2>1. /\ UNCHANGED <<typed, raced, backups, disk>> /\ proc[p].pc = "check"
        /\ \A o \in Procs \ {p} : proc'[o] = proc[o]
        /\ f \in Files
    BY <1>1, <1>5, CheckMoves DEF Check
  <2>2. /\ proc'[p].applied = proc[p].applied /\ proc'[p].read = disk[f]
        /\ \/ proc'[p].pc = "check"
           \/ proc'[p].pc = "rollback"
           \/ proc'[p].pc = "write" /\ proc'[p].next = proc[p].next /\ disk[f] = Absent
           \/ proc'[p].pc = "backup" /\ proc'[p].next = proc[p].next
    BY <1>1, <1>5, CheckMoves
  <2>3. AppliedFiles(p)' = AppliedFiles(p)
    BY <2>2 DEF AppliedFiles
  <2>4. proc'[p].next = proc[p].next => Change(p)' = f
    BY DEF Change
  <2>5. f \notin raced => Saved(f) \/ (disk[f] # Absent /\ disk[f].user = typed[f])
    BY <2>1, KeptMeans DEF KeptInv, SavedTextKept
  <2>6. \A g : Saved(g) => Saved(g)'
    BY <2>1, SavedStays
  <2>7. KeepInv(p)'
    BY <1>1, <2>1, <2>2, <2>3, <2>4, <2>5, <2>6 DEF KeepInv
  <2> QED
    BY <1>2, <2>1, <2>7
<1>6. ASSUME NEW p \in Procs, Write(p)
      PROVE  KeepInv(q)'
  <2> DEFINE f == Change(p)
             item == [file |-> f, was |-> proc[p].read]
  <2>1. /\ UNCHANGED <<typed, raced, backups>> /\ proc[p].pc = "write"
        /\ \A o \in Procs \ {p} : proc'[o] = proc[o]
        /\ item \in Items /\ proc'[p].applied = Append(proc[p].applied, item)
        /\ proc'[p].pc = "check"
    BY <1>1, <1>6, WriteMoves DEF Write
  <2>2. AppliedFiles(p)' \subseteq AppliedFiles(p) \cup {f}
    BY <1>1, <2>1, AppendFacts, ProcFields DEF AppliedFiles
  <2>3. \A g : Saved(g) => Saved(g)'
    BY <2>1, SavedStays
  <2>4. KeepInv(p)'
    BY <1>1, <2>1, <2>2, <2>3 DEF KeepInv
  <2> QED
    BY <1>2, <2>1, <2>4
<1>7. ASSUME NEW p \in Procs, RollBack(p)
      PROVE  KeepInv(q)'
  <2>1. /\ UNCHANGED <<typed, raced, backups>> /\ proc[p].pc = "rollback"
        /\ \A o \in Procs \ {p} : proc'[o] = proc[o]
        /\ proc'[p].applied = Front(proc[p].applied) /\ proc'[p].pc = "rollback"
        /\ proc[p].applied \in Seq(Items) /\ proc[p].applied # <<>>
    BY <1>1, <1>7, RollBackMoves DEF RollBack
  <2>2. AppliedFiles(p)' \subseteq AppliedFiles(p)
    <3> DEFINE s == proc[p].applied
    <3>1. /\ Len(s) \in Nat \ {0} /\ Len(Front(s)) = Len(s) - 1
          /\ \A i \in 1 .. Len(s) - 1 : Front(s)[i] = s[i]
      BY <2>1, FrontFacts
    <3>2. \A i \in 1 .. Len(Front(s)) : i \in 1 .. Len(s) /\ Front(s)[i] = s[i]
      BY <3>1
    <3> QED
      BY <2>1, <3>2 DEF AppliedFiles
  <2>3. \A g : Saved(g) => Saved(g)'
    BY <2>1, SavedStays
  <2>4. KeepInv(p)'
    BY <1>1, <2>1, <2>2, <2>3 DEF KeepInv
  <2> QED
    BY <1>2, <2>1, <2>4
<1>8. ASSUME NEW p \in Procs, OnlyGoes(p)
      PROVE  KeepInv(q)'
  <2>1. /\ UNCHANGED <<typed, raced>> /\ backups \subseteq backups'
        /\ \A o \in Procs \ {p} : proc'[o] = proc[o]
        /\ proc'[p].next = proc[p].next /\ proc'[p].applied = proc[p].applied
        /\ \/ proc[p].pc = "backup" /\ proc'[p].pc = "write" /\ Backup(p)
           \/ proc'[p].pc \in {"ready", "failed", "idle"}
           \/ proc[p].pc \in {"check", "backup", "write"} /\ proc'[p].pc = "rollback"
    BY <1>1, <1>8, GoesMoves DEF OnlyGoes, Backup, WriteManifest, StepFails, RolledBack, RemoveBlock
  <2>2. AppliedFiles(p)' = AppliedFiles(p) /\ Change(p)' = Change(p)
    BY <2>1 DEF AppliedFiles, Change
  <2>3. \A g : Saved(g) => Saved(g)'
    BY <2>1, SavedStays
  <2>4. Backup(p) /\ proc[p].read.user = typed[Change(p)] => Saved(Change(p))'
    <3>1. ASSUME Backup(p), proc[p].read.user = typed[Change(p)]
          PROVE  \E b \in backups' : b.file = Change(p) /\ b.content.user = typed[Change(p)]
      <4>1. [file |-> Change(p), content |-> proc[p].read] \in backups'
        BY <3>1 DEF Backup
      <4> QED
        BY <3>1, <4>1
    <3> QED
      BY <2>1, <2>2, <3>1 DEF Saved
  <2>5. KeepInv(p)'
    BY <1>1, <2>1, <2>2, <2>3, <2>4 DEF KeepInv
  <2> QED
    BY <1>2, <2>1, <2>5
<1>9. ASSUME NEW f \in Files, UserSaves(f)
      PROVE  KeepInv(q)'
  <2>1. /\ UNCHANGED <<proc, backups>>
        /\ \A g \in Files \ {f} : typed'[g] = typed[g] /\ (g \in raced' <=> g \in raced)
        /\ f \notin raced' => f \notin Window(q)
    BY <1>1, <1>9, UserSavesFacts
  <2>2. AppliedFiles(q)' = AppliedFiles(q) /\ Change(q)' = Change(q)
    BY <2>1 DEF AppliedFiles, Change
  <2>3. \A g \in Files \ {f} : Saved(g) => Saved(g)'
    BY <2>1 DEF Saved
  <2>4. f \notin Window(q) =>
          /\ proc[q].pc \in {"check", "backup", "write", "rollback"} => f \notin AppliedFiles(q)
          /\ proc[q].pc \in {"backup", "write"} => f # Change(q)
          /\ proc[q].pc = "remove" => f # Config
    <3>1. {item.file : item \in ToSet(proc[q].applied)} = AppliedFiles(q)
      BY ProcFields, <1>1 DEF ToSet, AppliedFiles
    <3> QED
      BY <3>1 DEF Window
  <2> QED
    BY <1>1, <2>1, <2>2, <2>3, <2>4 DEF KeepInv
<1>10. ASSUME UNCHANGED vars
       PROVE  KeepInv(q)'
  BY <1>2, <1>10 DEF vars
<1> QED
  BY <1>3, <1>4, <1>5, <1>6, <1>7, <1>8, <1>9, <1>10 DEF Next, OnlyGoes

LEMMA KeptStep ==
  ASSUME PlansInv, KeptInv, [Next]_vars
  PROVE  SavedTextKept'
<1>1. /\ TypeOK /\ \A p \in Procs : PlanInv(p) /\ KeepInv(p)
      /\ \A f \in Files \ raced : Kept(f)
  BY DEF PlansInv, KeptInv, SavedTextKept
<1>2. ASSUME NEW f, Saved(f), backups \subseteq backups', UNCHANGED typed
      PROVE  Kept(f)'
  BY <1>2, SavedStays DEF Kept, Saved
<1>3. ASSUME NEW f, Kept(f), backups \subseteq backups', UNCHANGED typed, disk'[f] = disk[f]
      PROVE  Kept(f)'
  BY <1>3 DEF Kept
<1>4. ASSUME UNCHANGED <<disk, typed, raced>>, backups \subseteq backups'
      PROVE  SavedTextKept'
  BY <1>1, <1>3, <1>4 DEF SavedTextKept
<1>5. ASSUME NEW p \in Procs, NEW f \in Files, NEW c \in Contents \cup {Absent}, Writes(p, f, c),
             UNCHANGED <<typed, raced, backups>>,
             f \notin raced => Saved(f) \/ (c # Absent /\ c.user = typed[f])
      PROVE  SavedTextKept'
  <2>1. disk'[f] = c /\ \A g \in Files \ {f} : disk'[g] = disk[g]
    BY <1>1, <1>5, WritesFacts
  <2>2. f \notin raced => Kept(f)'
    BY <1>2, <1>5, <2>1 DEF Kept
  <2> QED
    BY <1>1, <1>3, <1>5, <2>1, <2>2 DEF SavedTextKept
<1>6. ASSUME NEW p \in Procs, Write(p)
      PROVE  SavedTextKept'
  <2>1. /\ Change(p) \in Files /\ Writes(p, Change(p), After(p, Change(p)))
        /\ After(p, Change(p)) \in Contents
    BY <1>6, DiskSteps
  <2>2. Change(p) \notin raced => Saved(Change(p))
    BY <1>1, <1>6, <2>1 DEF KeepInv, Write
  <2> QED
    BY <1>5, <1>6, <2>1, <2>2 DEF Write
<1>7. ASSUME NEW p \in Procs, RollBack(p)
      PROVE  SavedTextKept'
  <2> DEFINE item == Last(proc[p].applied)
  <2>1. /\ item.file \in Files /\ Restored(p, item) \in Contents \cup {Absent}
        /\ Writes(p, item.file, Restored(p, item)) \/ UNCHANGED <<disk, touched>>
        /\ UNCHANGED <<typed, raced, backups>>
    BY <1>7, DiskSteps DEF RollBack
  <2>2. item.file \in AppliedFiles(p)
    <3>1. /\ Len(proc[p].applied) \in 1 .. Len(proc[p].applied)
          /\ item = proc[p].applied[Len(proc[p].applied)]
      BY <1>1, <1>7, RollBackMoves, FrontFacts
    <3> QED
      BY <3>1 DEF AppliedFiles
  <2>3. item.file \notin raced => Saved(item.file)
    BY <1>1, <1>7, <2>1, <2>2 DEF KeepInv, RollBack
  <2> QED
    BY <1>4, <1>5, <2>1, <2>3
<1>8. ASSUME NEW p \in Procs, RemoveBlock(p)
      PROVE  SavedTextKept'
  <2> DEFINE c == [proc[p].read EXCEPT !.block = FALSE]
  <2>1. /\ c \in Contents /\ c.user = proc[p].read.user /\ c # Absent
        /\ Writes(p, Config, c) \/ UNCHANGED <<disk, touched>>
        /\ UNCHANGED <<typed, raced, backups>> /\ Config \in Files
    BY <1>8, DiskSteps, InstallerConstants DEF RemoveBlock
  <2>2. Config \notin raced => Saved(Config) \/ c.user = typed[Config]
    BY <1>1, <1>8, <2>1 DEF KeepInv, RemoveBlock
  <2> HIDE DEF c
  <2> QED
    BY <1>4, <1>5, <2>1, <2>2
<1>9. ASSUME NEW f \in Files, UserSaves(f)
      PROVE  SavedTextKept'
  <2>1. /\ disk'[f] # Absent /\ disk'[f].user = typed'[f] /\ backups' = backups
        /\ \A g \in Files \ {f} : /\ disk'[g] = disk[g] /\ typed'[g] = typed[g]
                                  /\ g \in raced' <=> g \in raced
    BY <1>1, <1>9, UserSavesFacts
  <2>2. Kept(f)'
    BY <2>1 DEF Kept
  <2>3. \A g \in Files \ {f} : Kept(g) => Kept(g)'
    BY <2>1 DEF Kept
  <2> QED
    BY <1>1, <2>1, <2>2, <2>3 DEF SavedTextKept
<1> QED
  BY <1>4, <1>6, <1>7, <1>8, <1>9
  DEF Next, BuildPlan, ReadBefore, PlanFails, Check, Backup, WriteManifest, StepFails, RolledBack,
      Uninstall, Crash, vars
-----------------------------------------------------------------------------
(* The theorems *)

\* Every file, backup and process stays typed, and each process knows the plan
\* it is in and has read what it is about to replace.
THEOREM InstallerTypeCorrect == Spec => []PlansInv
<1>1. Init => PlansInv
  <2> SUFFICES ASSUME Init PROVE PlansInv
    OBVIOUS
  <2>1. proc = [p \in Procs |-> Resting] /\ Resting \in Processes
    <3>1. 1 \in 1 .. Len(Order) + 1 /\ <<>> \in Seq(Items)
      BY OrderFacts
    <3> QED
      BY <3>1 DEF Init, Resting, Processes, Items
  <2>2. TypeOK
    <3>1. /\ Empty \in Contents /\ 0 \in Texts /\ MaxEdits \in 0 .. MaxEdits
          /\ MaxRuns \in Nat /\ MaxFails \in Nat /\ MaxCrashes \in Nat
      BY ContentFacts, InstallerConstants DEF Texts
    <3>2. disk \in [Files -> Contents \cup {Absent}]
      BY <3>1 DEF Init
    <3> QED
      BY <2>1, <3>1, <3>2 DEF Init, TypeOK
  <2>3. \A p \in Procs : proc[p].pc = "idle" /\ proc[p].applied = <<>>
    BY <2>1 DEF Resting
  <2> QED
    BY <2>2, <2>3 DEF PlansInv, PlanInv
<1>2. PlansInv /\ [Next]_vars => PlansInv'
  BY PlanStep, TypeStep DEF PlansInv
<1> QED
  BY <1>1, <1>2, PTL DEF Spec

LEMMA UndosHold == Spec => []UndosInv
<1>1. Init => UndosInv
  <2>1. Init => \A p \in Procs : proc[p].pc = "idle"
    BY DEF Init, Resting
  <2> QED
    BY <2>1 DEF UndosInv, ReadInv, DoneInv, UndoInv
<1>2. PlansInv /\ UndosInv /\ [Next]_vars => UndosInv'
  BY ReadStep, UndosStep DEF UndosInv
<1> QED
  BY <1>1, <1>2, InstallerTypeCorrect, PTL DEF Spec

\* A setup that failed and could undo everything has put back every file that
\* no one else wrote.
THEOREM FailureRestored == Spec => []FailureRestores
<1>1. PlansInv /\ UndosInv => FailureRestores
  <2> SUFFICES ASSUME PlansInv, UndosInv, NEW p \in Procs, proc[p].pc = "failed",
                      proc[p].complete, NEW f \in Files \ touched[p]
               PROVE  disk[f] = proc[p].plan[f]
    BY DEF FailureRestores
  <2>1. AppliedFiles(p) = {}
    BY DEF PlansInv, PlanInv, AppliedFiles
  <2> QED
    BY <2>1 DEF UndosInv, UndoInv, RestPlanned
<1> QED
  BY <1>1, UndosHold, InstallerTypeCorrect, PTL

\* A setup that reports success has left every file as planned that no one
\* else wrote.
THEOREM ReadyInstalled == Spec => []ReadyMeansInstalled
<1>1. PlansInv /\ UndosInv => ReadyMeansInstalled
  <2> SUFFICES ASSUME PlansInv, UndosInv, NEW p \in Procs, proc[p].pc = "ready",
                      NEW f \in Files \ touched[p]
               PROVE  disk[f] = After(p, f)
    BY DEF ReadyMeansInstalled
  <2>1. PICK i \in 1 .. Len(Order) : f = Order[i]
    BY OrderFacts
  <2>2. i \in 1 .. proc[p].next - 1
    BY <2>1, OrderFacts DEF PlansInv, PlanInv
  <2> QED
    BY <2>1, <2>2 DEF UndosInv, DoneInv
<1> QED
  BY <1>1, UndosHold, InstallerTypeCorrect, PTL

\* What the user saved outside the short windows of a running setup or
\* uninstall is in its file or in a backup, for good.
THEOREM UserTextKept == Spec => []SavedTextKept
<1>1. Init => KeptInv
  <2>1. Init => \A p \in Procs : proc[p].pc = "idle"
    BY DEF Init, Resting
  <2>2. Init => SavedTextKept
    BY DEF Init, SavedTextKept, Kept
  <2> QED
    BY <2>1, <2>2 DEF KeptInv, KeepInv
<1>2. PlansInv /\ KeptInv /\ [Next]_vars => KeptInv'
  BY KeepStep, KeptStep DEF KeptInv
<1>3. KeptInv => SavedTextKept
  BY DEF KeptInv
<1> QED
  BY <1>1, <1>2, <1>3, InstallerTypeCorrect, PTL DEF Spec
=============================================================================
