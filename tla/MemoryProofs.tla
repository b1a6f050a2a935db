---------------------------- MODULE MemoryProofs -----------------------------
(***************************************************************************)
(* Proofs about the two project memories.                                  *)
(*                                                                         *)
(* ProjectHandoff, for every number of memories, editors, projects,        *)
(* sessions, turns (up to the list's limit) and hooks: types, the          *)
(* inductive invariant HandoffInv, and what follows from it.               *)
(*                                                                         *)
(* MemoryManager, for every set of ids and projects, every threshold and   *)
(* every sequence of calls: inference confirmation and the cache.          *)
(***************************************************************************)
EXTENDS ProjectHandoff, MemoryManager, WellFoundedInduction, TLAPS

(* Constants: lengths are numbers, turns name a project and a session. *)
LEMMA ConstantFacts ==
  /\ MaxEdits \in Nat /\ MaxSaves \in Nat /\ MaxDeletes \in Nat /\ MaxFails \in Nat
  /\ Len(Turns) \in Nat /\ Len(Identities) \in Nat \ {0}
  /\ \A t \in TurnIds : Turns[t] \in [project : Projects, session : Sessions]
  /\ \A i \in 1 .. Len(Identities) : Identities[i] \in Projects
  /\ NoRow \notin Rows /\ NoRow \notin TurnRows
<1>1. Turns \in Seq([project : Projects, session : Sessions])
  BY HandoffConstants
<1>2. Identities \in Seq(Projects) /\ Len(Identities) > 0
  BY HandoffConstants
<1>3. Len(Turns) \in Nat /\ \A t \in TurnIds : Turns[t] \in [project : Projects, session : Sessions]
  <2> DEFINE R == [project : Projects, session : Sessions]
  <2> HIDE DEF R
  <2>1. Len(Turns) \in Nat /\ \A t \in 1 .. Len(Turns) : Turns[t] \in R
    <3>1. Turns \in Seq(R)
      BY <1>1 DEF R
    <3> QED BY <3>1
  <2> QED BY <2>1 DEF R, TurnIds
<1>4. Len(Identities) \in Nat \ {0} /\ \A i \in 1 .. Len(Identities) : Identities[i] \in Projects
  BY <1>2
<1> QED BY <1>3, <1>4, HandoffConstants, MemoryRowConstants

(* A set of turns that is not empty has a newest one. *)
LEMMA HasNewest ==
  ASSUME NEW N \in Nat, NEW S, S \subseteq 1 .. N, S # {}
  PROVE  \E t \in S : \A u \in S : u <= t
<1> DEFINE Ages == {N - t : t \in S}
<1>1. \A t \in S : t \in Nat /\ t <= N /\ N - t \in Nat
  OBVIOUS
<1>2. Ages \subseteq Nat /\ Ages # {}
  BY <1>1
<1>3. PICK d \in Ages : \A c \in Ages : ~ (<<c, d>> \in OpToRel(<, Nat))
  <2> HIDE DEF Ages
  <2> QED BY <1>2, NatLessThanWellFounded, WFMin, Zenon
<1>4. \A c \in Ages : ~ (c < d)
  BY <1>2, <1>3 DEF OpToRel
<1>5. PICK t \in S : d = N - t
  OBVIOUS
<1>6. ASSUME NEW u \in S PROVE u <= t
  <2>1. N - u \in Ages
    OBVIOUS
  <2> HIDE DEF Ages
  <2> QED BY <2>1, <1>4, <1>5, <1>1
<1> QED BY <1>6

(* What Newest returns, the empty set included. *)
LEMMA NewestIsNewest ==
  ASSUME NEW ts, ts \subseteq TurnIds
  PROVE  /\ Newest(ts) \in NumTurns
         /\ ts # {} => Newest(ts) \in ts /\ \A u \in ts : u <= Newest(ts)
         /\ Newest(ts) = 0 <=> ts = {}
<1>1. CASE ts = {}
  BY <1>1, ConstantFacts DEF Newest, NumTurns
<1>2. CASE ts # {}
  <2>1. \E t \in ts : \A u \in ts : u <= t
    BY <1>2, HasNewest, ConstantFacts DEF TurnIds
  <2>2. Newest(ts) \in ts /\ \A u \in ts : u <= Newest(ts)
    <3>1. Newest(ts) = CHOOSE t \in ts : \A u \in ts : u <= t
      BY <1>2 DEF Newest
    <3> QED BY <2>1, <3>1, Zenon
  <2>3. Newest(ts) \in TurnIds
    BY <2>2
  <2> QED BY <1>2, <2>2, <2>3, ConstantFacts DEF TurnIds, NumTurns
<1> QED BY <1>1, <1>2

(* The same of the sets of turns that hooks ask for. *)
LEMMA StoredTurns ==
  /\ \A projects : Stored(projects) \subseteq TurnIds
  /\ \A project : WithGoal(project) \subseteq TurnIds /\ WithResult(project) \subseteq TurnIds
BY DEF Stored, WithGoal, WithResult
-----------------------------------------------------------------------------
(* The memory rows. *)
LEMMA CopyTypes ==
  ASSUME MemoryTypeOK, NEW m \in MemoryIds, Live(m), NEW state \in EditableStates \cup {"same"}
  PROVE  Copy(m, state) \in Copies
BY DEF MemoryTypeOK, Live, Copy, Copies, Rows, States, EditableStates

LEMMA MemoryTypes ==
  ASSUME MemoryTypeOK, [MemoryNext]_memoryVars
  PROVE  MemoryTypeOK'
<1>1. ASSUME NEW m \in MemoryIds, NEW project \in Projects, CreateMemory(m, project)
      PROVE  MemoryTypeOK'
  <2>1. [project |-> project, state |-> "candidate"] \in Rows
    BY DEF Rows, States, EditableStates
  <2>2. memories' \in [MemoryIds -> Rows \cup {NoRow}]
    BY <1>1, <2>1 DEF CreateMemory, MemoryTypeOK
  <2>3. \A k \in MemoryIds : memories[k] # NoRow => memories'[k] # NoRow
    BY <1>1, <2>1, ConstantFacts DEF CreateMemory, MemoryTypeOK
  <2>4. asked' \in [MemoryIds -> States \cup {"none"}]
    BY <1>1 DEF CreateMemory, MemoryTypeOK, States, EditableStates
  <2>5. \A e \in Editors : editing'[e] # Idle => editing[e] \in Copies
    BY <1>1 DEF CreateMemory, MemoryTypeOK
  <2>6. \A e \in Editors : editing'[e] # Idle => memories'[editing'[e].id] # NoRow
    BY <1>1, <2>3, <2>5 DEF CreateMemory, MemoryTypeOK, Copies
  <2> QED BY <1>1, <2>2, <2>4, <2>6 DEF CreateMemory, MemoryTypeOK
<1>2. ASSUME NEW e \in Editors, NEW m \in MemoryIds, ReadMemory(e, m)
      PROVE  MemoryTypeOK'
  <2>1. PICK state \in EditableStates \cup {"same"} :
          editing' = [editing EXCEPT ![e] = Copy(m, state)]
    BY <1>2 DEF ReadMemory
  <2>2. Copy(m, state) \in Copies /\ Copy(m, state).id = m
    BY <1>2, CopyTypes DEF ReadMemory, Copy
  <2>3. editing' \in [Editors -> Copies \cup {Idle}]
    BY <2>1, <2>2 DEF MemoryTypeOK
  <2>4. \A f \in Editors : editing'[f] # Idle => memories[editing'[f].id] # NoRow
    BY <1>2, <2>1, <2>2 DEF MemoryTypeOK, ReadMemory, Live
  <2>5. edits' \in 0 .. MaxEdits
    BY <1>2, ConstantFacts DEF ReadMemory, MemoryTypeOK
  <2> QED BY <1>2, <2>3, <2>4, <2>5 DEF ReadMemory, MemoryTypeOK
<1>3. ASSUME NEW e \in Editors, WriteMemory(e)
      PROVE  MemoryTypeOK'
  <2> DEFINE copy == editing[e]
  <2>1. copy \in Copies
    BY <1>3 DEF WriteMemory, MemoryTypeOK
  <2>2. copy.state \in States /\ copy.id \in MemoryIds /\ (copy.asks # "same" => copy.asks \in States)
    BY <2>1 DEF Copies, States
  <2>3. editing' \in [Editors -> Copies \cup {Idle}] /\ \A f \in Editors : editing'[f] # Idle => editing'[f] = editing[f]
    BY <1>3 DEF WriteMemory, MemoryTypeOK
  <2>4. CASE Live(copy.id)
    <3>1. [memories[copy.id] EXCEPT !.state = copy.state] \in Rows
      BY <2>2, <2>4 DEF Live, MemoryTypeOK, Rows
    <3>2. memories' = [memories EXCEPT ![copy.id] = [memories[copy.id] EXCEPT !.state = copy.state]]
      BY <1>3, <2>4 DEF WriteMemory
    <3>3. memories' \in [MemoryIds -> Rows \cup {NoRow}]
      BY <3>1, <3>2 DEF MemoryTypeOK
    <3>4. \A k \in MemoryIds : memories[k] # NoRow => memories'[k] # NoRow
      BY <3>1, <3>2, ConstantFacts DEF MemoryTypeOK
    <3>5. asked' \in [MemoryIds -> States \cup {"none"}]
      BY <1>3, <2>2, <2>4 DEF WriteMemory, MemoryTypeOK
    <3>6. \A f \in Editors : editing'[f] # Idle => memories'[editing'[f].id] # NoRow
      BY <2>3, <3>4 DEF MemoryTypeOK, Copies
    <3> QED BY <1>3, <2>3, <3>3, <3>5, <3>6 DEF WriteMemory, MemoryTypeOK
  <2>5. CASE ~Live(copy.id)
    BY <1>3, <2>3, <2>5 DEF WriteMemory, MemoryTypeOK
  <2> QED BY <2>4, <2>5
<1>4. ASSUME NEW m \in MemoryIds, DeleteMemory(m)
      PROVE  MemoryTypeOK'
  <2>1. [memories[m] EXCEPT !.state = "deleted"] \in Rows
    BY <1>4 DEF DeleteMemory, Live, MemoryTypeOK, Rows, States
  <2>2. memories' \in [MemoryIds -> Rows \cup {NoRow}]
    BY <1>4, <2>1 DEF DeleteMemory, MemoryTypeOK
  <2>3. \A k \in MemoryIds : memories[k] # NoRow => memories'[k] # NoRow
    BY <1>4, <2>1, ConstantFacts DEF DeleteMemory, MemoryTypeOK
  <2>4. asked' \in [MemoryIds -> States \cup {"none"}]
    BY <1>4 DEF DeleteMemory, MemoryTypeOK, States
  <2>5. \A e \in Editors : editing'[e] # Idle => memories'[editing'[e].id] # NoRow
    BY <1>4, <2>3 DEF DeleteMemory, MemoryTypeOK, Copies
  <2> QED BY <1>4, <2>2, <2>4, <2>5 DEF DeleteMemory, MemoryTypeOK
<1>5. ASSUME UNCHANGED memoryVars
      PROVE  MemoryTypeOK'
  BY <1>5 DEF memoryVars, MemoryTypeOK
<1> QED BY <1>1, <1>2, <1>3, <1>4, <1>5 DEF MemoryNext

(* The copies of editors, and with them the states that were asked for. *)
LEMMA MemoryCopies ==
  ASSUME MemoryTypeOK, CopiesInv, StateAsAsked, [MemoryNext]_memoryVars
  PROVE  CopiesInv' /\ StateAsAsked'
<1>1. ASSUME NEW m \in MemoryIds, NEW project \in Projects, CreateMemory(m, project)
      PROVE  CopiesInv' /\ StateAsAsked'
  <2>1. Editing(m) = {} /\ \A k \in MemoryIds : Editing(k)' = Editing(k)
    BY <1>1 DEF CreateMemory, MemoryTypeOK, Editing, Copies
  <2>2. \A k \in MemoryIds : k # m => memories'[k] = memories[k] /\ asked'[k] = asked[k]
    BY <1>1 DEF CreateMemory, MemoryTypeOK
  <2>3. memories'[m].state = asked'[m]
    BY <1>1 DEF CreateMemory, MemoryTypeOK
  <2>4. editing' = editing /\ overlapped' = overlapped
    BY <1>1 DEF CreateMemory
  <2>5. CopiesInv'
    BY <2>1, <2>2, <2>4 DEF CopiesInv, Live
  <2>6. StateAsAsked'
    BY <2>2, <2>3, <2>4 DEF StateAsAsked
  <2> QED BY <2>5, <2>6
<1>2. ASSUME NEW e \in Editors, NEW m \in MemoryIds, ReadMemory(e, m)
      PROVE  CopiesInv' /\ StateAsAsked'
  <2>1. PICK state \in EditableStates \cup {"same"} :
          editing' = [editing EXCEPT ![e] = Copy(m, state)]
    BY <1>2 DEF ReadMemory
  <2>2. overlapped \subseteq overlapped' /\ memories' = memories /\ asked' = asked
    BY <1>2 DEF ReadMemory
  <2>3. Copy(m, state).id = m /\ editing'[e] = Copy(m, state)
    BY <2>1 DEF Copy, MemoryTypeOK
  <2>4. \A k \in MemoryIds \ {m} : Editing(k)' = Editing(k)
    BY <1>2, <2>1, <2>3 DEF Editing, MemoryTypeOK, ReadMemory
  <2>5. \A f \in Editors \ {e} : editing'[f] = editing[f]
    BY <2>1 DEF MemoryTypeOK
  <2>6. ASSUME NEW k \in MemoryIds \ overlapped'
        PROVE  /\ \A f, g \in Editing(k)' : f = g
               /\ \A f \in Editing(k)' :
                    editing'[f].state = IF editing'[f].asks # "same" THEN editing'[f].asks
                                        ELSE IF Live(k) THEN memories[k].state
                                        ELSE editing'[f].state
    <3>1. CASE k # m
      <4>1. \A f \in Editing(k) : f # e
        BY <1>2 DEF Editing, ReadMemory
      <4> QED BY <2>2, <2>4, <2>5, <3>1, <4>1 DEF CopiesInv, Editing
    <3>2. CASE k = m
      <4>1. Editing(m) = {}
        BY <1>2, <2>6, <3>2 DEF ReadMemory
      <4>2. Editing(m)' \subseteq {e}
        BY <2>5, <4>1 DEF Editing
      <4>3. Copy(m, state).state = IF Copy(m, state).asks # "same" THEN Copy(m, state).asks
                                   ELSE memories[m].state
        BY DEF Copy
      <4> QED BY <1>2, <2>3, <3>2, <4>2, <4>3 DEF ReadMemory
    <3> QED BY <3>1, <3>2
  <2>7. CopiesInv'
    BY <2>2, <2>6 DEF CopiesInv, Live
  <2>8. StateAsAsked'
    BY <2>2 DEF StateAsAsked
  <2> QED BY <2>7, <2>8
<1>3. ASSUME NEW e \in Editors, WriteMemory(e)
      PROVE  CopiesInv' /\ StateAsAsked'
  <2> DEFINE copy == editing[e]
  <2>1. copy \in Copies /\ copy.id \in MemoryIds
    BY <1>3 DEF WriteMemory, MemoryTypeOK, Copies
  <2>2. overlapped' = overlapped /\ \A k \in MemoryIds : Editing(k)' = Editing(k) \ {e}
    BY <1>3 DEF WriteMemory, MemoryTypeOK, Editing
  <2>3. \A f \in Editors \ {e} : editing'[f] = editing[f]
    BY <1>3 DEF WriteMemory, MemoryTypeOK
  <2>4. e \in Editing(copy.id)
    BY <1>3 DEF WriteMemory, Editing
  <2>5. CASE Live(copy.id)
    <3>1. \A k \in MemoryIds \ {copy.id} : memories'[k] = memories[k] /\ asked'[k] = asked[k]
      BY <1>3, <2>5 DEF WriteMemory, MemoryTypeOK
    <3>2. memories'[copy.id].state = copy.state
      <4>1. memories[copy.id] \in Rows
        BY <2>1, <2>5 DEF Live, MemoryTypeOK
      <4>2. memories' = [memories EXCEPT ![copy.id] = [memories[copy.id] EXCEPT !.state = copy.state]]
        BY <1>3, <2>5 DEF WriteMemory
      <4>3. memories'[copy.id] = [memories[copy.id] EXCEPT !.state = copy.state]
        BY <2>1, <4>2 DEF MemoryTypeOK
      <4> QED BY <4>1, <4>3 DEF Rows
    <3>3. asked'[copy.id] = IF copy.asks = "same" THEN asked[copy.id] ELSE copy.asks
      BY <1>3, <2>1, <2>5 DEF WriteMemory, MemoryTypeOK
    <3>4. \A k \in MemoryIds \ overlapped : k = copy.id => Editing(k)' = {}
      <4> SUFFICES ASSUME NEW k \in MemoryIds \ overlapped, k = copy.id
                   PROVE  Editing(k)' = {}
        OBVIOUS
      <4>1. \A f \in Editing(k) : f = e
        BY <2>4 DEF CopiesInv
      <4>2. Editing(k)' = Editing(k) \ {e}
        BY <2>2
      <4> QED BY <4>1, <4>2
    <3>5. CopiesInv'
      BY <2>2, <2>3, <3>1, <3>4 DEF CopiesInv, Live, Editing
    <3>6. copy.id \notin overlapped => memories'[copy.id].state = asked'[copy.id]
      BY <2>1, <2>4, <2>5, <3>2, <3>3 DEF CopiesInv, StateAsAsked, Live
    <3> QED BY <2>2, <3>1, <3>5, <3>6 DEF StateAsAsked
  <2>6. CASE ~Live(copy.id)
    <3>1. memories' = memories /\ asked' = asked
      BY <1>3, <2>6 DEF WriteMemory
    <3> QED BY <2>2, <2>3, <3>1 DEF CopiesInv, StateAsAsked, Live, Editing
  <2> QED BY <2>5, <2>6
<1>4. ASSUME NEW m \in MemoryIds, DeleteMemory(m)
      PROVE  CopiesInv' /\ StateAsAsked'
  <2>1. editing' = editing /\ overlapped' = overlapped
    BY <1>4 DEF DeleteMemory
  <2>2. \A k \in MemoryIds \ {m} : memories'[k] = memories[k] /\ asked'[k] = asked[k]
    BY <1>4 DEF DeleteMemory, MemoryTypeOK
  <2>3. memories'[m].state = "deleted" /\ asked'[m] = "deleted"
    BY <1>4 DEF DeleteMemory, Live, MemoryTypeOK, Rows
  <2> QED BY <2>1, <2>2, <2>3 DEF CopiesInv, StateAsAsked, Live, Editing
<1>5. ASSUME UNCHANGED memoryVars
      PROVE  CopiesInv' /\ StateAsAsked'
  BY <1>5 DEF memoryVars, CopiesInv, StateAsAsked, Live, Editing
<1> QED BY <1>1, <1>2, <1>3, <1>4, <1>5 DEF MemoryNext

(* No step of the memory's takes a deleted row back. *)
LEMMA DeletedStays ==
  ASSUME MemoryTypeOK, [MemoryNext]_memoryVars,
         NEW m \in MemoryIds, memories[m] # NoRow, memories[m].state = "deleted"
  PROVE  memories'[m] = memories[m]
<1>1. ASSUME NEW k \in MemoryIds, NEW project \in Projects, CreateMemory(k, project)
      PROVE  memories'[m] = memories[m]
  BY <1>1 DEF CreateMemory, MemoryTypeOK
<1>2. ASSUME NEW e \in Editors, NEW k \in MemoryIds, ReadMemory(e, k)
      PROVE  memories'[m] = memories[m]
  BY <1>2 DEF ReadMemory
<1>3. ASSUME NEW e \in Editors, WriteMemory(e)
      PROVE  memories'[m] = memories[m]
  BY <1>3 DEF WriteMemory, Live, MemoryTypeOK
<1>4. ASSUME NEW k \in MemoryIds, DeleteMemory(k)
      PROVE  memories'[m] = memories[m]
  BY <1>4 DEF DeleteMemory, Live, MemoryTypeOK
<1> QED BY <1>1, <1>2, <1>3, <1>4 DEF MemoryNext, memoryVars
-----------------------------------------------------------------------------
(* The tables under the hooks. *)

(* A disturbed hook keeps its state but for the two flags. *)
LEMMA DisturbFacts ==
  ASSUME hook \in [Hooks -> HookStates \cup {Idle}]
  PROVE  /\ Disturb \in [Hooks -> HookStates \cup {Idle}]
         /\ \A h \in Hooks : Disturb[h] # Idle =>
              /\ hook[h] # Idle
              /\ Disturb[h] = [hook[h] EXCEPT !.disturbed = TRUE,
                                              !.raced = hook[h].raced \/ hook[h].pc = "insert"]
              /\ hook[h] \in HookStates
<1>1. ASSUME NEW h \in Hooks, hook[h] # Idle
      PROVE  /\ hook[h] \in HookStates
             /\ [hook[h] EXCEPT !.disturbed = TRUE,
                                !.raced = hook[h].raced \/ hook[h].pc = "insert"] \in HookStates
  BY <1>1 DEF HookStates
<1>2. \A h \in Hooks : hook[h] # Idle =>
        Disturb[h] = [hook[h] EXCEPT !.disturbed = TRUE,
                                     !.raced = hook[h].raced \/ hook[h].pc = "insert"]
  BY DEF Disturb
<1>3. \A h \in Hooks : hook[h] = Idle => Disturb[h] = Idle
  BY DEF Disturb
<1>4. Disturb \in [Hooks -> HookStates \cup {Idle}]
  BY <1>1, <1>2, <1>3 DEF Disturb
<1> QED BY <1>1, <1>2, <1>3, <1>4

LEMMA DisturbedInv ==
  ASSUME TypeOK, HandoffInv, hook' = Disturb,
         \A r \in receipts : \E q \in receipts' : q[1] = r[1],
         NEW h \in Hooks, hook'[h] # Idle
  PROVE  HookInv(h)'
<1>1. /\ hook[h] \in HookStates /\ HookInv(h)
      /\ hook'[h] = [hook[h] EXCEPT !.disturbed = TRUE,
                                    !.raced = hook[h].raced \/ hook[h].pc = "insert"]
  BY DisturbFacts DEF TypeOK, HandoffInv
<1>2. /\ hook'[h].disturbed /\ (hook'[h].pc = "insert" => hook'[h].raced)
      /\ hook'[h].pc = hook[h].pc /\ hook'[h].left = hook[h].left
      /\ hook'[h].goal = hook[h].goal /\ hook'[h].result = hook[h].result
      /\ hook'[h].dueGoal = hook[h].dueGoal /\ hook'[h].dueResult = hook[h].dueResult
      /\ hook'[h].failed = hook[h].failed /\ (hook[h].raced => hook'[h].raced)
  BY <1>1 DEF HookStates
<1> QED BY <1>1, <1>2 DEF HookInv, DueInv

(* Rows that lose nothing leave every hook what it was due. *)
LEMMA GrowingInv ==
  ASSUME TypeOK, HandoffInv, hook' = hook, sessions \subseteq sessions',
         receipts' = receipts,
         \A t \in TurnIds : turns[t] # NoRow =>
           turns'[t] # NoRow /\ (turns[t].goal => turns'[t].goal)
                             /\ (turns[t].result => turns'[t].result),
         NEW h \in Hooks, hook'[h] # Idle
  PROVE  HookInv(h)'
<1>1. hook[h] \in HookStates /\ HookInv(h)
  BY DEF TypeOK, HandoffInv
<1>2. \A p : WithGoal(p) \subseteq WithGoal(p)' /\ WithResult(p) \subseteq WithResult(p)'
  BY DEF WithGoal, WithResult, Stored
<1>3. hook[h].left \subseteq TurnIds
  BY <1>1 DEF HookStates
<1> QED BY <1>1, <1>2, <1>3 DEF HookInv, DueInv

LEMMA SaveTurnKeeps ==
  ASSUME TypeOK, HandoffInv,
         NEW t \in TurnIds, NEW goal \in BOOLEAN, NEW result \in BOOLEAN,
         SaveTurn(t, goal, result)
  PROVE  TypeOK' /\ \A h \in Hooks : hook'[h] # Idle => HookInv(h)'
<1>1. [goal |-> goal, result |-> result] \in TurnRows
  BY DEF TurnRows
<1>2. turns' = [turns EXCEPT ![t] = [goal |-> goal, result |-> result]]
  BY DEF SaveTurn
<1>3. turns' \in [TurnIds -> TurnRows \cup {NoRow}]
  BY <1>1, <1>2 DEF TypeOK
<1>4. Turns[t].session \in Sessions
  BY ConstantFacts
<1>5. sessions' = sessions \cup {Turns[t].session}
  BY DEF SaveTurn
<1>6. \A u \in TurnIds : turns'[u] # NoRow => Turns[u].session \in sessions'
  BY <1>2, <1>5 DEF TypeOK
<1>7. hook' = hook \/ hook' = Disturb
  BY DEF SaveTurn
<1>8. hook' \in [Hooks -> HookStates \cup {Idle}]
  BY <1>7, DisturbFacts DEF TypeOK
<1>9. saves' \in 0 .. MaxSaves
  BY ConstantFacts DEF SaveTurn, TypeOK
<1>10. MemoryTypeOK'
  BY MemoryTypes DEF SaveTurn, TypeOK, memoryVars
<1>11. TypeOK'
  BY <1>3, <1>4, <1>5, <1>6, <1>8, <1>9, <1>10 DEF SaveTurn, TypeOK
<1>12. CASE hook' = Disturb
  BY <1>11, <1>12, DisturbedInv DEF SaveTurn
<1>13. CASE hook' # Disturb
  <2>1. hook' = hook /\ (turns[t] # NoRow => (turns[t].goal => goal) /\ (turns[t].result => result))
    BY <1>13 DEF SaveTurn
  <2>2. \A u \in TurnIds : turns[u] # NoRow =>
          turns'[u] # NoRow /\ (turns[u].goal => turns'[u].goal)
                            /\ (turns[u].result => turns'[u].result)
    BY <1>1, <1>2, <2>1, ConstantFacts DEF TypeOK
  <2> QED BY <1>5, <1>11, <2>1, <2>2, GrowingInv DEF SaveTurn
<1> QED BY <1>12, <1>13

LEMMA DeleteSessionKeeps ==
  ASSUME TypeOK, HandoffInv, NEW s \in Sessions, DeleteSession(s)
  PROVE  TypeOK' /\ \A h \in Hooks : hook'[h] # Idle => HookInv(h)'
<1>1. turns' = [t \in TurnIds |-> IF Turns[t].session = s THEN NoRow ELSE turns[t]]
  BY DEF DeleteSession
<1>2. turns' \in [TurnIds -> TurnRows \cup {NoRow}]
  BY <1>1 DEF TypeOK
<1>3. sessions' = sessions \ {s} /\ hook' = Disturb
  BY DEF DeleteSession
<1>4. \A u \in TurnIds : turns'[u] # NoRow => Turns[u].session \in sessions'
  BY <1>1, <1>3 DEF TypeOK
<1>5. receipts' \subseteq Hooks \X (Sessions \cup {NoRow})
  BY DEF DeleteSession, TypeOK
<1>6. hook' \in [Hooks -> HookStates \cup {Idle}]
  BY <1>3, DisturbFacts DEF TypeOK
<1>7. deletes' \in 0 .. MaxDeletes
  BY ConstantFacts DEF DeleteSession, TypeOK
<1>8. MemoryTypeOK'
  BY MemoryTypes DEF DeleteSession, TypeOK, memoryVars
<1>9. TypeOK'
  BY <1>2, <1>3, <1>4, <1>5, <1>6, <1>7, <1>8 DEF DeleteSession, TypeOK
<1>10. \A r \in receipts : \E q \in receipts' : q[1] = r[1]
  <2> SUFFICES ASSUME NEW r \in receipts
               PROVE  \E q \in receipts' : q[1] = r[1]
    OBVIOUS
  <2> DEFINE kept == IF r[2] = s THEN <<r[1], NoRow>> ELSE r
  <2>1. kept \in receipts'
    BY DEF DeleteSession
  <2>2. kept[1] = r[1]
    OBVIOUS
  <2> QED BY <2>1, <2>2
<1> QED BY <1>3, <1>9, <1>10, DisturbedInv
-----------------------------------------------------------------------------
(* The steps of a hook. *)

(* A hook that takes a step to a state that is right leaves all others as they were. *)
LEMMA HookMoves ==
  ASSUME TypeOK, HandoffInv, NEW h \in Hooks, NEW new \in HookStates,
         hook' = [hook EXCEPT ![h] = new],
         UNCHANGED <<memoryVars, turns, sessions, saves, deletes>>,
         receipts \subseteq receipts', receipts' \subseteq Hooks \X (Sessions \cup {NoRow}),
         fails' \in 0 .. MaxFails,
         HookInv(h)'
  PROVE  TypeOK' /\ \A g \in Hooks : hook'[g] # Idle => HookInv(g)'
<1>1. hook' \in [Hooks -> HookStates \cup {Idle}]
  BY DEF TypeOK
<1>2. MemoryTypeOK'
  BY MemoryTypes DEF TypeOK, memoryVars
<1>3. TypeOK'
  BY <1>1, <1>2 DEF TypeOK
<1>4. \A p : WithGoal(p)' = WithGoal(p) /\ WithResult(p)' = WithResult(p)
  BY DEF WithGoal, WithResult, Stored
<1>5. ASSUME NEW g \in Hooks, g # h, hook'[g] # Idle
      PROVE  HookInv(g)'
  <2>1. hook'[g] = hook[g] /\ HookInv(g)
    BY <1>5 DEF TypeOK, HandoffInv
  <2> QED BY <1>4, <2>1 DEF HookInv, DueInv
<1> QED BY <1>3, <1>5

(* A hook before a step. *)
LEMMA HookBefore ==
  ASSUME TypeOK, HandoffInv, NEW h \in Hooks, hook[h] # Idle
  PROVE  hook[h] \in HookStates /\ HookInv(h)
BY DEF TypeOK, HandoffInv

(* What is due in unchanged tables stays so. *)
LEMMA SameTurns ==
  ASSUME turns' = turns
  PROVE  /\ \A p : WithGoal(p)' = WithGoal(p) /\ WithResult(p)' = WithResult(p)
         /\ \A p : Stored(p)' = Stored(p)
BY DEF WithGoal, WithResult, Stored

LEMMA StartKeeps ==
  ASSUME TypeOK, HandoffInv, NEW h \in Hooks, Start(h)
  PROVE  TypeOK' /\ \A g \in Hooks : hook'[g] # Idle => HookInv(g)'
<1>1. Blank \in HookStates
  BY ConstantFacts DEF Blank, HookStates, Steps, NumTurns
<1>2. hook'[h] = Blank
  BY DEF Start, TypeOK
<1>3. HookInv(h)'
  BY <1>2 DEF HookInv, DueInv, Blank
<1> QED BY <1>1, <1>3, HookMoves DEF Start, TypeOK, tables, bounds

(* The choice of a project: the two due turns are among its turns. *)
LEMMA ChosenKeeps ==
  ASSUME TypeOK, HandoffInv, NEW h \in Hooks, NEW project \in Projects,
         hook[h] # Idle, hook[h].pc \in {"resolve", "resolveMemory"}, Chosen(h, project),
         UNCHANGED <<memoryVars, tables, bounds>>
  PROVE  TypeOK' /\ \A g \in Hooks : hook'[g] # Idle => HookInv(g)'
<1> DEFINE goal == Newest(WithGoal(project))
           result == Newest(WithResult(project))
           new == [hook[h] EXCEPT !.project = project, !.pc = "list",
                                  !.dueGoal = goal, !.dueResult = result]
<1>1. hook[h] \in HookStates /\ HookInv(h)
  BY HookBefore
<1>2. /\ goal \in NumTurns /\ (goal # 0 => goal \in WithGoal(project))
      /\ result \in NumTurns /\ (result # 0 => result \in WithResult(project))
  BY NewestIsNewest, StoredTurns
<1>3. hook' = [hook EXCEPT ![h] = new]
  BY DEF Chosen
<1> HIDE DEF goal, result
<1>4. new \in HookStates
  BY <1>1, <1>2 DEF HookStates, Steps
<1>5. /\ hook'[h] = new
      /\ new.pc = "list" /\ new.project = project /\ new.dueGoal = goal /\ new.dueResult = result
      /\ new.goal = hook[h].goal /\ new.result = hook[h].result /\ new.left = hook[h].left
      /\ new.disturbed = hook[h].disturbed
  BY <1>1, <1>3 DEF TypeOK, HookStates
<1>6. HookInv(h)'
  <2>1. hook[h].goal = 0 /\ hook[h].result = 0
    BY <1>1 DEF HookInv
  <2>2. turns' = turns
    BY DEF tables
  <2> HIDE DEF new
  <2> QED BY <1>1, <1>2, <1>5, <2>1, <2>2, SameTurns DEF HookInv, DueInv
<1> HIDE DEF new
<1> QED BY <1>3, <1>4, <1>6, HookMoves DEF TypeOK, tables, bounds

LEMMA ResolveKeeps ==
  ASSUME TypeOK, HandoffInv, NEW h \in Hooks, Resolve(h)
  PROVE  TypeOK' /\ \A g \in Hooks : hook'[g] # Idle => HookInv(g)'
<1> DEFINE newest == Newest(Stored({Identities[i] : i \in DOMAIN Identities}))
<1>1. hook[h] # Idle /\ hook[h].pc = "resolve"
  BY DEF Resolve, At
<1>2. newest \in NumTurns
  BY NewestIsNewest, StoredTurns
<1>3. CASE newest # 0
  <2>1. newest \in TurnIds
    BY <1>2, <1>3, ConstantFacts DEF NumTurns, TurnIds
  <2>2. Turns[newest].project \in Projects
    BY <2>1, ConstantFacts
  <2>3. Chosen(h, Turns[newest].project)
    BY <1>3 DEF Resolve
  <2> QED BY <1>1, <2>2, <2>3, ChosenKeeps DEF Resolve
<1>4. CASE newest = 0
  <2> DEFINE new == [hook[h] EXCEPT !.pc = "resolveMemory"]
  <2>1. hook[h] \in HookStates /\ HookInv(h)
    BY <1>1, HookBefore
  <2>2. hook' = [hook EXCEPT ![h] = new]
    BY <1>4 DEF Resolve, Goto
  <2>3. new \in HookStates
    BY <2>1 DEF HookStates, Steps
  <2>4. /\ hook'[h] = new /\ new.pc = "resolveMemory"
        /\ new.goal = hook[h].goal /\ new.result = hook[h].result /\ new.left = hook[h].left
        /\ new.dueGoal = hook[h].dueGoal /\ new.dueResult = hook[h].dueResult
        /\ new.disturbed = hook[h].disturbed
    BY <2>1, <2>2 DEF TypeOK, HookStates
  <2>5. turns' = turns
    BY DEF Resolve, tables
  <2> HIDE DEF new
  <2>6. HookInv(h)'
    BY <1>1, <2>1, <2>4, <2>5 DEF HookInv, DueInv
  <2> QED BY <2>2, <2>3, <2>6, HookMoves DEF Resolve, TypeOK, tables, bounds
<1> QED BY <1>3, <1>4

LEMMA ResolveMemoryKeeps ==
  ASSUME TypeOK, HandoffInv, NEW h \in Hooks, ResolveMemory(h)
  PROVE  TypeOK' /\ \A g \in Hooks : hook'[g] # Idle => HookInv(g)'
<1> DEFINE candidate == Identities[hook[h].looked + 1]
<1>1. hook[h] # Idle /\ hook[h].pc = "resolveMemory"
  BY DEF ResolveMemory, At
<1>2. hook[h] \in HookStates /\ HookInv(h)
  BY <1>1, HookBefore
<1>3. hook[h].looked \in 0 .. Len(Identities) - 1
  BY <1>2 DEF HookStates
<1>4. candidate \in Projects /\ Identities[1] \in Projects
  BY <1>3, ConstantFacts
<1>5. CASE Chosen(h, candidate) \/ Chosen(h, Identities[1])
  BY <1>1, <1>4, <1>5, ChosenKeeps DEF ResolveMemory
<1>6. CASE /\ hook[h].looked + 1 # Len(Identities)
           /\ hook' = [hook EXCEPT ![h].looked = @ + 1]
  <2> DEFINE new == [hook[h] EXCEPT !.looked = hook[h].looked + 1]
  <2>1. hook' = [hook EXCEPT ![h] = new]
    BY <1>6
  <2>2. hook[h].looked + 1 \in 0 .. Len(Identities) - 1
    BY <1>3, <1>6, ConstantFacts
  <2>3. new \in HookStates
    BY <1>2, <2>2 DEF HookStates
  <2>4. /\ hook'[h] = new /\ new.pc = hook[h].pc
        /\ new.goal = hook[h].goal /\ new.result = hook[h].result /\ new.left = hook[h].left
        /\ new.dueGoal = hook[h].dueGoal /\ new.dueResult = hook[h].dueResult
        /\ new.disturbed = hook[h].disturbed
    BY <1>2, <2>1 DEF TypeOK, HookStates
  <2>5. turns' = turns
    BY DEF ResolveMemory, tables
  <2> HIDE DEF new
  <2>6. HookInv(h)'
    BY <1>1, <1>2, <2>4, <2>5 DEF HookInv, DueInv
  <2> QED BY <2>1, <2>3, <2>6, HookMoves DEF ResolveMemory, TypeOK, tables, bounds
<1> QED BY <1>5, <1>6 DEF ResolveMemory

LEMMA ListTurnsKeeps ==
  ASSUME TypeOK, HandoffInv, NEW h \in Hooks, ListTurns(h)
  PROVE  TypeOK' /\ \A g \in Hooks : hook'[g] # Idle => HookInv(g)'
<1> DEFINE left == Listed(hook[h].project)
           new == [hook[h] EXCEPT !.left = left, !.pc = IF left = {} THEN "memories" ELSE "row"]
<1>1. hook[h] # Idle /\ hook[h].pc = "list"
  BY DEF ListTurns, At
<1>2. hook[h] \in HookStates /\ HookInv(h)
  BY <1>1, HookBefore
<1>3. hook' = [hook EXCEPT ![h] = new] /\ turns' = turns
  BY DEF ListTurns, tables
<1>4. left \subseteq TurnIds /\ \A t \in left : turns[t] # NoRow
  BY DEF Listed, Stored
<1>5. WithGoal(hook[h].project) \subseteq left /\ WithResult(hook[h].project) \subseteq left
  BY DEF Listed, WithGoal, WithResult
<1> HIDE DEF left
<1>6. new \in HookStates
  BY <1>2, <1>4 DEF HookStates, Steps
<1>7. /\ hook'[h] = new /\ new.left = left /\ new.project = hook[h].project
      /\ new.pc = IF left = {} THEN "memories" ELSE "row"
      /\ new.goal = hook[h].goal /\ new.result = hook[h].result
      /\ new.dueGoal = hook[h].dueGoal /\ new.dueResult = hook[h].dueResult
      /\ new.disturbed = hook[h].disturbed
  BY <1>2, <1>3 DEF TypeOK, HookStates
<1> HIDE DEF new
<1>8. HookInv(h)'
  BY <1>1, <1>2, <1>3, <1>4, <1>5, <1>7, SameTurns DEF HookInv, DueInv
<1> QED BY <1>3, <1>6, <1>8, HookMoves DEF ListTurns, TypeOK, tables, bounds

LEMMA ReadTurnKeeps ==
  ASSUME TypeOK, HandoffInv, NEW h \in Hooks, ReadTurn(h)
  PROVE  TypeOK' /\ \A g \in Hooks : hook'[g] # Idle => HookInv(g)'
<1> DEFINE t == Newest(hook[h].left)
           new == [hook[h] EXCEPT !.pc = IF turns[t] = NoRow THEN "failed" ELSE "messages"]
<1>1. hook[h] # Idle /\ hook[h].pc = "row"
  BY DEF ReadTurn, At
<1>2. hook[h] \in HookStates /\ HookInv(h)
  BY <1>1, HookBefore
<1>3. hook' = [hook EXCEPT ![h] = new] /\ turns' = turns
  BY DEF ReadTurn, Goto, tables
<1>4. hook[h].left \subseteq TurnIds /\ hook[h].left # {}
  BY <1>1, <1>2 DEF HookStates, HookInv
<1>5. t \in hook[h].left
  BY <1>4, NewestIsNewest
<1> HIDE DEF t
<1>6. new \in HookStates
  BY <1>2 DEF HookStates, Steps
<1>7. /\ hook'[h] = new /\ new.left = hook[h].left /\ new.project = hook[h].project
      /\ new.pc = IF turns[t] = NoRow THEN "failed" ELSE "messages"
      /\ new.goal = hook[h].goal /\ new.result = hook[h].result
      /\ new.dueGoal = hook[h].dueGoal /\ new.dueResult = hook[h].dueResult
      /\ new.disturbed = hook[h].disturbed
  BY <1>2, <1>3 DEF TypeOK, HookStates
<1> HIDE DEF new
<1>8. HookInv(h)'
  BY <1>1, <1>2, <1>3, <1>5, <1>7, SameTurns DEF HookInv, DueInv
<1> QED BY <1>3, <1>6, <1>8, HookMoves DEF ReadTurn, TypeOK, tables, bounds

LEMMA ReadMessagesKeeps ==
  ASSUME TypeOK, HandoffInv, NEW h \in Hooks, ReadMessages(h)
  PROVE  TypeOK' /\ \A g \in Hooks : hook'[g] # Idle => HookInv(g)'
<1> DEFINE t == Newest(hook[h].left)
           goal == Goal(h, t)
           result == Result(h, t)
           found == goal # hook[h].goal \/ result # hook[h].result
           done == (goal # 0 /\ result # 0) \/ hook[h].left = {t}
           source == IF found /\ hook[h].source = NoRow THEN Turns[t].session ELSE hook[h].source
           new == [hook[h] EXCEPT !.goal = goal, !.result = result, !.source = source,
                                  !.left = hook[h].left \ {t},
                                  !.pc = IF done THEN "memories" ELSE "row"]
<1>1. hook[h] # Idle /\ hook[h].pc = "messages"
  BY DEF ReadMessages, At
<1>2. hook[h] \in HookStates /\ HookInv(h)
  BY <1>1, HookBefore
<1>3. hook' = [hook EXCEPT ![h] = new] /\ turns' = turns
  BY DEF ReadMessages, tables
<1>4. hook[h].left \subseteq TurnIds /\ hook[h].left # {}
  BY <1>1, <1>2 DEF HookStates, HookInv
<1>5. t \in hook[h].left /\ t \in TurnIds /\ \A u \in hook[h].left : u <= t
  BY <1>4, NewestIsNewest
<1>6. t \in Nat /\ t # 0 /\ TurnIds \subseteq Nat /\ TurnIds \subseteq NumTurns
  BY <1>5, ConstantFacts DEF TurnIds, NumTurns
<1> HIDE DEF t
<1>7. goal \in NumTurns /\ result \in NumTurns
  BY <1>2, <1>5, <1>6 DEF Goal, Result, HookStates
<1>8. source \in Sessions \cup {NoRow}
  BY <1>2, <1>5, ConstantFacts DEF HookStates
<1>9. new \in HookStates
  <2> HIDE DEF goal, result, source, done
  <2> QED BY <1>2, <1>4, <1>7, <1>8 DEF HookStates, Steps
<1>10. /\ hook'[h] = new /\ new.left = hook[h].left \ {t} /\ new.project = hook[h].project
       /\ new.pc = IF done THEN "memories" ELSE "row"
       /\ new.goal = goal /\ new.result = result
       /\ new.dueGoal = hook[h].dueGoal /\ new.dueResult = hook[h].dueResult
       /\ new.disturbed = hook[h].disturbed
  <2> HIDE DEF goal, result, source, done
  <2> QED BY <1>2, <1>3 DEF TypeOK, HookStates
<1>11. ASSUME ~hook[h].disturbed, hook[h].dueGoal # 0
       PROVE  /\ goal # 0 => goal >= hook[h].dueGoal
              /\ goal = 0 => hook[h].dueGoal \in hook[h].left \ {t}
  <2>1. hook[h].dueGoal \in WithGoal(hook[h].project)
    BY <1>2, <1>11 DEF HookInv, DueInv
  <2>2. hook[h].dueGoal \in TurnIds /\ turns[hook[h].dueGoal] # NoRow /\ turns[hook[h].dueGoal].goal
    BY <2>1 DEF WithGoal, Stored
  <2>3. CASE hook[h].goal # 0
    BY <1>2, <1>11, <2>3 DEF Goal, HookInv, DueInv
  <2>4. CASE hook[h].goal = 0
    <3>1. hook[h].dueGoal \in hook[h].left
      BY <1>1, <1>2, <1>11, <2>4 DEF HookInv, DueInv
    <3> QED BY <1>5, <1>6, <2>2, <2>4, <3>1 DEF Goal
  <2> QED BY <2>3, <2>4
<1>12. ASSUME ~hook[h].disturbed, hook[h].dueResult # 0
       PROVE  /\ result # 0 => result >= hook[h].dueResult
              /\ result = 0 => hook[h].dueResult \in hook[h].left \ {t}
  <2>1. hook[h].dueResult \in WithResult(hook[h].project)
    BY <1>2, <1>12 DEF HookInv, DueInv
  <2>2. hook[h].dueResult \in TurnIds /\ turns[hook[h].dueResult] # NoRow /\ turns[hook[h].dueResult].result
    BY <2>1 DEF WithResult, Stored
  <2>3. CASE hook[h].result # 0
    BY <1>2, <1>12, <2>3 DEF Result, HookInv, DueInv
  <2>4. CASE hook[h].result = 0
    <3>1. hook[h].dueResult \in hook[h].left
      BY <1>1, <1>2, <1>12, <2>4 DEF HookInv, DueInv
    <3> QED BY <1>5, <1>6, <2>2, <2>4, <3>1 DEF Result
  <2> QED BY <2>3, <2>4
<1>13. \A p : WithGoal(p)' = WithGoal(p) /\ WithResult(p)' = WithResult(p)
  BY <1>3, SameTurns
<1> HIDE DEF goal, result, source, new
<1>14. HookInv(h)'
  <2>1. DueInv(h, hook[h].dueGoal, hook[h].goal, WithGoal(hook[h].project))'
    BY <1>2, <1>10, <1>11, <1>13 DEF HookInv, DueInv
  <2>2. DueInv(h, hook[h].dueResult, hook[h].result, WithResult(hook[h].project))'
    BY <1>2, <1>10, <1>12, <1>13 DEF HookInv, DueInv
  <2>3. hook'[h].pc \in {"row", "messages"} => hook'[h].left # {}
    BY <1>4, <1>10
  <2>4. ~hook'[h].disturbed => \A u \in hook'[h].left : turns'[u] # NoRow
    BY <1>2, <1>3, <1>10 DEF HookInv
  <2> QED BY <1>10, <2>1, <2>2, <2>3, <2>4 DEF HookInv
<1> QED BY <1>3, <1>9, <1>14, HookMoves DEF ReadMessages, TypeOK, tables, bounds

LEMMA ReadMemoriesKeeps ==
  ASSUME TypeOK, HandoffInv, NEW h \in Hooks, ReadMemories(h)
  PROVE  TypeOK' /\ \A g \in Hooks : hook'[g] # Idle => HookInv(g)'
<1> DEFINE active == Active(hook[h].project)
           empty == hook[h].goal = 0 /\ hook[h].result = 0 /\ active = {}
           new == [hook[h] EXCEPT !.memories = active,
                                  !.pc = IF empty THEN "failed" ELSE "check"]
<1>1. hook[h] # Idle /\ hook[h].pc = "memories"
  BY DEF ReadMemories, At
<1>2. hook[h] \in HookStates /\ HookInv(h)
  BY <1>1, HookBefore
<1>3. hook' = [hook EXCEPT ![h] = new] /\ turns' = turns
  BY DEF ReadMemories, tables
<1>4. active \subseteq MemoryIds
  BY DEF Active
<1>5. empty => hook[h].goal = 0 /\ hook[h].result = 0
  OBVIOUS
<1> HIDE DEF active, empty
<1>6. new \in HookStates
  BY <1>2, <1>4 DEF HookStates, Steps
<1>7. /\ hook'[h] = new /\ new.left = hook[h].left /\ new.project = hook[h].project
      /\ new.pc = IF empty THEN "failed" ELSE "check"
      /\ new.goal = hook[h].goal /\ new.result = hook[h].result
      /\ new.dueGoal = hook[h].dueGoal /\ new.dueResult = hook[h].dueResult
      /\ new.disturbed = hook[h].disturbed
  BY <1>2, <1>3 DEF TypeOK, HookStates
<1> HIDE DEF new
<1>8. HookInv(h)'
  BY <1>1, <1>2, <1>3, <1>5, <1>7, SameTurns DEF HookInv, DueInv
<1> QED BY <1>3, <1>6, <1>8, HookMoves DEF ReadMemories, TypeOK, tables, bounds

LEMMA CheckSourceKeeps ==
  ASSUME TypeOK, HandoffInv, NEW h \in Hooks, CheckSource(h)
  PROVE  TypeOK' /\ \A g \in Hooks : hook'[g] # Idle => HookInv(g)'
<1> DEFINE source == IF hook[h].source \in sessions THEN hook[h].source ELSE NoRow
           new == [hook[h] EXCEPT !.source = source, !.pc = "insert"]
<1>1. hook[h] # Idle /\ hook[h].pc = "check"
  BY DEF CheckSource, At
<1>2. hook[h] \in HookStates /\ HookInv(h)
  BY <1>1, HookBefore
<1>3. hook' = [hook EXCEPT ![h] = new] /\ turns' = turns /\ sessions' = sessions
  BY DEF CheckSource, tables
<1>4. source \in sessions \cup {NoRow} /\ source \in Sessions \cup {NoRow}
  BY DEF TypeOK
<1> HIDE DEF source
<1>5. new \in HookStates
  BY <1>2, <1>4 DEF HookStates, Steps
<1>6. /\ hook'[h] = new /\ new.left = hook[h].left /\ new.project = hook[h].project
      /\ new.pc = "insert" /\ new.source = source
      /\ new.goal = hook[h].goal /\ new.result = hook[h].result
      /\ new.dueGoal = hook[h].dueGoal /\ new.dueResult = hook[h].dueResult
      /\ new.disturbed = hook[h].disturbed
  BY <1>2, <1>3 DEF TypeOK, HookStates
<1> HIDE DEF new
<1>7. HookInv(h)'
  BY <1>1, <1>2, <1>3, <1>4, <1>6, SameTurns DEF HookInv, DueInv
<1> QED BY <1>3, <1>5, <1>7, HookMoves DEF CheckSource, TypeOK, tables, bounds

LEMMA InsertReceiptKeeps ==
  ASSUME TypeOK, HandoffInv, NEW h \in Hooks, InsertReceipt(h)
  PROVE  TypeOK' /\ \A g \in Hooks : hook'[g] # Idle => HookInv(g)'
<1> DEFINE new == [hook[h] EXCEPT !.pc = "answered"]
<1>1. hook[h] # Idle /\ hook[h].pc = "insert"
  BY DEF InsertReceipt, At
<1>2. hook[h] \in HookStates /\ HookInv(h)
  BY <1>1, HookBefore
<1>3. hook' = [hook EXCEPT ![h] = new] /\ turns' = turns
  BY DEF InsertReceipt, Goto
<1>4. new \in HookStates
  BY <1>2 DEF HookStates, Steps
<1>5. /\ hook'[h] = new /\ new.left = hook[h].left /\ new.project = hook[h].project
      /\ new.pc = "answered" /\ new.raced = hook[h].raced
      /\ new.goal = hook[h].goal /\ new.result = hook[h].result
      /\ new.dueGoal = hook[h].dueGoal /\ new.dueResult = hook[h].dueResult
      /\ new.disturbed = hook[h].disturbed
  BY <1>2, <1>3 DEF TypeOK, HookStates
<1> HIDE DEF new
<1>6. receipts \subseteq receipts' /\ receipts' \subseteq Hooks \X (Sessions \cup {NoRow})
  BY <1>2 DEF InsertReceipt, TypeOK, HookStates
<1>7. ~hook[h].raced => \E r \in receipts' : r[1] = h
  <2> SUFFICES ASSUME ~hook[h].raced
               PROVE  \E r \in receipts' : r[1] = h
    OBVIOUS
  <2>1. hook[h].source = NoRow \/ hook[h].source \in sessions
    BY <1>1, <1>2 DEF HookInv
  <2>2. <<h, hook[h].source>> \in receipts'
    BY <2>1 DEF InsertReceipt
  <2> QED BY <2>2
<1>8. HookInv(h)'
  BY <1>1, <1>2, <1>3, <1>5, <1>7, SameTurns DEF HookInv, DueInv
<1> QED BY <1>3, <1>4, <1>6, <1>8, HookMoves DEF InsertReceipt, TypeOK, bounds

LEMMA QueryFailsKeeps ==
  ASSUME TypeOK, HandoffInv, NEW h \in Hooks, QueryFails(h)
  PROVE  TypeOK' /\ \A g \in Hooks : hook'[g] # Idle => HookInv(g)'
<1> DEFINE pc == IF hook[h].pc \in {"check", "insert"} THEN "answered" ELSE "failed"
           new == [hook[h] EXCEPT !.failed = TRUE, !.pc = pc]
<1>1. hook[h] # Idle /\ hook[h].pc \notin {"answered", "failed"}
  BY DEF QueryFails
<1>2. hook[h] \in HookStates /\ HookInv(h)
  BY <1>1, HookBefore
<1>3. hook' = [hook EXCEPT ![h] = new] /\ turns' = turns
  BY DEF QueryFails, tables
<1>4. new \in HookStates
  BY <1>2 DEF HookStates, Steps
<1>5. /\ hook'[h] = new /\ new.left = hook[h].left /\ new.project = hook[h].project
      /\ new.pc = pc /\ new.failed
      /\ new.goal = hook[h].goal /\ new.result = hook[h].result
      /\ new.dueGoal = hook[h].dueGoal /\ new.dueResult = hook[h].dueResult
      /\ new.disturbed = hook[h].disturbed
  BY <1>2, <1>3 DEF TypeOK, HookStates
<1> HIDE DEF new
<1>6. HookInv(h)'
  BY <1>1, <1>2, <1>3, <1>5, SameTurns DEF HookInv, DueInv
<1>7. fails' \in 0 .. MaxFails
  BY ConstantFacts DEF QueryFails, TypeOK
<1> QED BY <1>3, <1>4, <1>6, <1>7, HookMoves DEF QueryFails, TypeOK, tables
-----------------------------------------------------------------------------
(* The inductive invariant. *)
Inv == TypeOK /\ HandoffInv /\ StateAsAsked

LEMMA InitInv == Init => Inv
<1> SUFFICES ASSUME Init PROVE Inv
  OBVIOUS
<1>1. MemoryTypeOK
  BY ConstantFacts DEF Init, MemoryInit, MemoryTypeOK, States, EditableStates
<1>2. TypeOK
  BY <1>1, ConstantFacts DEF Init, TypeOK
<1>3. CopiesInv /\ StateAsAsked
  BY DEF Init, MemoryInit, CopiesInv, StateAsAsked, Editing
<1>4. HandoffInv
  BY <1>3 DEF Init, HandoffInv
<1> QED BY <1>2, <1>3, <1>4 DEF Inv

(* Only the steps of editors change the memory rows. *)
LEMMA MemoryStep ==
  ASSUME [Next]_vars
  PROVE  [MemoryNext]_memoryVars
<1>1. CASE MemoryNext \/ UNCHANGED vars
  BY <1>1 DEF vars
<1>2. ASSUME NEW t \in TurnIds, NEW goal \in BOOLEAN, NEW result \in BOOLEAN,
             SaveTurn(t, goal, result)
      PROVE  UNCHANGED memoryVars
  BY <1>2 DEF SaveTurn
<1>3. ASSUME NEW s \in Sessions, DeleteSession(s)
      PROVE  UNCHANGED memoryVars
  BY <1>3 DEF DeleteSession
<1>4. ASSUME NEW h \in Hooks
      PROVE  /\ Start(h) \/ Resolve(h) \/ ResolveMemory(h) => UNCHANGED memoryVars
             /\ ListTurns(h) \/ ReadTurn(h) \/ ReadMessages(h) => UNCHANGED memoryVars
             /\ ReadMemories(h) \/ CheckSource(h) => UNCHANGED memoryVars
             /\ InsertReceipt(h) \/ QueryFails(h) => UNCHANGED memoryVars
  <2>1. Start(h) \/ Resolve(h) \/ ResolveMemory(h) => UNCHANGED memoryVars
    BY DEF Start, Resolve, ResolveMemory
  <2>2. ListTurns(h) \/ ReadTurn(h) \/ ReadMessages(h) => UNCHANGED memoryVars
    BY DEF ListTurns, ReadTurn, ReadMessages
  <2>3. ReadMemories(h) \/ CheckSource(h) => UNCHANGED memoryVars
    BY DEF ReadMemories, CheckSource
  <2>4. InsertReceipt(h) \/ QueryFails(h) => UNCHANGED memoryVars
    BY DEF InsertReceipt, QueryFails
  <2> QED BY <2>1, <2>2, <2>3, <2>4
<1> QED BY <1>1, <1>2, <1>3, <1>4 DEF Next

LEMMA NextInv == Inv /\ [Next]_vars => Inv'
<1> SUFFICES ASSUME Inv, [Next]_vars PROVE Inv'
  OBVIOUS
<1> USE DEF Inv
<1>1. [MemoryNext]_memoryVars
  BY MemoryStep
<1>2. MemoryTypeOK' /\ CopiesInv' /\ StateAsAsked'
  BY <1>1, MemoryTypes, MemoryCopies DEF TypeOK, HandoffInv
<1>3. CASE UNCHANGED <<tables, hook, bounds>>
  <2>1. TypeOK'
    BY <1>2, <1>3 DEF TypeOK, tables, bounds
  <2>2. ASSUME NEW h \in Hooks, hook'[h] # Idle PROVE HookInv(h)'
    <3>1. HookInv(h)
      BY <1>3, <2>2 DEF HandoffInv
    <3>2. turns' = turns /\ sessions' = sessions /\ receipts' = receipts /\ hook' = hook
      BY <1>3 DEF tables
    <3> QED BY <3>1, <3>2, SameTurns DEF HookInv, DueInv
  <2> QED BY <1>2, <2>1, <2>2 DEF HandoffInv
<1>4. CASE \/ \E t \in TurnIds, goal, result \in BOOLEAN : SaveTurn(t, goal, result)
           \/ \E s \in Sessions : DeleteSession(s)
  BY <1>2, <1>4, SaveTurnKeeps, DeleteSessionKeeps DEF HandoffInv
<1>5. ASSUME NEW h \in Hooks,
             \/ Start(h) \/ Resolve(h) \/ ResolveMemory(h) \/ ListTurns(h) \/ ReadTurn(h)
             \/ ReadMessages(h) \/ ReadMemories(h) \/ CheckSource(h) \/ InsertReceipt(h)
             \/ QueryFails(h)
      PROVE  Inv'
  BY <1>2, <1>5, StartKeeps, ResolveKeeps, ResolveMemoryKeeps, ListTurnsKeeps, ReadTurnKeeps,
     ReadMessagesKeeps, ReadMemoriesKeeps, CheckSourceKeeps, InsertReceiptKeeps, QueryFailsKeeps
     DEF HandoffInv
<1> QED BY <1>3, <1>4, <1>5 DEF Next, vars
-----------------------------------------------------------------------------
(* Type correctness of rows, turns, receipts and hooks; every turn has its session. *)
THEOREM HandoffTypeCorrect == Spec => []TypeOK
<1>1. Inv => TypeOK
  BY DEF Inv
<1> QED BY <1>1, InitInv, NextInv, PTL DEF Spec

(* The inductive invariant holds always. *)
THEOREM HandoffInvariant == Spec => []HandoffInv
<1>1. Inv => HandoffInv
  BY DEF Inv
<1> QED BY <1>1, InitInv, NextInv, PTL DEF Spec

(* The state of a memory is the one asked for last, but for overlapping edits. *)
THEOREM StateAlwaysAsAsked == Spec => []StateAsAsked
<1>1. Inv => StateAsAsked
  BY DEF Inv
<1> QED BY <1>1, InitInv, NextInv, PTL DEF Spec

(* A deleted memory never comes back. *)
THEOREM DeletedIsForGood == Spec => DeletedIsFinal
<1>1. Inv /\ [Next]_vars =>
        [\A m \in MemoryIds : memories[m] # NoRow /\ memories[m].state = "deleted" =>
           memories'[m] = memories[m]]_memoryVars
  <2> SUFFICES ASSUME Inv, [Next]_vars,
                      NEW m \in MemoryIds, memories[m] # NoRow, memories[m].state = "deleted"
               PROVE  memories'[m] = memories[m]
    OBVIOUS
  <2>1. [MemoryNext]_memoryVars
    BY MemoryStep
  <2> QED BY <2>1, DeletedStays DEF Inv, TypeOK
<1> QED BY <1>1, InitInv, NextInv, PTL DEF Spec, DeletedIsFinal

(* A capsule is no older than its project was, if nothing was taken away. *)
THEOREM CapsuleAlwaysCurrent == Spec => []CapsuleIsCurrent
<1>1. Inv => CapsuleIsCurrent
  <2> SUFFICES ASSUME Inv, NEW h \in Hooks, Complete(h), ~hook[h].disturbed
               PROVE  hook[h].goal >= hook[h].dueGoal /\ hook[h].result >= hook[h].dueResult
    BY DEF CapsuleIsCurrent
  <2>1. hook[h] \in HookStates /\ HookInv(h)
    BY HookBefore DEF Inv, Complete
  <2> QED BY <2>1, ConstantFacts DEF HookInv, DueInv, HookStates, NumTurns, Complete
<1> QED BY <1>1, InitInv, NextInv, PTL DEF Spec

(* A hook without a capsule had a reason. *)
THEOREM FailureAlwaysHasCause == Spec => []FailureHasCause
<1>1. Inv => FailureHasCause
  BY HookBefore DEF Inv, FailureHasCause, At, HookInv
<1> QED BY <1>1, InitInv, NextInv, PTL DEF Spec

(* A capsule that is answered has a receipt, but for a failure or a race. *)
THEOREM AnswerAlwaysHasReceipt == Spec => []AnswerHasReceipt
<1>1. Inv => AnswerHasReceipt
  BY HookBefore DEF Inv, AnswerHasReceipt, At, HookInv
<1> QED BY <1>1, InitInv, NextInv, PTL DEF Spec
-----------------------------------------------------------------------------
(* MemoryManager *)

\* What is inductive: the types, and inference confirmation.  The latter
\* needs no strengthening, but its step needs the types of the records.
MemoryInv == ManagerTypeOK /\ InferenceConfirmed

\* Observe's new memory before the switch on its source.
Observed(id, project, source, expires) ==
  LET old == IF memory[id] # NoMemory THEN memory[id]
             ELSE [id |-> id, project |-> project, source |-> source, count |-> 0,
                   state |-> "candidate", text |-> TRUE, expires |-> expires]
  IN  IF Priority(source) >= Priority(old.source)
      THEN [old EXCEPT !.source = source, !.text = TRUE, !.expires = expires]
      ELSE old

\* Storing a well-formed memory whose inference is confirmed keeps both.
LEMMA PutKeepsInv ==
  ASSUME MemoryInv, NEW m \in Memories, Put(m), deleted' \subseteq Ids,
         m.source = "inferred" /\ m.state = "active" => m.count >= Threshold
  PROVE  MemoryInv'
<1>1. /\ m.id \in Ids
      /\ memory' \in [Ids -> Memories \cup {NoMemory}]
      /\ memory'[m.id] = m
      /\ \A id \in Ids : id # m.id => memory'[id] = memory[id]
  BY DEF Put, MemoryInv, ManagerTypeOK, Memories
<1>2. ManagerTypeOK'
  <2>1. cache' = [p \in ProjectIds |-> cache'[p]]
    BY DEF Put, MemoryInv, ManagerTypeOK
  <2> QED
    BY <1>1, <2>1 DEF Put, MemoryInv, ManagerTypeOK
<1>3. InferenceConfirmed'
  BY <1>1 DEF MemoryInv, InferenceConfirmed
<1> QED
  BY <1>2, <1>3 DEF MemoryInv

\* Storing a memory clears the one cached list it could make stale.
LEMMA PutKeepsCache ==
  ASSUME ManagerTypeOK, CacheCoherent, NEW m \in Memories, Put(m),
         memory[m.id] # NoMemory => memory[m.id].project = m.project
  PROVE  CacheCoherent'
<1> SUFFICES ASSUME NEW p \in ProjectIds, cache'[p] # NotCached
             PROVE  cache'[p] = Ranked(p)'
  BY DEF CacheCoherent
<1>1. CASE p # m.project
  <2>1. cache'[p] = cache[p]
    BY <1>1 DEF Put
  <2>2. ActiveOf(p)' = ActiveOf(p)
    BY <1>1 DEF Put, ManagerTypeOK, Memories, ActiveOf
  <2>3. Ranked(p)' = Ranked(p)
    BY <2>2 DEF Ranked
  <2> QED
    BY <2>1, <2>3 DEF CacheCoherent
<1>2. CASE p = m.project
  BY <1>2 DEF Put, CacheCoherent, ManagerTypeOK
<1> QED
  BY <1>1, <1>2

\* The switch on the source gives a memory, within the bound.
LEMMA SettleTyped ==
  ASSUME NEW m \in Memories, m.source = "inferred" => m.count < MaxCount
  PROVE  Settle(m) \in Memories
<1>1. m.count \in 0 .. MaxCount /\ MaxCount \in Nat /\ MaxCount >= 1
  BY MemoryConstants DEF Memories
<1>2. CASE m.source = "inferred"
  <2>1. m.count + 1 \in 0 .. MaxCount
    BY <1>1, <1>2
  <2>2. InferenceState(m.count + 1) \in MemoryStates
    BY DEF InferenceState, MemoryStates
  <2> QED
    BY <1>2, <2>1, <2>2 DEF Settle, Memories
<1>3. CASE m.source # "inferred"
  <2>1. (IF m.count = 0 THEN 1 ELSE m.count) \in 0 .. MaxCount
    BY <1>1
  <2>2. "active" \in MemoryStates
    BY DEF MemoryStates
  <2> QED
    BY <1>3, <2>1, <2>2 DEF Settle, Memories
<1> QED
  BY <1>2, <1>3

\* The operations that store a memory store a well-formed one, for an id that
\* keeps its project.
LEMMA ObserveStores ==
  ASSUME MemoryInv, NEW id \in Ids, NEW p \in ProjectIds, NEW s \in Sources,
         NEW e \in (1 .. MaxTime) \cup {Never}, Observe(id, p, s, e)
  PROVE  \E m \in Memories :
           /\ Put(m)
           /\ memory[m.id] # NoMemory => memory[m.id].project = m.project
           /\ m.source = "inferred" /\ m.state = "active" => m.count >= Threshold
<1> DEFINE old == IF memory[id] # NoMemory THEN memory[id]
                  ELSE [id |-> id, project |-> p, source |-> s, count |-> 0,
                        state |-> "candidate", text |-> TRUE, expires |-> e]
           new == Observed(id, p, s, e)
<1>1. old \in Memories /\ old.id = id /\ old.project = p
  <2>1. CASE memory[id] # NoMemory
    BY <2>1 DEF MemoryInv, ManagerTypeOK, Memories, Observe
  <2>2. CASE memory[id] = NoMemory
    BY <2>2, MemoryConstants DEF Memories, MemoryStates
  <2> QED
    BY <2>1, <2>2
<1>2. /\ new \in Memories /\ new.id = id /\ new.project = p
      /\ new.count = old.count
  BY <1>1 DEF Observed, Memories
<1>3. new.source = "inferred" => new.count < MaxCount
  BY <1>2 DEF Observe, Observed
<1>4. Settle(new) \in Memories
  BY <1>2, <1>3, SettleTyped
<1>5. Settle(new).id = id /\ Settle(new).project = p
  BY <1>2 DEF Settle, Memories
<1>6. Settle(new).source = "inferred" /\ Settle(new).state = "active"
        => Settle(new).count >= Threshold
  BY <1>2 DEF Settle, Memories, InferenceState
<1>7. Put(Settle(new))
  BY DEF Observe, Observed
<1>8. memory[id] # NoMemory => memory[id].project = p
  BY DEF Observe
<1> QED
  BY <1>4, <1>5, <1>6, <1>7, <1>8

\* ... and so do the operations on a memory that is there.
LEMMA ChangeStores ==
  ASSUME MemoryInv, NEW id \in Ids, Disable(id) \/ Enable(id) \/ Delete(id)
  PROVE  \E m \in Memories :
           /\ Put(m)
           /\ memory[m.id] # NoMemory => memory[m.id].project = m.project
           /\ m.source = "inferred" /\ m.state = "active" => m.count >= Threshold
<1>1. memory[id] \in Memories /\ memory[id].id = id
  BY DEF MemoryInv, ManagerTypeOK, Disable, Enable, Delete
<1>2. CASE Disable(id)
  <2> DEFINE m == [memory[id] EXCEPT !.state = "disabled"]
  <2>1. m \in Memories /\ m.id = id /\ m.project = memory[id].project
        /\ m.state # "active"
    BY <1>1 DEF Memories, MemoryStates
  <2> QED
    BY <2>1, <1>2 DEF Disable
<1>3. CASE Enable(id)
  <2> DEFINE m == [memory[id] EXCEPT !.state = IF memory[id].source = "inferred"
                                                 THEN InferenceState(memory[id].count)
                                                 ELSE "active"]
  <2>1. /\ m \in Memories /\ m.id = id /\ m.project = memory[id].project
        /\ m.source = "inferred" /\ m.state = "active" => m.count >= Threshold
    BY <1>1 DEF Memories, MemoryStates, InferenceState
  <2> QED
    BY <2>1, <1>3 DEF Enable
<1>4. CASE Delete(id)
  <2> DEFINE m == [memory[id] EXCEPT !.state = "deleted", !.text = FALSE]
  <2>1. m \in Memories /\ m.id = id /\ m.project = memory[id].project
        /\ m.state # "active"
    BY <1>1 DEF Memories, MemoryStates
  <2> QED
    BY <2>1, <1>4 DEF Delete
<1> QED
  BY <1>2, <1>3, <1>4

\* Tombstones are ids.
LEMMA TombstonesAreIds ==
  ASSUME MemoryInv, [ManagerNext]_managerVars
  PROVE  deleted' \subseteq Ids
<1>1. deleted' = deleted \/ \E id \in Ids : deleted' = deleted \cup {id}
  <2>1. ASSUME NEW id \in Ids, NEW p \in ProjectIds, NEW s \in Sources,
               NEW e \in (1 .. MaxTime) \cup {Never}, Observe(id, p, s, e)
        PROVE  deleted' = deleted
    BY <2>1 DEF Observe
  <2>2. ASSUME NEW id \in Ids, Disable(id) \/ Enable(id) \/ Delete(id)
        PROVE  deleted' = deleted \/ deleted' = deleted \cup {id}
    BY <2>2 DEF Disable, Enable, Delete
  <2>3. ASSUME NEW p \in ProjectIds, ListEligible(p)
        PROVE  deleted' = deleted
    BY <2>3 DEF ListEligible
  <2>4. Tick \/ UNCHANGED managerVars => deleted' = deleted
    BY DEF Tick, managerVars
  <2> QED
    BY <2>1, <2>2, <2>3, <2>4 DEF ManagerNext
<1> QED
  BY <1>1 DEF MemoryInv, ManagerTypeOK

\* Every step keeps the types and the confirmation.
LEMMA MemoryInvStep == MemoryInv /\ [ManagerNext]_managerVars => MemoryInv'
<1> SUFFICES ASSUME MemoryInv, [ManagerNext]_managerVars PROVE MemoryInv'
  OBVIOUS
<1>0. deleted' \subseteq Ids
  BY TombstonesAreIds
<1>1. ASSUME NEW id \in Ids, NEW p \in ProjectIds, NEW s \in Sources,
             NEW e \in (1 .. MaxTime) \cup {Never}, Observe(id, p, s, e)
      PROVE  MemoryInv'
  BY <1>0, <1>1, ObserveStores, PutKeepsInv
<1>2. ASSUME NEW id \in Ids, Disable(id) \/ Enable(id) \/ Delete(id)
      PROVE  MemoryInv'
  BY <1>0, <1>2, ChangeStores, PutKeepsInv
<1>3. ASSUME NEW p \in ProjectIds, ListEligible(p)
      PROVE  MemoryInv'
  BY <1>3 DEF ListEligible, MemoryInv, ManagerTypeOK, InferenceConfirmed
<1>4. CASE Tick
  BY <1>4, MemoryConstants DEF Tick, MemoryInv, ManagerTypeOK, InferenceConfirmed
<1>5. CASE UNCHANGED managerVars
  BY <1>5 DEF managerVars, MemoryInv, ManagerTypeOK, InferenceConfirmed
<1> QED
  BY <1>1, <1>2, <1>3, <1>4, <1>5 DEF ManagerNext

\* Every step keeps every cached list what a fresh computation gives.
LEMMA CacheStep == MemoryInv /\ CacheCoherent /\ [ManagerNext]_managerVars => CacheCoherent'
<1> SUFFICES ASSUME MemoryInv, CacheCoherent, [ManagerNext]_managerVars PROVE CacheCoherent'
  OBVIOUS
<1> USE DEF MemoryInv
<1>1. ASSUME NEW id \in Ids, NEW p \in ProjectIds, NEW s \in Sources,
             NEW e \in (1 .. MaxTime) \cup {Never}, Observe(id, p, s, e)
      PROVE  CacheCoherent'
  BY <1>1, ObserveStores, PutKeepsCache
<1>2. ASSUME NEW id \in Ids, Disable(id) \/ Enable(id) \/ Delete(id)
      PROVE  CacheCoherent'
  BY <1>2, ChangeStores, PutKeepsCache
<1>3. ASSUME memory' = memory, NEW p \in ProjectIds
      PROVE  Ranked(p)' = Ranked(p)
  BY <1>3 DEF Ranked, ActiveOf
<1>4. ASSUME NEW p \in ProjectIds, ListEligible(p)
      PROVE  CacheCoherent'
  <2> SUFFICES ASSUME NEW q \in ProjectIds
               PROVE  cache'[q] \in {NotCached, Ranked(q)'}
    BY DEF CacheCoherent
  <2>1. Ranked(q)' = Ranked(q)
    BY <1>3, <1>4 DEF ListEligible
  <2>2. cache'[q] \in {cache[q], Ranked(q)}
    BY <1>4 DEF ListEligible, ManagerTypeOK
  <2> QED
    BY <2>1, <2>2 DEF CacheCoherent
<1>5. CASE Tick
  BY <1>3, <1>5 DEF Tick, CacheCoherent
<1>6. CASE UNCHANGED managerVars
  BY <1>3, <1>6 DEF managerVars, CacheCoherent
<1> QED
  BY <1>1, <1>2, <1>4, <1>5, <1>6 DEF ManagerNext

\* An empty manager is well typed and has nothing cached.
LEMMA ManagerStarts == ManagerInit => MemoryInv /\ CacheCoherent
BY MemoryConstants
DEF ManagerInit, MemoryInv, ManagerTypeOK, InferenceConfirmed, CacheCoherent, NoListing

\* The memory table stays well typed whatever is called.
THEOREM MemoryTypeCorrect == ManagerSpec => []ManagerTypeOK
<1>1. MemoryInv => ManagerTypeOK
  BY DEF MemoryInv
<1> QED
  BY <1>1, ManagerStarts, MemoryInvStep, PTL DEF ManagerSpec

\* No sequence of observations, disables and enables activates an inference
\* that was seen fewer than Threshold times.
THEOREM MemoryInferenceConfirmed == ManagerSpec => []InferenceConfirmed
<1>1. MemoryInv => InferenceConfirmed
  BY DEF MemoryInv
<1> QED
  BY <1>1, ManagerStarts, MemoryInvStep, PTL DEF ManagerSpec

\* Every step keeps the last answer current, or has it forgotten.
LEMMA ListingStep == MemoryInv /\ ListingCurrent /\ [ManagerNext]_managerVars => ListingCurrent'
<1> SUFFICES ASSUME MemoryInv, ListingCurrent, [ManagerNext]_managerVars PROVE ListingCurrent'
  OBVIOUS
<1>1. CacheCoherent'
  BY CacheStep DEF ListingCurrent
<1>2. ASSUME NEW id \in Ids, NEW p \in ProjectIds, NEW s \in Sources,
             NEW e \in (1 .. MaxTime) \cup {Never}, Observe(id, p, s, e)
      PROVE  listed' = NoListing
  BY <1>2 DEF Observe, Put
<1>3. ASSUME NEW id \in Ids, Disable(id) \/ Enable(id) \/ Delete(id)
      PROVE  listed' = NoListing
  BY <1>3 DEF Disable, Enable, Delete, Put
<1>4. ASSUME NEW p \in ProjectIds, ListEligible(p)
      PROVE  listed'.items = Unexpired(Ranked(listed.project), now)'
  <2>1. listed' = [project |-> p, items |-> Unexpired(Ranked(p), now)]
    BY <1>4 DEF ListEligible, ListingCurrent, CacheCoherent
  <2>2. memory' = memory /\ now' = now
    BY <1>4 DEF ListEligible
  <2> QED
    BY <2>1, <2>2 DEF Ranked, ActiveOf
<1>5. CASE Tick
  BY <1>1, <1>5 DEF Tick, ListingCurrent, NoListing
<1>6. CASE UNCHANGED managerVars
  BY <1>1, <1>6 DEF managerVars, ListingCurrent, NoListing, Ranked, ActiveOf
<1> QED
  BY <1>1, <1>2, <1>3, <1>4, <1>5, <1>6 DEF ManagerNext, ListingCurrent, NoListing

\* The hand-maintained cache never differs from a fresh computation.
THEOREM MemoryCacheCoherent == ManagerSpec => []CacheCoherent
BY ManagerStarts, MemoryInvStep, CacheStep, PTL DEF ManagerSpec

\* Every listing is what a fresh computation gives, less what has expired.
THEOREM MemoryListingCurrent == ManagerSpec => []ListingCurrent
<1>1. ManagerInit => ListingCurrent
  BY ManagerStarts DEF ManagerInit, ListingCurrent
<1> QED
  BY <1>1, ManagerStarts, MemoryInvStep, ListingStep, PTL DEF ManagerSpec
=============================================================================
