--------------------------- MODULE ProjectMemory ---------------------------
(***************************************************************************)
(* The project memory of the dashboard: rows of table memories,            *)
(* internal/storage/memory.go.  A row is edited by reading it, changing    *)
(* the copy and writing all of the copy back; requests of several tabs run *)
(* at once.  A deleted row stays, emptied.  Texts are left out: an edit    *)
(* that is not one of the state is one of the text.                        *)
(***************************************************************************)
EXTENDS Integers, FiniteSets

CONSTANTS MemoryIds, Projects,
          Editors,  \* requests to the dashboard's server
          NoRow,    \* a row that does not exist
          Idle,     \* an editor, or a hook, that does nothing
          MaxEdits  \* bound: edits

EditableStates == {"candidate", "active", "disabled"}
States == EditableStates \cup {"deleted"}
Rows == [project : Projects, state : States]

ASSUME MemoryRowConstants == MaxEdits \in Nat /\ NoRow \notin Rows

VARIABLES
  memories,   \* memories[m] = [project, state], or NoRow
  editing,    \* editing[e]: the copy an editor is about to write, or Idle
  edits,      \* edits so far
  asked,      \* asked[m]: the state the users asked for last
  overlapped  \* the memories of which two edits overlapped

memoryVars == <<memories, editing, edits, asked, overlapped>>

MemoryInit == /\ memories = [m \in MemoryIds |-> NoRow]
              /\ editing = [e \in Editors |-> Idle]
              /\ edits = 0
              /\ asked = [m \in MemoryIds |-> "none"]
              /\ overlapped = {}

\* Rows that are read, listed, edited or deleted.
Live(m) == memories[m] # NoRow /\ memories[m].state # "deleted"

Active(project) == {m \in MemoryIds : Live(m) /\ memories[m].project = project
                                              /\ memories[m].state = "active"}
-----------------------------------------------------------------------------
\* What a user writes is a candidate until it is confirmed.
CreateMemory(m, project) ==
  /\ memories[m] = NoRow
  /\ memories' = [memories EXCEPT ![m] = [project |-> project, state |-> "candidate"]]
  /\ asked' = [asked EXCEPT ![m] = "candidate"]
  /\ UNCHANGED <<editing, edits, overlapped>>

Editing(m) == {e \in Editors : editing[e] # Idle /\ editing[e].id = m}

\* A slip the runs must notice: an edit of the text asks for confirmation anew.
CopyAsCandidate(m, state) ==
  [id |-> m, asks |-> state,
   state |-> IF state = "same" THEN "candidate" ELSE state]

\* UpdateMemory's copy of the row with the input put in; an input without a
\* state keeps the row's.
Copy(m, state) ==
  [id |-> m, asks |-> state,
   state |-> IF state = "same" THEN memories[m].state ELSE state]

\* UpdateMemory reads.
ReadMemory(e, m) ==
  /\ editing[e] = Idle /\ Live(m)
  /\ edits < MaxEdits
  /\ edits' = edits + 1
  /\ \E state \in EditableStates \cup {"same"} :
       editing' = [editing EXCEPT ![e] = Copy(m, state)]
  /\ overlapped' = IF Editing(m) = {} THEN overlapped ELSE overlapped \cup {m}
  /\ UNCHANGED <<memories, asked>>

\* A slip the runs must notice: the write does not look whether the row is deleted.
WriteMemoryAnyhow(e) ==
  /\ editing[e] # Idle
  /\ editing' = [editing EXCEPT ![e] = Idle]
  /\ LET copy == editing[e]
     IN  /\ memories' = [memories EXCEPT ![copy.id].state = copy.state]
         /\ asked' = IF copy.asks = "same" THEN asked
                     ELSE [asked EXCEPT ![copy.id] = copy.asks]
  /\ UNCHANGED <<edits, overlapped>>

\* UpdateMemory writes, unless the row was deleted meanwhile.
WriteMemory(e) ==
  /\ editing[e] # Idle
  /\ editing' = [editing EXCEPT ![e] = Idle]
  /\ LET copy == editing[e]
     IN  IF Live(copy.id)
         THEN /\ memories' = [memories EXCEPT ![copy.id].state = copy.state]
              /\ asked' = IF copy.asks = "same" THEN asked
                          ELSE [asked EXCEPT ![copy.id] = copy.asks]
         ELSE UNCHANGED <<memories, asked>>
  /\ UNCHANGED <<edits, overlapped>>

DeleteMemory(m) ==
  /\ Live(m)
  /\ memories' = [memories EXCEPT ![m].state = "deleted"]
  /\ asked' = [asked EXCEPT ![m] = "deleted"]
  /\ UNCHANGED <<editing, edits, overlapped>>

MemoryNext == \/ \E m \in MemoryIds, project \in Projects : CreateMemory(m, project)
              \/ \E e \in Editors, m \in MemoryIds : ReadMemory(e, m)
              \/ \E e \in Editors : WriteMemory(e)
              \/ \E m \in MemoryIds : DeleteMemory(m)
-----------------------------------------------------------------------------
Copies == [id : MemoryIds, asks : EditableStates \cup {"same"}, state : EditableStates]

MemoryTypeOK ==
  /\ memories \in [MemoryIds -> Rows \cup {NoRow}]
  /\ editing \in [Editors -> Copies \cup {Idle}]
  /\ \A e \in Editors : editing[e] # Idle => memories[editing[e].id] # NoRow
  /\ edits \in 0 .. MaxEdits
  /\ asked \in [MemoryIds -> States \cup {"none"}]
  /\ overlapped \subseteq MemoryIds

\* A deleted memory is gone for good: an edit that read it before the deletion
\* does not bring it back (memory.go:87).
DeletedIsFinal ==
  [][\A m \in MemoryIds : memories[m] # NoRow /\ memories[m].state = "deleted" =>
       memories'[m] = memories[m]]_memoryVars

\* The state of a memory is the one that was asked for last, if no two edits of
\* it overlapped: an edit of the text alone keeps it (memory.go:68-92).
StateAsAsked ==
  \A m \in MemoryIds \ overlapped :
    memories[m] # NoRow => memories[m].state = asked[m]

\* Why: a memory without overlapping edits has one editor, and its copy has the
\* state that the editor asks for, or the row's.
CopiesInv ==
  \A m \in MemoryIds \ overlapped :
    /\ \A e, f \in Editing(m) : e = f
    /\ \A e \in Editing(m) :
         editing[e].state = IF editing[e].asks # "same" THEN editing[e].asks
                            ELSE IF Live(m) THEN memories[m].state ELSE editing[e].state
=============================================================================
