--------------------------- MODULE MemoryManager ---------------------------
(***************************************************************************)
(* The in-process project memory of internal/context/memory.go: memories   *)
(* observed from the user, from repository rules or by inference, and a    *)
(* cache of the eligible ones per project, kept right by hand: every       *)
(* operation that changes a memory has to drop its project's cache.  A     *)
(* mutex makes each operation one step.                                    *)
(*                                                                         *)
(* Refused calls change nothing and are not steps.  Confidence is not      *)
(* stored: Observe always recomputes it from the source and the count.     *)
(***************************************************************************)
EXTENDS Integers, Sequences, FiniteSets, SequencesExt

CONSTANTS Ids,        \* memory ids; strings compared in order in the code
          ProjectIds,
          NoMemory,   \* the id is not in the map
          NotCached,  \* the project is not in the cache
          Threshold,  \* observations an inference needs
          Never,      \* ExpiresAt = nil
          MaxCount,   \* bound: observations of one memory
          MaxTime     \* bound: the clock

ASSUME MemoryConstants == /\ Ids \subseteq Nat
                          /\ IsFiniteSet(Ids)
                          /\ Threshold \in Nat \ {0, 1}   \* NewMemoryManager
                          /\ MaxCount \in Nat \ {0}
                          /\ MaxTime \in Nat
                          /\ Never \notin 0 .. MaxTime

Sources == {"user-explicit", "repository-rule", "inferred"}
MemoryStates == {"candidate", "active", "disabled", "deleted"}

Memories == [id : Ids, project : ProjectIds, source : Sources, count : 0 .. MaxCount,
             state : MemoryStates, text : BOOLEAN, expires : (1 .. MaxTime) \cup {Never}]

VARIABLES memory,   \* memory[id], or NoMemory
          deleted,  \* tombstones
          cache,    \* cache[p]: the sorted eligible memories, or NotCached
          now,      \* the clock
          listed    \* what the last call of ListEligible returned

managerVars == <<memory, deleted, cache, now, listed>>

NoListing == [project |-> "none", items |-> <<>>]

ManagerInit == /\ memory = [id \in Ids |-> NoMemory]
               /\ deleted = {}
               /\ cache = [p \in ProjectIds |-> NotCached]
               /\ now = 0
               /\ listed = NoListing

Priority(source) == CASE source = "user-explicit" -> 3
                      [] source = "repository-rule" -> 2
                      [] source = "inferred" -> 1

\* Confidence * 100 * Threshold.
Confidence(m) == CASE m.source = "user-explicit" -> 100 * Threshold
                   [] m.source = "repository-rule" -> 98 * Threshold
                   [] m.source = "inferred" -> IF 75 * m.count < 90 * Threshold
                                               THEN 75 * m.count
                                               ELSE 90 * Threshold

Before(m, n) == \/ Priority(m.source) > Priority(n.source)
                \/ /\ Priority(m.source) = Priority(n.source)
                   /\ \/ Confidence(m) > Confidence(n)
                      \/ Confidence(m) = Confidence(n) /\ m.id < n.id

\* The active memories of project p, best first.
ActiveOf(p) == {memory[id] : id \in {i \in Ids : /\ memory[i] # NoMemory
                                                 /\ memory[i].project = p
                                                 /\ memory[i].state = "active"}}
Ranked(p) == SetToSortSeq(ActiveOf(p), Before)

Unexpired(items, time) == SelectSeq(items, LAMBDA m : m.expires = Never \/ m.expires > time)
-----------------------------------------------------------------------------
\* Mutant: the first inference is enough.
EagerInferenceState(count) == "active"

InferenceState(count) == IF count >= Threshold THEN "active" ELSE "candidate"

\* The switch on the source the memory ends up with.
Settle(m) == IF m.source = "inferred"
             THEN [m EXCEPT !.count = @ + 1, !.state = InferenceState(m.count + 1)]
             ELSE [m EXCEPT !.count = IF @ = 0 THEN 1 ELSE @, !.state = "active"]

\* Mutant: the cached list survives a change that makes no memory eligible.
PutLazy(m) == /\ memory' = [memory EXCEPT ![m.id] = m]
              /\ cache' = IF m.state = "active"
                          THEN [cache EXCEPT ![m.project] = NotCached]
                          ELSE cache
              /\ listed' = NoListing
              /\ UNCHANGED now

\* Store a memory and drop the cached list of its project.
Put(m) == /\ memory' = [memory EXCEPT ![m.id] = m]
          /\ cache' = [cache EXCEPT ![m.project] = NotCached]
          /\ listed' = NoListing
          /\ UNCHANGED now

\* Observe: a tombstone, a disabled memory or another project's memory
\* refuses; a weaker source confirms but does not overwrite.
Observe(id, project, source, expires) ==
  LET known == memory[id] # NoMemory
      old   == IF known THEN memory[id]
               ELSE [id |-> id, project |-> project, source |-> source, count |-> 0,
                     state |-> "candidate", text |-> TRUE, expires |-> expires]
      new   == IF Priority(source) >= Priority(old.source)
               THEN [old EXCEPT !.source = source, !.text = TRUE, !.expires = expires]
               ELSE old
  IN  /\ id \notin deleted
      /\ known => /\ memory[id].state # "disabled"
                  /\ memory[id].project = project
      /\ new.source = "inferred" => old.count < MaxCount
      /\ Put(Settle(new))
      /\ UNCHANGED deleted

\* ListEligible: fill the cache if it is empty; expiry is judged on reading.
ListEligible(p) ==
  LET cached == IF cache[p] = NotCached THEN Ranked(p) ELSE cache[p]
  IN  /\ cache' = [cache EXCEPT ![p] = cached]
      /\ listed' = [project |-> p, items |-> Unexpired(cached, now)]
      /\ UNCHANGED <<memory, deleted, now>>

Disable(id) == /\ memory[id] # NoMemory
               /\ Put([memory[id] EXCEPT !.state = "disabled"])
               /\ UNCHANGED deleted

Enable(id) ==
  LET m == memory[id]
  IN  /\ m # NoMemory
      /\ m.state # "deleted"
      /\ Put([m EXCEPT !.state = IF m.source = "inferred"
                                 THEN InferenceState(m.count)
                                 ELSE "active"])
      /\ UNCHANGED deleted

Delete(id) == /\ memory[id] # NoMemory
              /\ Put([memory[id] EXCEPT !.state = "deleted", !.text = FALSE])
              /\ deleted' = deleted \cup {id}

Tick == /\ now < MaxTime
        /\ now' = now + 1
        /\ listed' = NoListing
        /\ UNCHANGED <<memory, deleted, cache>>

ManagerNext == \/ \E id \in Ids : \/ \E p \in ProjectIds : \E s \in Sources :
                                       \E e \in (1 .. MaxTime) \cup {Never} : Observe(id, p, s, e)
                                  \/ Disable(id) \/ Enable(id) \/ Delete(id)
               \/ \E p \in ProjectIds : ListEligible(p)
               \/ Tick

ManagerSpec == ManagerInit /\ [][ManagerNext]_managerVars
-----------------------------------------------------------------------------
(* Properties *)

ManagerTypeOK == /\ memory \in [Ids -> Memories \cup {NoMemory}]
                 /\ \A id \in Ids : memory[id] # NoMemory => memory[id].id = id
                 /\ deleted \subseteq Ids
                 /\ cache = [p \in ProjectIds |-> cache[p]]
                 /\ now \in 0 .. MaxTime

\* A cached list is the list a fresh computation would give, in the same
\* order: no operation leaves a stale cache behind (memory.go:123, 131-149,
\* 170, 190, 205).
CacheCoherent == \A p \in ProjectIds : cache[p] \in {NotCached, Ranked(p)}

\* An inferred memory is active only after Threshold observations, whatever
\* was disabled and enabled in between (memory.go:112-120, 183-187;
\* memory_test.go:46, 59).
InferenceConfirmed ==
  \A id \in Ids : memory[id] # NoMemory /\ memory[id].source = "inferred"
                  /\ memory[id].state = "active"
                    => memory[id].count >= Threshold

\* A listing is what a fresh computation gives, less what has expired by now,
\* even when it comes out of a cache that was filled before it did, and no later
\* call will find a stale one (memory.go:127-159).
ListingCurrent ==
  /\ CacheCoherent
  /\ listed # NoListing => listed.items = Unexpired(Ranked(listed.project), now)
=============================================================================
