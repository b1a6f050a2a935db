------------------------- MODULE GuidanceHookProofs -------------------------
(***************************************************************************)
(* Proofs about GuidanceHook, for any processes, calls, run lengths and    *)
(* failures: what is inductive of the tables and the processes (HookInv),  *)
(* and what follows for the answers.                                       *)
(***************************************************************************)
EXTENDS GuidanceHook, GuidanceProofs

\* What Project makes of the stored events: their signals, in the order of time.
LEMMA ProjectIs ==
  ASSUME NEW stored, IsFiniteSet(stored), \A e \in stored : e.at \in Nat,
         \A d, e \in stored : d.at = e.at => d = e,
         NEW s, s = Project(stored)
  PROVE  /\ Len(s) \in Nat /\ DOMAIN s = 1 .. Len(s)
         /\ \A i \in 1 .. Len(s) : \E e \in stored :
              s[i] = Signal(e) /\ SignalKind(e.call.name) # "none"
         /\ \A e \in stored : SignalKind(e.call.name) # "none" =>
              \E i \in 1 .. Len(s) : s[i] = Signal(e)
         /\ \A i, j \in 1 .. Len(s) : i < j => s[i].id < s[j].id
<1> DEFINE telling == {e \in stored : SignalKind(e.call.name) # "none"}
           n == Cardinality(telling)
           R == {p \in telling \X telling : p[1].at < p[2].at}
           q == Enumeration(R, telling)
<1>1. IsFiniteSet(telling) /\ n \in Nat
  <2>1. IsFiniteSet(telling)
    BY FS_Subset
  <2> QED
    BY <2>1, FS_CardinalityType
<1>2. \A d, e \in telling : <<d, e>> \in R <=> d.at < e.at
  OBVIOUS
<1>3. TotallyOrders(R, telling)
  <2>1. \A e \in telling : e.at \in Nat
    OBVIOUS
  <2>2. \A d, e \in telling : d.at = e.at => d = e
    OBVIOUS
  <2> HIDE DEF telling, R
  <2> QED
    BY <1>2, <2>1, <2>2 DEF TotallyOrders
<1>4. \A e \in telling : SetLessThan(e, R, telling) = {d \in telling : d.at < e.at}
  <2> HIDE DEF telling, R
  <2> QED
    BY <1>2 DEF SetLessThan
<1>5. s = [i \in 1 .. n |-> Signal(q[i])]
  <2>1. ASSUME NEW i \in 1 .. n
        PROVE  (CHOOSE e \in telling : Cardinality({d \in telling : d.at < e.at}) = i - 1) = q[i]
    <3> HIDE DEF telling, R
    <3>1. \A e \in telling : Cardinality({d \in telling : d.at < e.at}) = i - 1
                               <=> Cardinality(SetLessThan(e, R, telling)) = i - 1
      BY <1>4
    <3> QED
      BY <3>1 DEF Enumeration
  <2>2. s = [i \in 1 .. n |-> Signal(CHOOSE e \in telling :
                                       Cardinality({d \in telling : d.at < e.at}) = i - 1)]
    BY DEF Project
  <2> HIDE DEF telling, q
  <2> QED
    BY <2>1, <2>2
<1>6. /\ \A i \in 1 .. n : q[i] \in telling
      /\ \A e \in telling : \E i \in 1 .. n : q[i] = e
      /\ \A i, j \in 1 .. n : <<q[i], q[j]>> \in R <=> i < j
  <2> HIDE DEF telling, R
  <2> QED
    BY <1>1, <1>3, Enumerated
<1>7. Len(s) = n /\ DOMAIN s = 1 .. n
  BY <1>1, <1>5
<1>8. \A i, j \in 1 .. n : i < j => s[i].id < s[j].id
  <2>1. \A i, j \in 1 .. n : i < j => q[i].at < q[j].at
    <3> HIDE DEF telling, R, q
    <3> QED
      BY <1>2, <1>6
  <2>2. \A i \in 1 .. n : s[i].id = q[i].at
    <3>1. \A e : Signal(e).id = e.at
      BY DEF Signal
    <3> HIDE DEF q
    <3> QED
      BY <1>5, <3>1
  <2> QED
    BY <2>1, <2>2
<1> HIDE DEF q, R, n
<1> QED
  BY <1>1, <1>5, <1>6, <1>7, <1>8

-----------------------------------------------------------------------------
(* The inductive invariant *)

OneRowPerEvidence == \A q, r \in rows : SameKey(q, r.decision) => q = r

\* Rows are records of the table's columns, no two with the same key.
RowsInv == /\ \A r \in rows : DOMAIN r = {"decision", "created", "expired"} /\ r.expired \in BOOLEAN
           /\ OneRowPerEvidence

\* The events of the session: one for each instant.
EventsInv == /\ IsFiniteSet(events)
             /\ clock \in 0 .. MaxCalls
             /\ events \subseteq [at : 1 .. clock, call : Calls]
             /\ \A d, e \in events : d.at = e.at => d = e

\* A decision with evidence among the stored events, of the kind it needs.
Founded(d, stored) ==
  /\ d \in [kind : Kinds, evidence : Seq(1 .. MaxCalls)]
  /\ d.kind = "continue" => d = Continue
  /\ d.kind # "continue" => d.evidence # <<>>
  /\ \A i \in DOMAIN d.evidence : \E e \in stored :
       e.at = d.evidence[i] /\ Grounds(d.kind, SignalKind(e.call.name))

\* A process at any of its steps.
Sound(p, stored, now) ==
  /\ p \in Processes /\ p.at <= now
  /\ p.pc = "insert" => \A e \in stored : e.at # p.at
  /\ p.pc # "insert" => [at |-> p.at, call |-> p.call] \in stored
  /\ Founded(p.judged, stored)
  /\ p.pc \in {"insert", "evaluate", "persist"} => p.decision = Continue /\ ~p.expired
  /\ p.pc = "persist" => p.judged.kind # "continue"
  /\ p.pc = "respond" => p.decision = p.judged
  /\ p.pc \in {"persist", "respond"} /\ p.call.name = "Stop" =>
       p.judged.kind = "verify" /\ p.judged.evidence[1] >= p.at /\ ~p.expired

\* Whatever ran before it: the rules never learn of a test.
StopsBlocked ==
  answered # NoAnswer /\ answered.call.name = "Stop" /\ answered.level \in {"guard", "autopilot"}
    => answered.response = "block"

ProcessesInv ==
  /\ hook = [h \in Hooks |-> hook[h]]
  /\ \A h \in Hooks : hook[h] # Idle => Sound(hook[h], events, clock)
  /\ \A g, h \in Hooks : hook[g] # Idle /\ hook[h] # Idle /\ hook[g].at = hook[h].at => g = h

\* A row that expired rests on events before those of any process under way.
TableInv ==
  /\ RowsInv
  /\ \A r \in rows : /\ Founded(r.decision, events)
                     /\ r.decision.kind # "continue"
                     /\ r.created \in 1 .. clock
  /\ \A r \in rows, h \in Hooks : r.expired /\ hook[h] # Idle =>
       \A i \in DOMAIN r.decision.evidence : r.decision.evidence[i] < hook[h].at

HookInv == EventsInv /\ level \in Levels /\ ProcessesInv /\ TableInv /\ StopsBlocked

LEMMA FoundedGrows ==
  ASSUME NEW d, NEW A, NEW B, A \subseteq B, Founded(d, A)
  PROVE  Founded(d, B)
BY DEF Founded

LEMMA SoundLater ==
  ASSUME NEW p, NEW A, NEW B, A \subseteq B, NEW m \in Nat, NEW n \in Nat, m <= n,
         Sound(p, A, m), p.pc = "insert" => \A e \in B : e.at # p.at
  PROVE  Sound(p, B, n)
<1>1. p.at \in Nat
  BY HookConstants DEF Sound, Processes
<1>2. p.at <= n
  BY <1>1 DEF Sound
<1>3. Founded(p.judged, B)
  BY FoundedGrows DEF Sound
<1>4. p.pc # "insert" => [at |-> p.at, call |-> p.call] \in B
  BY DEF Sound
<1> QED
  BY <1>2, <1>3, <1>4 DEF Sound

\* What Evaluate says of the stored events.
LEMMA EvaluateFounded ==
  ASSUME EventsInv, NEW d, d = Evaluate(Project(events))
  PROVE  /\ Founded(d, events)
         /\ \A e \in events : e.call.name = "Stop" =>
              d.kind = "verify" /\ d.evidence[1] >= e.at
<1> DEFINE s == Project(events)
           n == Len(s)
<1>1. /\ n \in Nat /\ DOMAIN s = 1 .. n
      /\ \A i \in 1 .. n : \E e \in events : s[i] = Signal(e) /\ SignalKind(e.call.name) # "none"
      /\ \A e \in events : SignalKind(e.call.name) # "none" => \E i \in 1 .. n : s[i] = Signal(e)
      /\ \A i, j \in 1 .. n : i < j => s[i].id < s[j].id
  <2>1. \A e \in events : e.at \in Nat
    BY DEF EventsInv
  <2> QED
    BY <2>1, ProjectIs DEF EventsInv
<1>2. s # <<>> => n # 0
  BY <1>1
<1>3. \A e : Signal(e).id = e.at /\ Signal(e).kind = SignalKind(e.call.name)
  BY DEF Signal
<1>4. \A i \in 1 .. n : \E e \in events : s[i].id = e.at /\ s[i].kind = SignalKind(e.call.name)
  BY <1>1, <1>3
<1>5. ASSUME d.kind # "continue"
      PROVE  Founded(d, events)
  <2>1. PICK k \in Nat \ {0} :
           /\ d.evidence = [i \in 1 .. k |-> d.evidence[i]]
           /\ \A i \in 1 .. k : \E j \in 1 .. n :
                d.evidence[i] = s[j].id /\ Grounds(d.kind, s[j].kind)
    <3>1. d = Evaluate(s)
      OBVIOUS
    <3> HIDE DEF s
    <3> QED
      BY <1>1, <1>2, <1>5, <3>1, EvidenceGiven
  <2>2. \A i \in 1 .. k : \E e \in events :
          e.at = d.evidence[i] /\ Grounds(d.kind, SignalKind(e.call.name))
    BY <1>4, <2>1
  <2>3. \A e \in events : e.at \in 1 .. MaxCalls
    BY HookConstants DEF EventsInv
  <2>4. \A i \in 1 .. k : d.evidence[i] \in 1 .. MaxCalls
    BY <2>2, <2>3
  <2>5. d.evidence \in Seq(1 .. MaxCalls) /\ DOMAIN d.evidence = 1 .. k
    BY <2>1, <2>4
  <2>6. d.evidence # <<>>
    BY <2>1
  <2>7. d \in [kind : Kinds, evidence : Seq(1 .. MaxCalls)]
    <3>1. s # <<>>
      BY <1>5 DEF Evaluate, Continue, Decision
    <3>2. d.kind \in Kinds
      BY <3>1, EvaluateIs
    <3>3. d = [kind |-> d.kind, evidence |-> d.evidence]
      BY DEF Evaluate, Continue, Decision
    <3> QED
      BY <2>5, <3>2, <3>3
  <2> QED
    BY <1>5, <2>2, <2>5, <2>6, <2>7 DEF Founded
<1>6. ASSUME d.kind = "continue"
      PROVE  Founded(d, events)
  <2>1. d = Continue
    <3>1. CASE s = <<>>
      BY <3>1 DEF Evaluate
    <3>2. CASE s # <<>>
      BY <1>6, <3>2, EvaluateIs
    <3> QED
      BY <3>1, <3>2
  <2>2. Continue.kind = "continue" /\ Continue.evidence = <<>> /\ DOMAIN Continue.evidence = {}
    BY DEF Continue, Decision
  <2>3. Continue \in [kind : Kinds, evidence : Seq(1 .. MaxCalls)]
    BY DEF Continue, Decision, Kinds
  <2> QED
    BY <1>6, <2>1, <2>2, <2>3 DEF Founded
<1>7. ASSUME NEW e \in events, e.call.name = "Stop"
      PROVE  d.kind = "verify" /\ d.evidence[1] >= e.at
  <2>1. SignalKind(e.call.name) = "session.completed"
    BY <1>7 DEF SignalKind
  <2>2. PICK i \in 1 .. n : s[i] = Signal(e)
    BY <1>1, <2>1
  <2>3. IsCompletion(s[i]) /\ s # <<>>
    BY <1>1, <1>3, <2>1, <2>2 DEF IsCompletion
  <2>4. PICK c : LastCompletionAt(s, c)
    <3> HIDE DEF s
    <3> QED
      BY <1>1, <2>3, UnvalidatedIs
  <2>5. c \in 1 .. n /\ \A j \in c + 1 .. n : ~IsCompletion(s[j])
    BY <2>4 DEF LastCompletionAt
  <2>6. i <= c
    <3>1. i > c => i \in c + 1 .. n
      BY <1>1, <2>5
    <3> HIDE DEF s
    <3> QED
      BY <1>1, <2>3, <2>5, <3>1
  <2>7. \A v \in 1 .. n : s[v].kind # "validation.passed"
    <3>1. \A f \in events : f.call.name \in HookNames
      BY HookConstants DEF EventsInv
    <3>2. \A name \in HookNames : SignalKind(name) # "validation.passed"
      BY DEF HookNames, SignalKind
    <3> HIDE DEF s
    <3> QED
      BY <1>4, <3>1, <3>2
  <2>8. UnvalidatedCompletion(s) = <<s[c].id>>
    <3> HIDE DEF s
    <3> QED
      BY <1>1, <2>4, <2>7, UnvalidatedIs DEF ValidatedAt
  <2>9. d.kind = "verify" /\ d.evidence = <<s[c].id>>
    <3> HIDE DEF s
    <3>1. d = Evaluate(s)
      BY DEF s
    <3>2. <<s[c].id>> # <<>>
      OBVIOUS
    <3> QED
      BY <2>3, <2>8, <3>1, <3>2, EvaluateIs
  <2>10. s[c].id >= e.at
    <3>1. s[i].id = e.at
      BY <1>3, <2>2
    <3>2. s[i].id \in Nat /\ s[c].id \in Nat
      <4>1. \A f \in events : f.at \in Nat
        BY DEF EventsInv
      <4> HIDE DEF s
      <4> QED
        BY <1>4, <2>5, <4>1
    <3>3. i = c \/ s[i].id < s[c].id
      <4> HIDE DEF s
      <4> QED
        BY <1>1, <2>5, <2>6
    <3> HIDE DEF s
    <3> QED
      BY <3>1, <3>2, <3>3
  <2> QED
    BY <2>9, <2>10
<1> QED
  BY <1>5, <1>6, <1>7

\* The facts about the other processes when one of them moves.
LEMMA OneMoves ==
  ASSUME EventsInv, EventsInv', ProcessesInv, NEW h \in Hooks, NEW p,
         hook' = [hook EXCEPT ![h] = p],
         clock <= clock', events \subseteq events',
         \A g \in Hooks \ {h} : hook[g] # Idle =>
           /\ p # Idle => hook[g].at # p.at
           /\ hook[g].pc = "insert" => \A e \in events' : e.at # hook[g].at,
         p # Idle => Sound(p, events', clock')
  PROVE  ProcessesInv'
<1>1. hook' = [g \in Hooks |-> hook'[g]] /\ hook'[h] = p /\ \A g \in Hooks \ {h} : hook'[g] = hook[g]
  BY DEF ProcessesInv
<1>2. clock \in Nat /\ clock' \in Nat
  BY HookConstants DEF EventsInv
<1>3. ASSUME NEW g \in Hooks \ {h}, hook[g] # Idle PROVE Sound(hook[g], events', clock')
  <2>1. Sound(hook[g], events, clock)
    BY <1>3 DEF ProcessesInv
  <2>2. hook[g].pc = "insert" => \A e \in events' : e.at # hook[g].at
    BY <1>3
  <2> QED
    BY <1>2, <2>1, <2>2, SoundLater
<1>4. \A g \in Hooks : hook'[g] # Idle => Sound(hook'[g], events', clock')
  BY <1>1, <1>3
<1>5. ASSUME NEW f \in Hooks, NEW g \in Hooks, hook'[f] # Idle, hook'[g] # Idle,
             hook'[f].at = hook'[g].at
      PROVE  f = g
  BY <1>1, <1>5 DEF ProcessesInv
<1> QED
  BY <1>1, <1>4, <1>5 DEF ProcessesInv

\* The facts about rows that stay, when processes come and go.
LEMMA RowsStay ==
  ASSUME EventsInv, EventsInv', TableInv, rows' = rows,
         clock <= clock', events \subseteq events',
         \A g \in Hooks : hook'[g] # Idle =>
           \/ hook[g] # Idle /\ hook'[g].at = hook[g].at
           \/ hook'[g].at \in Nat /\ hook'[g].at > clock
  PROVE  TableInv'
<1>1. RowsInv'
  BY DEF TableInv, RowsInv, OneRowPerEvidence, SameKey
<1>2. \A r \in rows : Founded(r.decision, events')
  BY FoundedGrows DEF TableInv
<1>3. clock \in Nat /\ clock' \in Nat
  BY HookConstants DEF EventsInv
<1>4. \A r \in rows : r.created \in 1 .. clock'
  BY <1>3 DEF TableInv
<1>5. ASSUME NEW r \in rows, NEW g \in Hooks, r.expired, hook'[g] # Idle,
             NEW i \in DOMAIN r.decision.evidence
      PROVE  r.decision.evidence[i] < hook'[g].at
  <2>1. CASE hook[g] # Idle /\ hook'[g].at = hook[g].at
    BY <1>5, <2>1 DEF TableInv
  <2>2. CASE hook'[g].at \in Nat /\ hook'[g].at > clock
    <3>1. PICK e \in events : e.at = r.decision.evidence[i]
      BY DEF TableInv, Founded
    <3>2. e.at \in 1 .. clock
      BY DEF EventsInv
    <3> QED
      BY <1>3, <2>2, <3>1, <3>2
  <2> QED
    BY <1>5, <2>1, <2>2
<1> QED
  BY <1>1, <1>2, <1>4, <1>5 DEF TableInv

LEMMA ArriveKeeps ==
  ASSUME HookInv, NEW h \in Hooks, Arrive(h)
  PROVE  HookInv'
<1> USE DEF HookInv
<1>1. PICK c \in Calls :
        hook' = [hook EXCEPT ![h] = [pc |-> "insert", at |-> clock + 1, call |-> c,
                                     judged |-> Continue, decision |-> Continue,
                                     expired |-> FALSE]]
  BY DEF Arrive
<1> DEFINE p == [pc |-> "insert", at |-> clock + 1, call |-> c, judged |-> Continue,
                 decision |-> Continue, expired |-> FALSE]
<1>2. /\ clock < MaxCalls /\ clock' = clock + 1 /\ hook[h] = Idle
      /\ UNCHANGED <<events, rows, level, answered>>
  BY DEF Arrive, tables
<1>3. clock \in Nat /\ MaxCalls \in Nat
  BY HookConstants DEF EventsInv
<1>4. EventsInv'
  BY <1>2, <1>3 DEF EventsInv
<1>5. Founded(Continue, events)
  BY DEF Founded, Continue, Decision, Kinds
<1>6. Sound(p, events', clock')
  <2>1. p \in Processes
    BY <1>2, <1>3, <1>5 DEF Processes, Founded
  <2>2. \A e \in events : e.at # clock + 1
    BY <1>3 DEF EventsInv
  <2> QED
    BY <1>2, <1>3, <1>5, <2>1, <2>2 DEF Sound
<1>7. ASSUME NEW g \in Hooks \ {h}, hook[g] # Idle
      PROVE  hook[g].at # p.at /\ (hook[g].pc = "insert" => \A e \in events' : e.at # hook[g].at)
  <2>1. Sound(hook[g], events, clock)
    BY <1>7 DEF ProcessesInv
  <2>2. hook[g].at \in Nat /\ hook[g].at <= clock
    BY <1>3, <2>1 DEF Sound, Processes
  <2> QED
    BY <1>2, <1>3, <2>1, <2>2 DEF Sound
<1> HIDE DEF p
<1>8. hook' = [hook EXCEPT ![h] = p]
  BY <1>1 DEF p
<1>9. ProcessesInv'
  <2>1. clock <= clock' /\ events \subseteq events'
    BY <1>2, <1>3
  <2> QED
    BY <1>4, <1>6, <1>7, <1>8, <2>1, OneMoves
<1>10. TableInv'
  <2>1. hook'[h] = p /\ \A g \in Hooks \ {h} : hook'[g] = hook[g]
    BY <1>8 DEF ProcessesInv
  <2>2. p.at \in Nat /\ p.at > clock
    BY <1>3 DEF p
  <2> QED
    BY <1>2, <1>3, <1>4, <2>1, <2>2, RowsStay
<1>11. StopsBlocked'
  BY <1>2 DEF StopsBlocked
<1> QED
  BY <1>2, <1>4, <1>9, <1>10, <1>11

LEMMA InsertKeeps ==
  ASSUME HookInv, NEW h \in Hooks, Insert(h)
  PROVE  HookInv'
<1> USE DEF HookInv
<1> DEFINE new == [at |-> hook[h].at, call |-> hook[h].call]
           p == [hook[h] EXCEPT !.pc = "evaluate"]
<1>1. /\ hook[h] # Idle /\ hook[h].pc = "insert"
      /\ events' = events \cup {new}
      /\ hook' = [hook EXCEPT ![h].pc = "evaluate"]
      /\ UNCHANGED <<rows, level, clock, answered>>
  BY DEF Insert
<1>2. Sound(hook[h], events, clock)
  BY <1>1 DEF ProcessesInv
<1>3. hook[h] \in Processes /\ hook[h].at \in 1 .. clock /\ hook[h].call \in Calls
  <2>1. hook[h] \in Processes /\ hook[h].at <= clock
    BY <1>2 DEF Sound
  <2>2. clock \in Nat /\ MaxCalls \in Nat
    BY HookConstants DEF EventsInv
  <2> QED
    BY <2>1, <2>2 DEF Processes
<1>4. \A e \in events : e.at # new.at
  BY <1>1, <1>2 DEF Sound
<1>5. EventsInv'
  <2>1. IsFiniteSet(events')
    BY <1>1, FS_AddElement DEF EventsInv
  <2>2. new \in [at : 1 .. clock, call : Calls]
    BY <1>3
  <2>3. \A d, e \in events' : d.at = e.at => d = e
    <3> HIDE DEF new
    <3> QED
      BY <1>1, <1>4 DEF EventsInv
  <2> HIDE DEF new
  <2> QED
    BY <1>1, <2>1, <2>2, <2>3 DEF EventsInv
<1>6. hook' = [hook EXCEPT ![h] = p]
  BY <1>1 DEF ProcessesInv
<1>7. events \subseteq events' /\ new \in events'
  BY <1>1
<1>8. /\ p \in Processes /\ p.pc = "evaluate" /\ p.at = hook[h].at /\ p.call = hook[h].call
      /\ p.judged = hook[h].judged /\ p.decision = hook[h].decision /\ p.expired = hook[h].expired
  BY <1>3 DEF Processes
<1>9. Sound(p, events', clock')
  <2>1. Founded(p.judged, events')
    BY <1>2, <1>7, <1>8, FoundedGrows DEF Sound
  <2>2. [at |-> p.at, call |-> p.call] \in events'
    BY <1>7, <1>8
  <2>3. p.decision = Continue /\ ~p.expired
    BY <1>1, <1>2, <1>8 DEF Sound
  <2>4. p.at <= clock'
    BY <1>1, <1>2, <1>8 DEF Sound
  <2> HIDE DEF p
  <2> QED
    BY <1>8, <2>1, <2>2, <2>3, <2>4 DEF Sound
<1>10. ASSUME NEW g \in Hooks \ {h}, hook[g] # Idle
       PROVE  hook[g].at # p.at /\ (hook[g].pc = "insert" => \A e \in events' : e.at # hook[g].at)
  <2>1. hook[g].at # hook[h].at
    BY <1>1, <1>10 DEF ProcessesInv
  <2>2. hook[g].pc = "insert" => \A e \in events : e.at # hook[g].at
    BY <1>10 DEF ProcessesInv, Sound
  <2>3. p.at = hook[h].at /\ new.at = hook[h].at
    BY <1>8
  <2> HIDE DEF p, new
  <2> QED
    BY <1>1, <2>1, <2>2, <2>3
<1> HIDE DEF p, new
<1>11. clock <= clock'
  BY <1>1, HookConstants DEF EventsInv
<1>12. ProcessesInv'
  BY <1>5, <1>6, <1>7, <1>9, <1>10, <1>11, OneMoves
<1>13. TableInv'
  <2>1. hook'[h].at = hook[h].at /\ \A g \in Hooks \ {h} : hook'[g] = hook[g]
    BY <1>6, <1>8 DEF ProcessesInv
  <2>2. \A g \in Hooks : hook'[g] # Idle => hook[g] # Idle /\ hook'[g].at = hook[g].at
    BY <1>1, <2>1
  <2> QED
    BY <1>1, <1>5, <1>7, <1>11, <2>2, RowsStay
<1>14. StopsBlocked'
  BY <1>1 DEF StopsBlocked
<1> QED
  BY <1>1, <1>5, <1>12, <1>13, <1>14

\* A process that moves on and leaves events and clock as they are.
LEMMA OneMovesOn ==
  ASSUME HookInv, NEW h \in Hooks, NEW p, hook[h] # Idle, hook' = [hook EXCEPT ![h] = p],
         UNCHANGED <<events, level, clock>>,
         p.at = hook[h].at, Sound(p, events, clock)
  PROVE  /\ EventsInv' /\ ProcessesInv' /\ (level \in Levels)'
         /\ \A g \in Hooks : hook'[g] # Idle => hook[g] # Idle /\ hook'[g].at = hook[g].at
<1> USE DEF HookInv
<1>1. EventsInv'
  BY DEF EventsInv
<1>2. clock <= clock'
  BY HookConstants DEF EventsInv
<1>3. ASSUME NEW g \in Hooks \ {h}, hook[g] # Idle
      PROVE  hook[g].at # p.at /\ (hook[g].pc = "insert" => \A e \in events' : e.at # hook[g].at)
  BY <1>3 DEF ProcessesInv, Sound
<1>4. ProcessesInv'
  BY <1>1, <1>2, <1>3, OneMoves
<1>5. hook'[h] = p /\ \A g \in Hooks \ {h} : hook'[g] = hook[g]
  BY DEF ProcessesInv
<1>6. \A g \in Hooks : hook'[g] # Idle => hook[g] # Idle /\ hook'[g].at = hook[g].at
  BY <1>5
<1> QED
  BY <1>1, <1>4, <1>6

LEMMA EvaluateKeeps ==
  ASSUME HookInv, NEW h \in Hooks, EvaluateSession(h)
  PROVE  HookInv'
<1> USE DEF HookInv
<1> DEFINE d == Evaluate(Project(events))
           next == IF d.kind = "continue" THEN "respond" ELSE "persist"
           p == [hook[h] EXCEPT !.judged = d, !.pc = next]
<1>1. /\ hook[h] # Idle /\ hook[h].pc = "evaluate"
      /\ UNCHANGED <<events, rows, level, clock, answered>>
  BY DEF EvaluateSession, tables
<1>2. hook' = [hook EXCEPT ![h] = p]
  <2>1. hook' = [hook EXCEPT ![h].judged = d, ![h].pc = next]
    BY DEF EvaluateSession
  <2> HIDE DEF d, next
  <2> QED
    BY <2>1 DEF ProcessesInv
<1>3. Sound(hook[h], events, clock)
  BY <1>1 DEF ProcessesInv
<1>4. /\ Founded(d, events)
      /\ \A e \in events : e.call.name = "Stop" => d.kind = "verify" /\ d.evidence[1] >= e.at
  <2> HIDE DEF d
  <2>1. d = Evaluate(Project(events))
    BY DEF d
  <2> QED
    BY <2>1, EvaluateFounded
<1> HIDE DEF d
<1>5. d \in [kind : Kinds, evidence : Seq(1 .. MaxCalls)] /\ (d.kind = "continue" => d = Continue)
  BY <1>4 DEF Founded
<1>6. hook[h] \in Processes
  BY <1>3 DEF Sound
<1>7. /\ p \in Processes /\ p.pc = next /\ p.at = hook[h].at /\ p.call = hook[h].call
      /\ p.judged = d /\ p.decision = hook[h].decision /\ p.expired = hook[h].expired
  BY <1>5, <1>6 DEF Processes
<1>8. [at |-> p.at, call |-> p.call] \in events /\ p.decision = Continue /\ ~p.expired /\ p.at <= clock
  BY <1>1, <1>3, <1>7 DEF Sound
<1>9. p.call.name = "Stop" => d.kind = "verify" /\ d.evidence[1] >= p.at
  BY <1>4, <1>8
<1>10. Sound(p, events, clock)
  <2> HIDE DEF p
  <2> QED
    BY <1>4, <1>5, <1>7, <1>8, <1>9 DEF Sound
<1> HIDE DEF p
<1>11. /\ EventsInv' /\ ProcessesInv' /\ (level \in Levels)'
       /\ \A g \in Hooks : hook'[g] # Idle => hook[g] # Idle /\ hook'[g].at = hook[g].at
  BY <1>1, <1>2, <1>7, <1>10, OneMovesOn
<1>12. TableInv'
  BY <1>1, <1>11, RowsStay, HookConstants DEF EventsInv
<1>13. StopsBlocked'
  BY <1>1 DEF StopsBlocked
<1> QED
  BY <1>11, <1>12, <1>13

\* Two decisions on the same evidence are the same decision.
LEMMA EvidenceDecides ==
  ASSUME EventsInv, NEW c, NEW d, Founded(c, events), Founded(d, events),
         c.kind # "continue", d.kind # "continue", c.evidence = d.evidence
  PROVE  c = d
<1>1. c.evidence \in Seq(1 .. MaxCalls) /\ c.evidence # <<>> /\ c.kind \in Kinds /\ d.kind \in Kinds
  BY DEF Founded
<1>2. 1 \in DOMAIN c.evidence
  BY <1>1
<1>3. PICK e \in events : e.at = c.evidence[1] /\ Grounds(c.kind, SignalKind(e.call.name))
  BY <1>2 DEF Founded
<1>4. PICK f \in events : f.at = d.evidence[1] /\ Grounds(d.kind, SignalKind(f.call.name))
  BY <1>2 DEF Founded
<1>5. e = f
  BY <1>3, <1>4 DEF EventsInv
<1>6. c.kind = d.kind
  BY <1>3, <1>4, <1>5 DEF Grounds
<1>7. c = [kind |-> c.kind, evidence |-> c.evidence] /\ d = [kind |-> d.kind, evidence |-> d.evidence]
  BY DEF Founded
<1> QED
  BY <1>6, <1>7

LEMMA StoredKeeps ==
  ASSUME RowsInv, NEW d, NEW at, rows' = Stored(d, at)
  PROVE  /\ RowsInv' /\ rows \subseteq rows'
         /\ \E r \in rows' : SameKey(r, d)
         /\ \A r \in rows' \ rows : r.decision = d /\ r.created = at /\ r.expired = FALSE
<1>1. CASE \E r \in rows : SameKey(r, d)
  BY <1>1 DEF Stored, RowsInv, OneRowPerEvidence, SameKey
<1>2. CASE ~\E r \in rows : SameKey(r, d)
  <2> DEFINE new == [decision |-> d, created |-> at, expired |-> FALSE]
  <2>1. rows' = rows \cup {new}
    BY <1>2 DEF Stored
  <2>2. DOMAIN new = {"decision", "created", "expired"} /\ SameKey(new, d)
        /\ new.decision = d /\ new.created = at /\ new.expired = FALSE
        /\ new.expired \in BOOLEAN
    BY DEF SameKey
  <2>3. \A r \in rows : ~SameKey(r, new.decision) /\ ~SameKey(new, r.decision)
    BY <1>2 DEF SameKey
  <2> HIDE DEF new
  <2> QED
    BY <2>1, <2>2, <2>3 DEF RowsInv, OneRowPerEvidence
<1> QED
  BY <1>1, <1>2

LEMMA PersistKeeps ==
  ASSUME HookInv, NEW h \in Hooks, Persist(h)
  PROVE  HookInv'
<1> USE DEF HookInv
<1> DEFINE d == hook[h].judged
           row == CHOOSE r \in rows' : SameKey(r, d)
           p == [hook[h] EXCEPT !.decision = row.decision, !.expired = row.expired,
                                !.pc = "respond"]
<1>1. /\ hook[h] # Idle /\ hook[h].pc = "persist"
      /\ rows' = Stored(d, hook[h].at)
      /\ UNCHANGED <<events, level, clock, answered>>
  BY DEF Persist
<1>2. hook' = [hook EXCEPT ![h] = p]
  <2>1. hook' = [hook EXCEPT ![h].decision = row.decision, ![h].expired = row.expired,
                             ![h].pc = "respond"]
    BY DEF Persist
  <2> HIDE DEF row
  <2> QED
    BY <2>1 DEF ProcessesInv
<1>3. Sound(hook[h], events, clock)
  BY <1>1 DEF ProcessesInv
<1>4. hook[h] \in Processes /\ Founded(d, events) /\ d.kind # "continue"
  BY <1>1, <1>3 DEF Sound
<1>5. /\ RowsInv' /\ rows \subseteq rows'
      /\ \E r \in rows' : SameKey(r, d)
      /\ \A r \in rows' \ rows : r.decision = d /\ r.created = hook[h].at /\ r.expired = FALSE
  <2> HIDE DEF d
  <2> QED
    BY <1>1, StoredKeeps DEF TableInv
<1>6. hook[h].at \in 1 .. clock
  <2>1. clock \in Nat /\ MaxCalls \in Nat /\ hook[h].at <= clock
    BY <1>3, HookConstants DEF EventsInv, Sound
  <2> QED
    BY <1>4, <2>1 DEF Processes
<1>7. \A r \in rows' : /\ Founded(r.decision, events)
                       /\ r.decision.kind # "continue"
                       /\ r.created \in 1 .. clock
  <2> HIDE DEF d
  <2> QED
    BY <1>4, <1>5, <1>6 DEF TableInv
<1>8. row \in rows' /\ SameKey(row, d)
  <2> HIDE DEF d
  <2> QED
    BY <1>5
<1>9. row.decision = d
  <2> HIDE DEF d, row
  <2> QED
    BY <1>4, <1>7, <1>8, EvidenceDecides DEF SameKey
<1> HIDE DEF row
\* A row that expired is older than this process.
<1>10. ASSUME hook[h].call.name = "Stop" PROVE ~row.expired
  <2>1. d.evidence[1] >= hook[h].at /\ d.evidence \in Seq(1 .. MaxCalls) /\ d.evidence # <<>>
    BY <1>1, <1>3, <1>4, <1>10 DEF Sound, Founded
  <2>2. 1 \in DOMAIN d.evidence /\ d.evidence[1] \in Nat
    BY <2>1, HookConstants
  <2>3. ASSUME row.expired PROVE FALSE
    <3>1. row \in rows
      BY <1>5, <1>8, <2>3
    <3>2. row.decision.evidence[1] < hook[h].at
      BY <1>1, <1>9, <2>2, <2>3, <3>1 DEF TableInv
    <3> QED
      BY <1>6, <1>9, <2>1, <2>2, <3>2
  <2> QED
    BY <2>3
<1> DEFINE late == row.expired
<1>11. late \in BOOLEAN
  BY <1>5, <1>8 DEF RowsInv
<1>12. /\ p \in Processes /\ p.pc = "respond" /\ p.at = hook[h].at /\ p.call = hook[h].call
       /\ p.judged = d /\ p.decision = d /\ p.expired = late
  BY <1>4, <1>9, <1>11 DEF Processes
<1>13. Sound(p, events, clock)
  <2>1. [at |-> p.at, call |-> p.call] \in events /\ p.at <= clock
    BY <1>1, <1>3, <1>12 DEF Sound
  <2>2. p.call.name = "Stop" => d.kind = "verify" /\ d.evidence[1] >= p.at /\ ~p.expired
    BY <1>1, <1>3, <1>10, <1>12 DEF Sound
  <2> HIDE DEF p, d, late
  <2> QED
    BY <1>4, <1>12, <2>1, <2>2 DEF Sound
<1>14. /\ EventsInv' /\ ProcessesInv' /\ (level \in Levels)'
       /\ \A g \in Hooks : hook'[g] # Idle => hook[g] # Idle /\ hook'[g].at = hook[g].at
  <2> HIDE DEF p
  <2> QED
    BY <1>1, <1>2, <1>12, <1>13, OneMovesOn
<1>15. TableInv'
  <2>1. ASSUME NEW r \in rows', NEW g \in Hooks, r.expired, hook'[g] # Idle,
               NEW i \in DOMAIN r.decision.evidence
        PROVE  r.decision.evidence[i] < hook'[g].at
    <3>1. r \in rows
      BY <1>5, <2>1
    <3>2. hook[g] # Idle /\ hook'[g].at = hook[g].at
      BY <1>14, <2>1
    <3> QED
      BY <2>1, <3>1, <3>2 DEF TableInv
  <2> QED
    BY <1>1, <1>5, <1>7, <2>1 DEF TableInv
<1>16. StopsBlocked'
  BY <1>1 DEF StopsBlocked
<1> QED
  BY <1>14, <1>15, <1>16

LEMMA RespondKeeps ==
  ASSUME HookInv, NEW h \in Hooks, Respond(h)
  PROVE  HookInv'
<1> USE DEF HookInv
<1> DEFINE p == hook[h]
<1>1. /\ p # Idle /\ p.pc = "respond"
      /\ answered' = [at |-> p.at, call |-> p.call, level |-> level, kind |-> p.decision.kind,
                      response |-> Response(p.call.name, level, p.decision, p.expired)]
      /\ hook' = [hook EXCEPT ![h] = Idle]
      /\ UNCHANGED <<events, rows, level, clock>>
  BY DEF Respond, tables
<1>2. EventsInv'
  BY <1>1 DEF EventsInv
<1>3. clock <= clock' /\ events \subseteq events'
  BY <1>1, HookConstants DEF EventsInv
<1>4. ProcessesInv'
  <2>1. \A g \in Hooks \ {h} : hook[g] # Idle /\ hook[g].pc = "insert" =>
          \A e \in events' : e.at # hook[g].at
    BY <1>1 DEF ProcessesInv, Sound
  <2> QED
    BY <1>1, <1>2, <1>3, <2>1, OneMoves
<1>5. TableInv'
  <2>1. hook'[h] = Idle /\ \A g \in Hooks \ {h} : hook'[g] = hook[g]
    BY <1>1 DEF ProcessesInv
  <2> QED
    BY <1>1, <1>2, <1>3, <2>1, RowsStay
<1>6. StopsBlocked'
  <2> SUFFICES ASSUME p.call.name = "Stop", level \in {"guard", "autopilot"}
               PROVE  Response(p.call.name, level, p.decision, p.expired) = "block"
    BY <1>1 DEF StopsBlocked
  <2>1. p.decision.kind = "verify" /\ ~p.expired
    BY <1>1 DEF ProcessesInv, Sound
  <2> QED
    BY <2>1 DEF Response
<1> QED
  BY <1>1, <1>2, <1>4, <1>5, <1>6

LEMMA GiveUpKeeps ==
  ASSUME HookInv, NEW h \in Hooks, GiveUp(h)
  PROVE  HookInv'
<1> USE DEF HookInv
<1>1. /\ hook' = [hook EXCEPT ![h] = Idle]
      /\ UNCHANGED <<events, rows, level, clock, answered>>
  BY DEF GiveUp, tables
<1>2. EventsInv'
  BY <1>1 DEF EventsInv
<1>3. clock <= clock' /\ events \subseteq events'
  BY <1>1, HookConstants DEF EventsInv
<1>4. ProcessesInv'
  <2>1. \A g \in Hooks \ {h} : hook[g] # Idle /\ hook[g].pc = "insert" =>
          \A e \in events' : e.at # hook[g].at
    BY <1>1 DEF ProcessesInv, Sound
  <2> QED
    BY <1>1, <1>2, <1>3, <2>1, OneMoves
<1>5. TableInv'
  <2>1. hook'[h] = Idle /\ \A g \in Hooks \ {h} : hook'[g] = hook[g]
    BY <1>1 DEF ProcessesInv
  <2> QED
    BY <1>1, <1>2, <1>3, <2>1, RowsStay
<1>6. StopsBlocked'
  BY <1>1 DEF StopsBlocked
<1> QED
  BY <1>1, <1>2, <1>4, <1>5, <1>6

LEMMA SetLevelKeeps == HookInv /\ SetLevel => HookInv'
BY DEF HookInv, SetLevel, EventsInv, ProcessesInv, TableInv, RowsInv, OneRowPerEvidence,
       SameKey, StopsBlocked

LEMMA ExpireKeeps ==
  ASSUME RowsInv, Expire
  PROVE  /\ RowsInv'
         /\ \A r \in rows : r.expired => r \in rows'
         /\ \A r \in rows' : \E q \in rows : r.decision = q.decision /\ r.created = q.created
<1>1. PICK r \in rows : /\ ~r.expired
                        /\ rows' = (rows \ {r}) \cup {[r EXCEPT !.expired = TRUE]}
  BY DEF Expire
<1> DEFINE late == [r EXCEPT !.expired = TRUE]
<1>2. DOMAIN r = {"decision", "created", "expired"}
  BY DEF RowsInv
<1>3. DOMAIN late = {"decision", "created", "expired"} /\ late.decision = r.decision
      /\ late.created = r.created /\ late.expired \in BOOLEAN
  BY <1>2
<1>4. \A q \in rows \ {r} : ~SameKey(q, late.decision) /\ ~SameKey(late, q.decision)
  BY <1>3 DEF RowsInv, OneRowPerEvidence, SameKey
<1>5. rows' = (rows \ {r}) \cup {late}
  BY <1>1
<1> HIDE DEF late
<1>6. RowsInv'
  BY <1>3, <1>4, <1>5 DEF RowsInv, OneRowPerEvidence
<1> QED
  BY <1>1, <1>3, <1>5, <1>6

LEMMA TimeKeeps == ASSUME HookInv, Expire PROVE HookInv'
<1> USE DEF HookInv
<1>1. /\ \A h \in Hooks : hook[h] = Idle
      /\ UNCHANGED <<events, level, hook, clock, answered>>
  BY DEF Expire
<1>2. /\ RowsInv'
      /\ \A r \in rows' : \E q \in rows : r.decision = q.decision /\ r.created = q.created
  BY ExpireKeeps DEF TableInv
<1>3. \A r \in rows' : Founded(r.decision, events) /\ r.decision.kind # "continue"
                       /\ r.created \in 1 .. clock
  BY <1>2 DEF TableInv
<1>4. TableInv'
  BY <1>1, <1>2, <1>3 DEF TableInv
<1> QED
  BY <1>1, <1>4 DEF EventsInv, ProcessesInv, StopsBlocked

LEMMA HookInvKept == HookInv /\ [Next]_vars => HookInv'
<1>1. HookInv /\ UNCHANGED vars => HookInv'
  BY DEF vars, tables, bounds, HookInv, EventsInv, ProcessesInv, TableInv, RowsInv,
         OneRowPerEvidence, SameKey, StopsBlocked
<1> QED
  BY <1>1, ArriveKeeps, InsertKeeps, EvaluateKeeps, PersistKeeps, RespondKeeps, GiveUpKeeps,
     SetLevelKeeps, TimeKeeps DEF Next


LEMMA HookInvAlways == Spec => []HookInv
<1>1. Init => HookInv
  <2> SUFFICES ASSUME Init PROVE HookInv
    OBVIOUS
  <2>2. EventsInv
    BY HookConstants, FS_EmptySet DEF Init, EventsInv
  <2>3. ProcessesInv /\ TableInv /\ level \in Levels
    BY DEF Init, ProcessesInv, TableInv, RowsInv, OneRowPerEvidence, Levels
  <2>4. StopsBlocked
    BY DEF Init, StopsBlocked
  <2> QED
    BY <2>2, <2>3, <2>4 DEF HookInv
<1> QED
  BY <1>1, HookInvKept, PTL DEF Spec

\* Tables and processes hold what the code puts there.
THEOREM HookTypes == Spec => []TypeOK
<1>1. HookInv => TypeOK
  <2> SUFFICES ASSUME HookInv PROVE TypeOK
    OBVIOUS
  <2>1. events \subseteq [at : 1 .. clock, call : Calls] /\ clock \in 0 .. MaxCalls
    BY DEF HookInv, EventsInv
  <2>2. ASSUME NEW r \in rows
        PROVE  /\ r.decision.kind \in Kinds \ {"continue"}
               /\ r.created \in 1 .. clock
               /\ Range(r.decision.evidence) \subseteq {e.at : e \in events}
    <3>1. Founded(r.decision, events) /\ r.decision.kind # "continue" /\ r.created \in 1 .. clock
      BY DEF HookInv, TableInv
    <3>2. r.decision.kind \in Kinds
      BY <3>1 DEF Founded
    <3>3. Range(r.decision.evidence) \subseteq {e.at : e \in events}
      BY <3>1 DEF Founded, Range
    <3> QED
      BY <3>1, <3>2, <3>3
  <2>3. ASSUME NEW h \in Hooks, hook[h] # Idle
        PROVE  /\ hook[h] \in Processes
               /\ hook[h].pc # "insert" => \E e \in events : e.at = hook[h].at
    <3>1. Sound(hook[h], events, clock)
      BY <2>3 DEF HookInv, ProcessesInv
    <3> QED
      BY <3>1 DEF Sound
  <2> QED
    BY <2>1, <2>2, <2>3 DEF TypeOK, HookInv
<1> QED
  BY <1>1, HookInvAlways, PTL

\* One decision per evidence, and every process answers with its own, though
\* the row it read back may be another's (guidance.go:36-60).
THEOREM AnswersOwnDecision == Spec => []OwnDecision
<1>1. HookInv => OwnDecision
  BY DEF HookInv, TableInv, RowsInv, OneRowPerEvidence, SameKey, ProcessesInv, Sound, OwnDecision
<1> QED
  BY <1>1, HookInvAlways, PTL

\* A Stop answered while the project is guarded is blocked when nothing was
\* tested before it, whatever else is under way (usage.md:37).
THEOREM UntestedStopsBlocked == Spec => []UntestedStopBlocked
<1>1. HookInv => UntestedStopBlocked
  BY DEF HookInv, StopsBlocked, UntestedStopBlocked
<1> QED
  BY <1>1, HookInvAlways, PTL

\* It is blocked when something was tested too: no event the hook stores is a
\* validation (events.go, hookEventTypes; project.go, Project).
THEOREM GuardedStopsBlocked == Spec => []StopsBlocked
<1>1. HookInv => StopsBlocked
  BY DEF HookInv
<1> QED
  BY <1>1, HookInvAlways, PTL

\* UNIQUE(session_id, evidence_fingerprint): however many processes come to a
\* decision on the same evidence, one row holds it (guidance.go:36-60).
THEOREM OneDecisionPerEvidence == Spec => []OneRowPerEvidence
<1>1. HookInv => OneRowPerEvidence
  BY DEF HookInv, TableInv, RowsInv
<1> QED
  BY <1>1, HookInvAlways, PTL

LEMMA RowsKept ==
  ASSUME RowsInv, [Next]_vars
  PROVE  RowsInv' /\ \A r \in rows : r.expired => r \in rows'
<1>1. CASE UNCHANGED rows
  BY <1>1 DEF RowsInv, OneRowPerEvidence, SameKey
<1>2. ASSUME NEW h \in Hooks, Persist(h)
      PROVE  RowsInv' /\ rows \subseteq rows'
  BY <1>2, StoredKeeps DEF Persist
<1>3. ASSUME NEW h \in Hooks,
             Arrive(h) \/ Insert(h) \/ EvaluateSession(h) \/ Respond(h) \/ GiveUp(h)
      PROVE  UNCHANGED rows
  BY <1>3 DEF Arrive, Insert, EvaluateSession, Respond, GiveUp, tables
<1>4. UNCHANGED rows \/ (\E h \in Hooks : Persist(h)) \/ Expire
  BY <1>3 DEF Next, SetLevel, vars, tables
<1> QED
  BY <1>1, <1>2, <1>4, ExpireKeeps

\* No process that comes to an expired decision again gives it a second life
\* (docs/compatibility.md:25-27).
THEOREM ExpiredForGood == Spec => ExpiredStaysExpired
<1>1. HookInv => RowsInv
  BY DEF HookInv, TableInv
<1>2. RowsInv /\ [Next]_vars => [\A r \in rows : r.expired => r \in rows']_rows
  BY RowsKept
<1> QED
  BY <1>1, <1>2, HookInvAlways, PTL DEF Spec, ExpiredStaysExpired
=============================================================================
