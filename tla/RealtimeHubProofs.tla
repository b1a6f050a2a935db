------------------------- MODULE RealtimeHubProofs -------------------------
(* Theorems about RealtimeHub, for every number of clients and slots and   *)
(* every capacity, buffer and bound.                                        *)
EXTENDS RealtimeHub, SequenceTheorems, TLAPS

USE HubConstants

LEMMA TrimLemma ==
  ASSUME NEW h \in Seq(Nat)
  PROVE  /\ Trim(h) \in Seq(Nat)
         /\ Len(Trim(h)) = IF Len(h) > Capacity THEN Capacity ELSE Len(h)
         /\ \A i \in 1 .. Len(Trim(h)) : Trim(h)[i] = h[Len(h) - Len(Trim(h)) + i]
<1>1. CASE Len(h) > Capacity
  <2> DEFINE m == Len(h) - Capacity + 1
  <2>1. Len(h) \in Nat /\ m \in Int
    BY LenProperties
  <2>2. \A i \in m .. Len(h) : h[i] \in Nat
    BY <1>1, <2>1, ElementOfSeq
  <2>3. /\ SubSeq(h, m, Len(h)) \in Seq(Nat)
        /\ Len(SubSeq(h, m, Len(h))) = Capacity
        /\ \A i \in 1 .. Capacity : SubSeq(h, m, Len(h))[i] = h[m + i - 1]
    BY <1>1, <2>1, <2>2, SubSeqProperties
  <2>4. QED
    BY <1>1, <2>1, <2>3 DEF Trim
<1>2. CASE ~(Len(h) > Capacity)
  BY <1>2, LenProperties DEF Trim
<1>3. QED
  BY <1>1, <1>2

\* Runs of consecutive ids grow at the end and shrink at the front.
LEMMA RunAppend ==
  ASSUME NEW q \in Seq(Nat), NEW n \in Int, EndsAt(q, n), n + 1 \in Nat
  PROVE  /\ Append(q, n + 1) \in Seq(Nat)
         /\ Len(Append(q, n + 1)) = Len(q) + 1
         /\ EndsAt(Append(q, n + 1), n + 1)
<1>1. /\ Append(q, n + 1) \in Seq(Nat)
      /\ Len(Append(q, n + 1)) = Len(q) + 1
      /\ \A i \in 1 .. Len(q) : Append(q, n + 1)[i] = q[i]
      /\ Append(q, n + 1)[Len(q) + 1] = n + 1
  BY AppendProperties
<1>2. Len(q) \in Nat
  BY LenProperties
<1> DEFINE r == Append(q, n + 1)
<1>3. ASSUME NEW i \in 1 .. Len(r)
      PROVE  r[i] = n + 1 - Len(r) + i
  <2>1. i \in 1 .. Len(q) \/ i = Len(q) + 1
    BY <1>1, <1>2
  <2>2. CASE i \in 1 .. Len(q)
    <3>1. r[i] = q[i] /\ q[i] = n - Len(q) + i
      BY <1>1, <2>2 DEF EndsAt
    <3>2. QED
      BY <1>1, <1>2, <3>1
  <2>3. CASE i = Len(q) + 1
    BY <1>1, <1>2, <2>3
  <2>4. QED
    BY <2>1, <2>2, <2>3
<1>4. QED
  BY <1>1, <1>3 DEF EndsAt

LEMMA RunTail ==
  ASSUME NEW q \in Seq(Nat), NEW n \in Int, EndsAt(q, n), q # <<>>
  PROVE  /\ Len(q) \in Nat \ {0}
         /\ Head(q) = n - Len(q) + 1 /\ Head(q) \in Nat
         /\ Tail(q) \in Seq(Nat)
         /\ Len(Tail(q)) = Len(q) - 1
         /\ EndsAt(Tail(q), n)
<1>1. /\ Head(q) \in Nat
      /\ Tail(q) \in Seq(Nat)
      /\ Len(Tail(q)) = Len(q) - 1
      /\ \A i \in 1 .. Len(Tail(q)) : Tail(q)[i] = q[i + 1]
  BY HeadTailProperties
<1>2. Len(q) \in Nat \ {0} /\ Head(q) = q[1]
  BY EmptySeq, LenProperties
<1>3. Head(q) = n - Len(q) + 1
  BY <1>2 DEF EndsAt
<1>4. EndsAt(Tail(q), n)
  BY <1>1, <1>2 DEF EndsAt
<1>5. QED
  BY <1>1, <1>2, <1>3, <1>4

LEMMA ContinuesLemma ==
  ASSUME NEW last \in Nat, NEW p \in Nat, NEW n \in Nat, NEW top \in Nat,
         Continues(last, p, n, top)
  PROVE  /\ Continues(last, p + 1, n + 1, top + 1)
         /\ Continues(last, p, n, top + 1)
         /\ p > 0 => /\ n - p + 1 > last
                     /\ n - p + 1 = last + 1 \/ n - p + Capacity <= top
                     /\ Continues(n - p + 1, p - 1, n, top)
         /\ p = 0 => last = n
BY DEF Continues

LEMMA RunLast ==
  ASSUME NEW q \in Seq(Nat), NEW n \in Int, EndsAt(q, n), q # <<>>
  PROVE  q[Len(q)] = n
<1>1. Len(q) \in Nat \ {0}
  BY EmptySeq, LenProperties
<1>2. QED
  BY <1>1 DEF EndsAt

LEMMA RunTrim ==
  ASSUME NEW q \in Seq(Nat), NEW n \in Nat, EndsAt(q, n)
  PROVE  EndsAt(Trim(q), n)
<1>1. /\ Trim(q) \in Seq(Nat)
      /\ Len(Trim(q)) = IF Len(q) > Capacity THEN Capacity ELSE Len(q)
      /\ \A i \in 1 .. Len(Trim(q)) : Trim(q)[i] = q[Len(q) - Len(Trim(q)) + i]
  BY TrimLemma
<1>2. Len(q) \in Nat /\ Len(Trim(q)) \in Nat /\ Len(Trim(q)) <= Len(q)
  BY <1>1, LenProperties
<1>3. ASSUME NEW i \in 1 .. Len(Trim(q))
      PROVE  Trim(q)[i] = n - Len(Trim(q)) + i
  <2>1. Len(q) - Len(Trim(q)) + i \in 1 .. Len(q)
    BY <1>2
  <2>2. Trim(q)[i] = n - Len(q) + (Len(q) - Len(Trim(q)) + i)
    BY <1>1, <2>1 DEF EndsAt
  <2>3. QED
    BY <1>2, <2>2
<1>4. QED
  BY <1>3 DEF EndsAt

\* What a subscription starts with: the ids after afterID still in the history.
LEMMA ReplayLemma ==
  ASSUME TypeOK, HistoryIsSuffix, NEW afterID \in Nat, afterID <= nextID
  PROVE  /\ Replay(afterID) \in Seq(Nat)
         /\ EndsAt(Replay(afterID), nextID)
         /\ Continues(afterID, Len(Replay(afterID)), nextID, nextID)
<1> DEFINE L == Len(history)
           k == Rejected(afterID)
           P(j) == /\ \A i \in 1 .. j : history[i] <= afterID
                   /\ \A i \in (j + 1) .. L : history[i] > afterID
<1>1. /\ L \in Nat /\ nextID \in Nat /\ L <= nextID /\ L <= Capacity
      /\ L < Capacity => L = nextID
      /\ \A i \in 1 .. L : history[i] = nextID - L + i
  BY LenProperties DEF TypeOK, HistoryIsSuffix, EndsAt
<1>2. \E j \in 0 .. L : P(j)
  <2>1. CASE afterID <= nextID - L
    <3>1. P(0)
      BY <1>1, <2>1
    <3>2. QED
      BY <1>1, <3>1
  <2>2. CASE afterID > nextID - L
    <3>1. afterID - (nextID - L) \in 0 .. L
      BY <1>1, <2>2
    <3>2. P(afterID - (nextID - L))
      BY <1>1, <2>2
    <3>3. QED
      BY <3>1, <3>2
  <2>3. QED
    BY <1>1, <2>1, <2>2
<1>3. /\ k \in 0 .. L
      /\ \A i \in 1 .. k : history[i] <= afterID
      /\ \A i \in (k + 1) .. L : history[i] > afterID
  BY <1>2 DEF Rejected
<1>4. Replay(afterID) = SubSeq(history, k + 1, L)
  BY DEF Replay
<1>5. \A i \in (k + 1) .. L : history[i] \in Nat
  BY <1>1, <1>3, ElementOfSeq DEF TypeOK
<1> HIDE DEF k, L
<1>6. /\ Replay(afterID) \in Seq(Nat)
      /\ Len(Replay(afterID)) = L - k
      /\ \A i \in 1 .. L - k : Replay(afterID)[i] = history[k + i]
  <2>1. k + 1 \in Int /\ L \in Int
    BY <1>1, <1>3
  <2>2. /\ SubSeq(history, k + 1, L) \in Seq(Nat)
        /\ Len(SubSeq(history, k + 1, L)) = IF k + 1 <= L THEN L - (k + 1) + 1 ELSE 0
        /\ \A i \in 1 .. L - (k + 1) + 1 :
             SubSeq(history, k + 1, L)[i] = history[(k + 1) + i - 1]
    BY <1>5, <2>1, SubSeqProperties
  <2>3. QED
    BY <1>1, <1>3, <1>4, <2>2
<1>7. \A i \in 1 .. L - k : Replay(afterID)[i] = nextID - (L - k) + i
  BY <1>1, <1>3, <1>6
<1>8. k > 0 => nextID - L + k <= afterID
  BY <1>1, <1>3
<1>9. k < L => nextID - L + k + 1 > afterID
  BY <1>1, <1>3
<1>10. \/ afterID + (L - k) = nextID
       \/ /\ L - k > 0
          /\ afterID + (L - k) < nextID
          /\ nextID - (L - k) + Capacity <= nextID
  <2>1. CASE k = 0
    BY <1>1, <1>9, <2>1
  <2>2. CASE k > 0
    BY <1>1, <1>3, <1>8, <1>9, <2>2
  <2>3. QED
    BY <1>3, <2>1, <2>2
<1>11. EndsAt(Replay(afterID), nextID)
  BY <1>6, <1>7 DEF EndsAt
<1>12. QED
  BY <1>6, <1>10, <1>11 DEF Continues
-----------------------------------------------------------------------------
LEMMA InitHubInv == Init => HubInv
<1> SUFFICES ASSUME Init PROVE HubInv
  OBVIOUS
<1>1. TypeOK
  BY DEF Init, TypeOK
<1>2. NoDoubleClose /\ HistoryIsSuffix /\ SlotsOK
  BY DEF Init, NoDoubleClose, HistoryIsSuffix, SlotsOK, EndsAt
<1>3. \A c \in Clients : StreamOK(c)
  BY DEF Init, StreamOK
<1>4. QED
  BY <1>1, <1>2, <1>3 DEF HubInv

\* The types the steps below need of a connected client's slot.
LEMMA SlotTypes ==
  ASSUME TypeOK, NEW c \in Clients
  PROVE  /\ lastSeen[c] \in Nat /\ nextID \in Nat
         /\ lastSeen \in [Clients -> Nat]
         /\ channel \in [Subs -> Seq(Nat)] /\ wire \in [Subs -> Seq(Nat)]
         /\ conn[c] # NoSub =>
              /\ conn[c] \in Subs
              /\ channel[conn[c]] \in Seq(Nat) /\ Len(channel[conn[c]]) \in Nat
              /\ wire[conn[c]] \in Seq(Nat) /\ Len(wire[conn[c]]) \in Nat
<1>1. conn[c] \in Subs \cup {NoSub} /\ lastSeen[c] \in Nat /\ nextID \in Nat
  BY DEF TypeOK
<1>2. conn[c] # NoSub => channel[conn[c]] \in Seq(Nat) /\ wire[conn[c]] \in Seq(Nat)
  BY <1>1 DEF TypeOK
<1>3. QED
  BY <1>1, <1>2, LenProperties DEF TypeOK

\* A client whose slot, wire and channel a step leaves alone keeps its run.
LEMMA StreamUntouched ==
  ASSUME HubInv, NEW c \in Clients,
         nextID' = nextID,
         lastSeen'[c] = lastSeen[c], conn'[c] = conn[c],
         conn[c] # NoSub => /\ channel'[conn[c]] = channel[conn[c]]
                            /\ wire'[conn[c]] = wire[conn[c]]
                            /\ conn[c] \in subscribers' => conn[c] \in subscribers
  PROVE  StreamOK(c)'
<1>1. StreamOK(c)
  BY DEF HubInv
<1>2. ASSUME conn[c] # NoSub, NEW n \in 0 .. nextID, RunUpTo(conn[c], n)
      PROVE  RunUpTo(conn[c], n)' /\ Pending(conn[c])' = Pending(conn[c])
  BY <1>2 DEF RunUpTo, Pending, EndsAt
<1>3. QED
  BY <1>1, <1>2 DEF StreamOK, Continues

\* A client that is not connected after the step only needs lastSeen <= nextID.
LEMMA StreamGone ==
  ASSUME HubInv, NEW c \in Clients,
         nextID' = nextID, lastSeen'[c] = lastSeen[c], conn'[c] = NoSub
  PROVE  StreamOK(c)'
BY DEF HubInv, StreamOK

LEMMA PublishHubInv ==
  ASSUME HubInv, Publish
  PROVE  HubInv'
<1> DEFINE full == {s \in subscribers : Len(channel[s]) >= room[s]}
           h == Append(history, nextID + 1)
<1>1. /\ nextID \in Nat /\ nextID' = nextID + 1 /\ nextID' \in 0 .. MaxEvents
      /\ history' = Trim(h)
      /\ channel' = [s \in Subs |-> IF s \in subscribers \ full
                                    THEN Append(channel[s], nextID + 1)
                                    ELSE channel[s]]
      /\ closes' = [s \in Subs |-> IF s \in full THEN closes[s] + 1 ELSE closes[s]]
      /\ subscribers' = subscribers \ full
      /\ UNCHANGED <<room, streaming, wire, conn, lastSeen, drops>>
  BY DEF Publish, TypeOK, HubInv
<1>2. /\ history \in Seq(Nat) /\ Len(history) \in Nat
      /\ h \in Seq(Nat) /\ Len(h) = Len(history) + 1
      /\ EndsAt(h, nextID + 1)
  BY <1>1, RunAppend, LenProperties DEF TypeOK, HubInv, HistoryIsSuffix
<1> HIDE DEF h
<1>3. /\ history' \in Seq(Nat)
      /\ Len(history') = IF Len(h) > Capacity THEN Capacity ELSE Len(h)
      /\ EndsAt(history', nextID + 1)
  <2>1. history' = Trim(h)
    BY <1>1
  <2>2. /\ Trim(h) \in Seq(Nat)
        /\ Len(Trim(h)) = IF Len(h) > Capacity THEN Capacity ELSE Len(h)
    BY <1>2, TrimLemma
  <2>3. nextID + 1 \in Nat
    BY DEF TypeOK, HubInv
  <2>4. EndsAt(Trim(h), nextID + 1)
    BY <1>2, <2>3, RunTrim
  <2> QED
    BY <2>1, <2>2, <2>4
<1>4. Len(history') <= Capacity
  BY <1>2, <1>3
<1>5. \A s \in Subs : Append(channel[s], nextID + 1) \in Seq(Nat)
  BY <1>1, AppendProperties DEF TypeOK, HubInv
<1>6. TypeOK'
  BY <1>1, <1>3, <1>4, <1>5 DEF TypeOK, HubInv
<1>7. NoDoubleClose'
  BY <1>1 DEF NoDoubleClose, TypeOK, HubInv
<1>8. HistoryIsSuffix'
  <2>1. Len(history) <= nextID /\ (Len(history) < Capacity => Len(history) = nextID)
        /\ Len(history) <= Capacity
    BY DEF HistoryIsSuffix, HubInv, TypeOK
  <2>2. Len(history') <= nextID + 1 /\ (Len(history') < Capacity => Len(history') = nextID + 1)
    BY <1>1, <1>2, <1>3, <2>1
  <2>3. QED
    BY <1>1, <1>3, <2>2 DEF HistoryIsSuffix
<1>9. SlotsOK'
  BY <1>1 DEF SlotsOK, HubInv
<1>10. ASSUME NEW c \in Clients PROVE StreamOK(c)'
  <2>1. /\ lastSeen[c] \in Nat /\ lastSeen[c] <= nextID
        /\ lastSeen'[c] = lastSeen[c] /\ conn'[c] = conn[c] /\ wire' = wire
        /\ nextID \in Nat /\ nextID' = nextID + 1
    BY <1>1, SlotTypes DEF StreamOK, HubInv
  <2>2. ASSUME NEW s, s = conn[c], s # NoSub
        PROVE  \E n \in 0 .. nextID' : /\ RunUpTo(s, n)'
                                       /\ Continues(lastSeen[c], Pending(s)', n, nextID')
    <3>1. /\ s \in Subs
          /\ channel \in [Subs -> Seq(Nat)] /\ wire \in [Subs -> Seq(Nat)]
          /\ channel' \in [Subs -> Seq(Nat)] /\ wire' \in [Subs -> Seq(Nat)]
          /\ channel[s] \in Seq(Nat) /\ Len(channel[s]) \in Nat
          /\ wire[s] \in Seq(Nat) /\ Len(wire[s]) \in Nat
      BY <1>6, <2>2, SlotTypes DEF HubInv, TypeOK
    <3>2. PICK n \in 0 .. nextID : /\ RunUpTo(s, n)
                                   /\ Continues(lastSeen[c], Pending(s), n, nextID)
      BY <2>2 DEF StreamOK, HubInv
    <3>3. /\ Pending(s) = Len(channel[s]) + Len(wire[s])
          /\ Pending(s) \in Nat
          /\ n \in Nat
      <4>1. Pending(s) = Len(channel[s]) + Len(wire[s])
        BY DEF Pending
      <4>2. Pending(s) \in Nat
        BY <3>1, <4>1
      <4>3. nextID \in Nat
        BY <1>1
      <4>4. n \in Nat
        BY <3>2, <4>3
      <4>5. QED
        BY <4>1, <4>2, <4>4
    <3>4. CASE s \in subscribers \ full
      <4>1. channel'[s] = Append(channel[s], nextID + 1)
        BY <1>1, <3>1, <3>4
      <4>2. n = nextID /\ EndsAt(channel[s], n) /\ EndsAt(wire[s], n - Len(channel[s]))
        BY <3>2, <3>4 DEF RunUpTo
      <4>3. Len(channel'[s]) = Len(channel[s]) + 1 /\ EndsAt(channel'[s], n + 1)
        BY <1>1, <3>1, <4>1, <4>2, RunAppend
      <4>4. n + 1 - Len(channel'[s]) = n - Len(channel[s])
        BY <3>1, <3>3, <4>3
      <4>5. EndsAt(wire'[s], n + 1 - Len(channel'[s]))
        BY <2>1, <4>2, <4>4
      <4>6. RunUpTo(s, n + 1)'
        <5>1. nextID' = n + 1
          BY <1>1, <4>2
        <5>2. QED
          BY <3>1, <3>3, <4>3, <4>5, <5>1 DEF RunUpTo, EndsAt
      <4>7. Pending(s)' = Pending(s) + 1
        BY <2>1, <3>1, <3>3, <4>3 DEF Pending
      <4>8. Continues(lastSeen[c], Pending(s)', n + 1, nextID')
        <5>1. Continues(lastSeen[c], Pending(s) + 1, n + 1, nextID + 1)
          BY <2>1, <3>2, <3>3, ContinuesLemma
        <5>2. QED
          BY <2>1, <4>7, <5>1
      <4>9. n + 1 \in 0 .. nextID'
        BY <1>1, <3>3, <4>2
      <4>10. QED
        BY <4>6, <4>8, <4>9
    <3>5. CASE s \notin subscribers \ full
      <4>1. channel'[s] = channel[s] /\ s \notin subscribers'
        BY <1>1, <3>1, <3>5
      <4>2. RunUpTo(s, n)' /\ Pending(s)' = Pending(s)
        BY <2>1, <3>2, <4>1 DEF RunUpTo, EndsAt, Pending
      <4>3. Continues(lastSeen[c], Pending(s)', n, nextID')
        <5>1. Continues(lastSeen[c], Pending(s), n, nextID + 1)
          BY <2>1, <3>2, <3>3, ContinuesLemma
        <5>2. QED
          BY <2>1, <4>2, <5>1
      <4>4. n \in 0 .. nextID'
        BY <1>1, <3>2
      <4>5. QED
        BY <4>2, <4>3, <4>4
    <3>6. QED
      BY <3>4, <3>5
  <2>3. lastSeen'[c] <= nextID'
    BY <1>1, <2>1
  <2>4. QED
    BY <2>1, <2>2, <2>3 DEF StreamOK, RunUpTo, Pending
<1>11. QED
  BY <1>6, <1>7, <1>8, <1>9, <1>10 DEF HubInv

LEMMA ConnectHubInv ==
  ASSUME HubInv, NEW d \in Clients, Connect(d)
  PROVE  HubInv'
<1>1. PICK s \in Subs : /\ conn[d] = NoSub /\ ~streaming[s] /\ ~Connected(s)
                        /\ Subscribe(s, lastSeen[d])
                        /\ streaming' = [streaming EXCEPT ![s] = TRUE]
                        /\ wire' = [wire EXCEPT ![s] = <<>>]
                        /\ conn' = [conn EXCEPT ![d] = s]
                        /\ UNCHANGED <<lastSeen, drops>>
  BY DEF Connect
<1> DEFINE replay == Replay(lastSeen[d])
<1>2. /\ replay \in Seq(Nat) /\ Len(replay) \in Nat
      /\ EndsAt(replay, nextID)
      /\ Continues(lastSeen[d], Len(replay), nextID, nextID)
  <2>1. lastSeen[d] \in Nat /\ lastSeen[d] <= nextID
    BY SlotTypes DEF HubInv, StreamOK
  <2>2. QED
    BY <2>1, ReplayLemma, LenProperties DEF HubInv
<1> HIDE DEF replay
<1>3. /\ channel' = [channel EXCEPT ![s] = replay]
      /\ room' = [room EXCEPT ![s] = Larger(Buffer, Len(replay))]
      /\ closes' = [closes EXCEPT ![s] = 0]
      /\ subscribers' = subscribers \cup {s}
      /\ nextID' = nextID /\ history' = history
  BY <1>1 DEF Subscribe, replay
<1>4. Larger(Buffer, Len(replay)) \in Nat
  BY <1>2 DEF Larger
<1>5. <<>> \in Seq(Nat) /\ Len(<<>>) = 0
  BY EmptySeq
<1>6. TypeOK'
  BY <1>1, <1>2, <1>3, <1>4, <1>5 DEF TypeOK, HubInv
<1>7. NoDoubleClose'
  BY <1>3 DEF NoDoubleClose, TypeOK, HubInv
<1>8. HistoryIsSuffix'
  BY <1>3 DEF HistoryIsSuffix, HubInv
<1>9. SlotsOK'
  BY <1>1, <1>3 DEF SlotsOK, TypeOK, HubInv, Connected
<1>10. ASSUME NEW c \in Clients PROVE StreamOK(c)'
  <2>1. CASE c = d
    <3>1. /\ conn'[c] = s /\ channel'[s] = replay /\ wire'[s] = <<>>
          /\ lastSeen'[c] = lastSeen[d] /\ nextID' = nextID /\ nextID \in Nat
          /\ lastSeen[d] <= nextID
      BY <1>1, <1>3, <2>1 DEF TypeOK, HubInv, StreamOK
    <3>2. EndsAt(wire'[s], nextID - Len(channel'[s]))
      BY <1>5, <3>1 DEF EndsAt
    <3>3. Len(channel'[s]) + Len(wire'[s]) = Len(replay)
      BY <1>2, <1>5, <3>1
    <3>4. QED
      BY <1>2, <3>1, <3>2, <3>3 DEF StreamOK, RunUpTo, Pending
  <2>2. CASE c # d
    <3>1. conn'[c] = conn[c] /\ lastSeen'[c] = lastSeen[c]
      BY <1>1, <2>2 DEF TypeOK, HubInv
    <3>2. conn[c] # NoSub => conn[c] \in Subs /\ conn[c] # s
      BY <1>1 DEF TypeOK, HubInv, Connected
    <3>3. conn[c] # NoSub => /\ channel'[conn[c]] = channel[conn[c]]
                             /\ wire'[conn[c]] = wire[conn[c]]
                             /\ conn[c] \in subscribers' => conn[c] \in subscribers
      BY <1>1, <1>3, <3>2 DEF TypeOK, HubInv
    <3>4. QED
      BY <1>3, <3>1, <3>3, StreamUntouched
  <2>3. QED
    BY <2>1, <2>2
<1>11. QED
  BY <1>6, <1>7, <1>8, <1>9, <1>10 DEF HubInv

LEMMA ForwardHubInv ==
  ASSUME HubInv, NEW s \in Subs, Forward(s)
  PROVE  HubInv'
<1>1. /\ streaming[s] /\ channel[s] # <<>>
      /\ channel' = [channel EXCEPT ![s] = Tail(channel[s])]
      /\ wire' = IF Connected(s)
                 THEN [wire EXCEPT ![s] = Append(wire[s], Head(channel[s]))]
                 ELSE wire
      /\ UNCHANGED <<nextID, history, subscribers, room, closes,
                     streaming, conn, lastSeen, drops>>
  BY DEF Forward, HubInv, TypeOK
<1>2. /\ channel \in [Subs -> Seq(Nat)] /\ wire \in [Subs -> Seq(Nat)]
      /\ channel[s] \in Seq(Nat) /\ wire[s] \in Seq(Nat)
      /\ Len(channel[s]) \in Nat /\ Len(wire[s]) \in Nat
  BY LenProperties DEF HubInv, TypeOK
<1>3. Head(channel[s]) \in Nat /\ Tail(channel[s]) \in Seq(Nat)
  BY <1>1, <1>2, HeadTailProperties
<1>4. Append(wire[s], Head(channel[s])) \in Seq(Nat)
  BY <1>2, <1>3, AppendProperties
<1>5. TypeOK'
  BY <1>1, <1>3, <1>4 DEF HubInv, TypeOK
<1>6. NoDoubleClose' /\ HistoryIsSuffix' /\ SlotsOK'
  BY <1>1 DEF HubInv, NoDoubleClose, HistoryIsSuffix, SlotsOK
<1>7. ASSUME NEW c \in Clients PROVE StreamOK(c)'
  <2>1. CASE conn[c] # s
    <3>1. conn[c] # NoSub => conn[c] \in Subs
      BY DEF HubInv, TypeOK
    <3>2. conn[c] # NoSub => /\ channel'[conn[c]] = channel[conn[c]]
                             /\ wire'[conn[c]] = wire[conn[c]]
      BY <1>1, <1>2, <2>1, <3>1
    <3>3. QED
      BY <1>1, <3>2, StreamUntouched
  <2>2. CASE conn[c] = s
    <3>1. /\ wire'[s] = Append(wire[s], Head(channel[s]))
          /\ channel'[s] = Tail(channel[s])
      BY <1>1, <1>2, <2>2 DEF Connected
    <3>2. conn[c] # NoSub
      BY <2>2
    <3>3. PICK n \in 0 .. nextID : /\ RunUpTo(s, n)
                                   /\ Continues(lastSeen[c], Pending(s), n, nextID)
      BY <2>2, <3>2 DEF HubInv, StreamOK
    <3>4. n \in Nat /\ nextID \in Nat
      BY <3>3 DEF HubInv, TypeOK
    <3>5. /\ s \in subscribers => n = nextID
          /\ EndsAt(channel[s], n) /\ EndsAt(wire[s], n - Len(channel[s]))
      BY <3>3 DEF RunUpTo
    <3>6. /\ Len(channel[s]) \in Nat \ {0}
          /\ Head(channel[s]) = n - Len(channel[s]) + 1
          /\ Len(Tail(channel[s])) = Len(channel[s]) - 1
          /\ EndsAt(Tail(channel[s]), n)
      BY <1>1, <1>2, <3>4, <3>5, RunTail
    <3>7. n - Len(channel[s]) \in Int /\ n - Len(channel[s]) + 1 \in Nat
      BY <1>2, <1>3, <3>4, <3>6
    <3>8. /\ Len(wire'[s]) = Len(wire[s]) + 1
          /\ EndsAt(wire'[s], n - Len(channel[s]) + 1)
      BY <1>2, <3>1, <3>5, <3>6, <3>7, RunAppend
    <3>9. n - Len(channel'[s]) = n - Len(channel[s]) + 1
      BY <1>2, <3>1, <3>4, <3>6
    <3>10. Pending(s)' = Pending(s)
      <4>1. channel' \in [Subs -> Seq(Nat)] /\ wire' \in [Subs -> Seq(Nat)]
        BY <1>5 DEF TypeOK
      <4>2. QED
        BY <1>2, <3>1, <3>6, <3>8, <4>1 DEF Pending
    <3>11. RunUpTo(s, n)'
      BY <1>1, <3>1, <3>5, <3>6, <3>8, <3>9 DEF RunUpTo
    <3>12. lastSeen[c] <= nextID
      BY DEF HubInv, StreamOK
    <3>13. QED
      BY <1>1, <2>2, <3>3, <3>10, <3>11, <3>12 DEF StreamOK, RunUpTo, Pending
  <2>3. QED
    BY <2>1, <2>2
<1>8. QED
  BY <1>5, <1>6, <1>7 DEF HubInv

LEMMA ReturnHubInv ==
  ASSUME HubInv, NEW s \in Subs, Return(s)
  PROVE  HubInv'
<1>1. /\ streaming' = [streaming EXCEPT ![s] = FALSE]
      /\ closes' = IF s \in subscribers THEN [closes EXCEPT ![s] = closes[s] + 1] ELSE closes
      /\ subscribers' = subscribers \ {s}
      /\ UNCHANGED <<nextID, history, channel, room, wire, conn, lastSeen, drops>>
  BY DEF Return, Cancel, HubInv, TypeOK
<1>2. TypeOK'
  BY <1>1 DEF HubInv, TypeOK
<1>3. NoDoubleClose'
  BY <1>1 DEF HubInv, NoDoubleClose, TypeOK
<1>4. HistoryIsSuffix' /\ SlotsOK'
  BY <1>1 DEF HubInv, HistoryIsSuffix, SlotsOK, TypeOK
<1>5. ASSUME NEW c \in Clients PROVE StreamOK(c)'
  BY <1>1, StreamUntouched
<1>6. QED
  BY <1>2, <1>3, <1>4, <1>5 DEF HubInv

\* What one dispatched event does to the client's run; also the step that
\* implements Consume of EventFeed.
LEMMA ReceiveLemma ==
  ASSUME HubInv, NEW d \in Clients, Receive(d)
  PROVE  /\ HubInv'
         /\ lastSeen' = [lastSeen EXCEPT ![d] = Head(wire[conn[d]])]
         /\ Head(wire[conn[d]]) \in (lastSeen[d] + 1) .. nextID
         /\ \/ Head(wire[conn[d]]) = lastSeen[d] + 1
            \/ Head(wire[conn[d]]) - 1 + Capacity <= nextID
<1> DEFINE s == conn[d]
           id == Head(wire[s])
<1>1. /\ s # NoSub /\ wire[s] # <<>>
      /\ lastSeen' = [lastSeen EXCEPT ![d] = id]
      /\ wire' = [wire EXCEPT ![s] = Tail(wire[s])]
      /\ UNCHANGED <<nextID, history, subscribers, channel, room, closes,
                     streaming, conn, drops>>
  BY DEF Receive, hubVars, HubInv, TypeOK
<1>2. /\ s \in Subs /\ lastSeen[d] \in Nat /\ nextID \in Nat
      /\ channel \in [Subs -> Seq(Nat)] /\ wire \in [Subs -> Seq(Nat)]
      /\ wire[s] \in Seq(Nat) /\ channel[s] \in Seq(Nat)
      /\ Len(channel[s]) \in Nat /\ Len(wire[s]) \in Nat
  BY <1>1, SlotTypes DEF HubInv
<1>3. PICK n \in 0 .. nextID : /\ RunUpTo(s, n)
                               /\ Continues(lastSeen[d], Pending(s), n, nextID)
  BY <1>1 DEF HubInv, StreamOK
<1>4. n \in Nat /\ n <= nextID
  BY <1>2, <1>3
<1>5. /\ s \in subscribers => n = nextID
      /\ EndsAt(channel[s], n) /\ EndsAt(wire[s], n - Len(channel[s]))
  BY <1>3 DEF RunUpTo
<1>6. n - Len(channel[s]) \in Int
  BY <1>2, <1>4
<1>7. /\ Len(wire[s]) \in Nat \ {0}
      /\ id = n - Len(channel[s]) - Len(wire[s]) + 1 /\ id \in Nat
      /\ Tail(wire[s]) \in Seq(Nat)
      /\ Len(Tail(wire[s])) = Len(wire[s]) - 1
      /\ EndsAt(Tail(wire[s]), n - Len(channel[s]))
  BY <1>1, <1>2, <1>5, <1>6, RunTail
<1>8. Pending(s) = Len(channel[s]) + Len(wire[s]) /\ Pending(s) \in Nat /\ Pending(s) > 0
  BY <1>2, <1>7 DEF Pending
<1>9. id = n - Pending(s) + 1
  BY <1>2, <1>4, <1>7, <1>8
<1>10. /\ id > lastSeen[d]
       /\ id = lastSeen[d] + 1 \/ n - Pending(s) + Capacity <= nextID
       /\ Continues(id, Pending(s) - 1, n, nextID)
  <2> HIDE DEF s, id
  <2>1. Continues(n - Pending(s) + 1, Pending(s) - 1, n, nextID)
        /\ n - Pending(s) + 1 > lastSeen[d]
        /\ (n - Pending(s) + 1 = lastSeen[d] + 1 \/ n - Pending(s) + Capacity <= nextID)
    BY <1>2, <1>3, <1>4, <1>8, ContinuesLemma
  <2>2. QED
    BY <1>9, <2>1
<1>11. id <= nextID /\ (id = lastSeen[d] + 1 \/ id - 1 + Capacity <= nextID)
  <2> HIDE DEF s, id
  <2>1. QED
    BY <1>2, <1>4, <1>7, <1>8, <1>9, <1>10
<1>12. TypeOK'
  BY <1>1, <1>2, <1>7 DEF HubInv, TypeOK
<1>13. NoDoubleClose' /\ HistoryIsSuffix' /\ SlotsOK'
  BY <1>1 DEF HubInv, NoDoubleClose, HistoryIsSuffix, SlotsOK
<1>14. StreamOK(d)'
  <2>1. /\ conn'[d] = conn[d] /\ lastSeen'[d] = id /\ channel'[s] = channel[s]
        /\ wire'[s] = Tail(wire[s]) /\ nextID' = nextID /\ subscribers' = subscribers
    BY <1>1, <1>2 DEF HubInv, TypeOK
  <2>2. Len(channel'[s]) + Len(wire'[s]) = Pending(s) - 1
    <3>1. channel' \in [Subs -> Seq(Nat)] /\ wire' \in [Subs -> Seq(Nat)]
      BY <1>12 DEF TypeOK
    <3>2. Len(wire'[s]) = Len(wire[s]) - 1 /\ Len(channel'[s]) = Len(channel[s])
      BY <1>7, <2>1
    <3>3. Pending(s) = Len(channel[s]) + Len(wire[s])
      BY <1>8
    <3> HIDE DEF s, id
    <3>4. QED
      BY <1>2, <3>1, <3>2, <3>3
  <2>3. QED
    BY <1>3, <1>5, <1>7, <1>10, <1>11, <2>1, <2>2 DEF StreamOK, RunUpTo, Pending
<1>15. ASSUME NEW c \in Clients, c # d PROVE StreamOK(c)'
  <2>1. conn[c] # NoSub => conn[c] \in Subs /\ conn[c] # s
    BY <1>1, <1>15 DEF HubInv, TypeOK, SlotsOK
  <2>2. /\ conn'[c] = conn[c] /\ lastSeen'[c] = lastSeen[c] /\ nextID' = nextID
        /\ conn[c] # NoSub => /\ channel'[conn[c]] = channel[conn[c]]
                              /\ wire'[conn[c]] = wire[conn[c]]
                              /\ conn[c] \in subscribers' => conn[c] \in subscribers
    BY <1>1, <1>2, <1>15, <2>1 DEF HubInv, TypeOK
  <2>3. QED
    BY <2>2, StreamUntouched
<1>16. HubInv'
  BY <1>12, <1>13, <1>14, <1>15 DEF HubInv
<1>17. id \in (lastSeen[d] + 1) .. nextID
  <2> HIDE DEF s, id
  <2>1. QED
    BY <1>2, <1>7, <1>10, <1>11
<1>18. QED
  BY <1>1, <1>11, <1>16, <1>17

\* EndOfStream and Drop: the client lets go of its slot.
LEMMA LetGoHubInv ==
  ASSUME HubInv, NEW d \in Clients, EndOfStream(d) \/ Drop(d)
  PROVE  HubInv'
<1>1. /\ conn[d] # NoSub /\ conn' = [conn EXCEPT ![d] = NoSub]
      /\ wire' = wire \/ wire' = [wire EXCEPT ![conn[d]] = <<>>]
      /\ drops' = drops \/ (drops < MaxDrops /\ drops' = drops + 1)
      /\ UNCHANGED <<nextID, history, subscribers, channel, room, closes,
                     streaming, lastSeen>>
  BY DEF EndOfStream, Drop, hubVars
<1>2. conn[d] \in Subs /\ <<>> \in Seq(Nat)
  BY <1>1, EmptySeq DEF HubInv, TypeOK
<1>3. TypeOK'
  <2>1. wire' \in [Subs -> Seq(Nat)]
    BY <1>1, <1>2 DEF HubInv, TypeOK
  <2>2. drops' \in 0 .. MaxDrops
    <3>1. drops \in 0 .. MaxDrops
      BY DEF HubInv, TypeOK
    <3>2. drops' = drops \/ (drops < MaxDrops /\ drops' = drops + 1)
      BY <1>1
    <3>3. QED
      BY <3>1, <3>2
  <2>3. conn' \in [Clients -> Subs \cup {NoSub}]
    BY <1>1 DEF HubInv, TypeOK
  <2>4. QED
    BY <1>1, <2>1, <2>2, <2>3 DEF HubInv, TypeOK
<1>4. NoDoubleClose' /\ HistoryIsSuffix'
  BY <1>1 DEF HubInv, NoDoubleClose, HistoryIsSuffix
<1>5. SlotsOK'
  BY <1>1 DEF HubInv, SlotsOK, TypeOK
<1>6. ASSUME NEW c \in Clients PROVE StreamOK(c)'
  <2>1. CASE c = d
    BY <1>1, <2>1, StreamGone DEF HubInv, TypeOK
  <2>2. CASE c # d
    <3>1. conn[c] # NoSub => conn[c] \in Subs /\ conn[c] # conn[d]
      BY <1>1, <2>2 DEF HubInv, TypeOK, SlotsOK
    <3>2. /\ conn'[c] = conn[c] /\ lastSeen'[c] = lastSeen[c] /\ nextID' = nextID
          /\ conn[c] # NoSub => /\ channel'[conn[c]] = channel[conn[c]]
                                /\ wire'[conn[c]] = wire[conn[c]]
                                /\ conn[c] \in subscribers' => conn[c] \in subscribers
      BY <1>1, <1>2, <2>2, <3>1 DEF HubInv, TypeOK
    <3>3. QED
      BY <3>2, StreamUntouched
  <2>3. QED
    BY <2>1, <2>2
<1>7. QED
  BY <1>3, <1>4, <1>5, <1>6 DEF HubInv

LEMMA StutterHubInv == HubInv /\ UNCHANGED vars => HubInv'
<1> SUFFICES ASSUME HubInv, UNCHANGED vars PROVE HubInv'
  OBVIOUS
<1>1. TypeOK' /\ NoDoubleClose' /\ HistoryIsSuffix' /\ SlotsOK'
  BY DEF vars, HubInv, TypeOK, NoDoubleClose, HistoryIsSuffix, SlotsOK
<1>2. ASSUME NEW c \in Clients PROVE StreamOK(c)'
  BY StreamUntouched DEF vars
<1>3. QED
  BY <1>1, <1>2 DEF HubInv

LEMMA NextHubInv == HubInv /\ [Next]_vars => HubInv'
<1> SUFFICES ASSUME HubInv, [Next]_vars PROVE HubInv'
  OBVIOUS
<1>1. CASE Publish
  BY <1>1, PublishHubInv
<1>2. ASSUME NEW s \in Subs, Forward(s) \/ Return(s) PROVE HubInv'
  BY <1>2, ForwardHubInv, ReturnHubInv
<1>3. ASSUME NEW c \in Clients, Connect(c) PROVE HubInv'
  BY <1>3, ConnectHubInv
<1>4. ASSUME NEW c \in Clients, Receive(c) PROVE HubInv'
  BY <1>4, ReceiveLemma
<1>5. ASSUME NEW c \in Clients, EndOfStream(c) \/ Drop(c) PROVE HubInv'
  BY <1>5, LetGoHubInv
<1>6. CASE UNCHANGED vars
  BY <1>6, StutterHubInv
<1>7. QED
  BY <1>1, <1>2, <1>3, <1>4, <1>5, <1>6 DEF Next
-----------------------------------------------------------------------------
\* The inductive invariant holds of every reachable state of hub, handlers and
\* clients (hub.go:27-82, routes.go:402-436).
THEOREM HubInvariant == Spec => []HubInv
BY InitHubInv, NextHubInv, PTL DEF Spec

\* Types, and with them the bound on the history: it never holds more than
\* Capacity events (hub.go:32-35).
THEOREM HubTypeCorrect == Spec => []TypeOK
<1>1. HubInv => TypeOK
  BY DEF HubInv
<1>2. QED
  BY <1>1, HubInvariant, PTL

\* No channel is closed twice or sent on after its close: neither Publish's
\* eviction nor the deferred cancel can panic (hub.go:36-43, 71-80).
THEOREM HubNoDoubleClose == Spec => []NoDoubleClose
<1>1. HubInv => NoDoubleClose
  BY DEF HubInv
<1>2. QED
  BY <1>1, HubInvariant, PTL

\* A client whose subscription is registered has seen, or has queued for it,
\* the newest published event (hub.go:36-43, 53-69).
THEOREM HubRegisteredIsCurrent == Spec => []RegisteredIsCurrent
<1>1. ASSUME HubInv PROVE RegisteredIsCurrent
  <2> SUFFICES ASSUME NEW c \in Clients, conn[c] # NoSub, conn[c] \in subscribers
               PROVE  Frontier(c) = nextID
    BY DEF RegisteredIsCurrent
  <2> DEFINE s == conn[c]
  <2>1. /\ s \in Subs /\ lastSeen[c] \in Nat /\ nextID \in Nat
        /\ channel \in [Subs -> Seq(Nat)] /\ wire \in [Subs -> Seq(Nat)]
        /\ wire[s] \in Seq(Nat) /\ channel[s] \in Seq(Nat)
        /\ Len(channel[s]) \in Nat /\ Len(wire[s]) \in Nat
    BY <1>1, SlotTypes DEF HubInv
  <2>2. /\ EndsAt(channel[s], nextID) /\ EndsAt(wire[s], nextID - Len(channel[s]))
        /\ Continues(lastSeen[c], Len(channel[s]) + Len(wire[s]), nextID, nextID)
    BY <1>1 DEF HubInv, StreamOK, RunUpTo, Pending
  <2>3. CASE channel[s] # <<>>
    <3>1. channel[s][Len(channel[s])] = nextID
      BY <2>1, <2>2, <2>3, RunLast
    <3>2. QED
      BY <2>3, <3>1 DEF Frontier
  <2>4. CASE channel[s] = <<>> /\ wire[s] # <<>>
    <3>1. nextID - Len(channel[s]) = nextID
      BY <2>1, <2>4, EmptySeq
    <3>2. wire[s][Len(wire[s])] = nextID
      BY <2>1, <2>2, <2>4, <3>1, RunLast
    <3>3. QED
      BY <2>4, <3>2 DEF Frontier
  <2>5. CASE channel[s] = <<>> /\ wire[s] = <<>>
    <3>1. Len(channel[s]) + Len(wire[s]) = 0
      BY <2>1, <2>5, EmptySeq
    <3>2. lastSeen[c] = nextID
      BY <2>1, <2>2, <3>1, ContinuesLemma
    <3>3. QED
      BY <2>5, <3>2 DEF Frontier
  <2>6. QED
    BY <2>3, <2>4, <2>5
<1>2. QED
  BY <1>1, HubInvariant, PTL

\* The hub, its handlers and reconnecting clients implement the feed: ids in
\* order, no duplicates, and jumps only over events the history dropped.
THEOREM HubImplementsFeed == Spec => FeedImplemented
<1>1. Init => Feed!FeedInit
  BY DEF Init, Feed!FeedInit
<1>2. HubInv /\ [Next]_vars => [Feed!FeedNext]_(Feed!feedVars)
  <2> SUFFICES ASSUME HubInv, [Next]_vars PROVE [Feed!FeedNext]_(Feed!feedVars)
    OBVIOUS
  <2>1. CASE Publish
    BY <2>1 DEF Publish, Feed!FeedNext, Feed!Announce
  <2>2. ASSUME NEW c \in Clients, Receive(c) PROVE Feed!FeedNext
    <3>1. nextID' = nextID
      BY <2>2 DEF Receive, hubVars
    <3>2. Feed!Consume(c)
      BY <2>2, <3>1, ReceiveLemma DEF Feed!Consume, Feed!OnlySkipsExpired
    <3>3. QED
      BY <3>2 DEF Feed!FeedNext
  <2>3. ASSUME NEW s \in Subs, Forward(s) \/ Return(s) PROVE UNCHANGED Feed!feedVars
    BY <2>3 DEF Forward, Return, Cancel, Feed!feedVars
  <2>4. ASSUME NEW c \in Clients, Connect(c) \/ EndOfStream(c) \/ Drop(c)
        PROVE  UNCHANGED Feed!feedVars
    BY <2>4 DEF Connect, Subscribe, EndOfStream, Drop, hubVars, Feed!feedVars
  <2>5. CASE UNCHANGED vars
    BY <2>5 DEF vars, Feed!feedVars
  <2>6. QED
    BY <2>1, <2>2, <2>3, <2>4, <2>5 DEF Next
<1>3. QED
  BY <1>1, <1>2, HubInvariant, PTL DEF Spec, FeedImplemented, Feed!FeedSpec
=============================================================================
