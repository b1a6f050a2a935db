---------------------------- MODULE RealtimeHub ----------------------------
(***************************************************************************)
(* The live-update path of the dashboard: internal/realtime/hub.go (a      *)
(* bounded history and one buffered channel per subscriber), the SSE       *)
(* handler liveEvents of internal/server/routes.go (one goroutine per      *)
(* connection) and the browser's EventSource, which reconnects by itself   *)
(* and names the last id it saw.                                           *)
(*                                                                         *)
(* An event is its id.  Subs are subscription slots: the code numbers      *)
(* subscriptions without reuse (nextSubID), the model reuses a slot once   *)
(* its handler has returned and its client has gone.                       *)
(***************************************************************************)
EXTENDS Naturals, Sequences, FiniteSets

CONSTANTS Clients,    \* open dashboards, each with one EventSource
          Subs,       \* subscription slots
          NoSub,      \* "not connected"
          Capacity,   \* NewHub(256)
          Buffer,     \* Subscribe(afterID, 32)
          MaxEvents,  \* bound: events published
          MaxDrops    \* bound: connections cut by the network

ASSUME HubConstants == /\ NoSub \notin Subs
                       /\ Capacity \in Nat \ {0}
                       /\ Buffer \in Nat \ {0}
                       /\ MaxEvents \in Nat
                       /\ MaxDrops \in Nat

VARIABLES
  nextID,       \* hub.nextID
  history,      \* hub.history
  subscribers,  \* keys of hub.subscribers
  channel,      \* channel[s]: contents of the buffered channel
  room,         \* room[s]: its capacity
  closes,       \* closes[s]: how often close() was called on it
  streaming,    \* streaming[s]: the liveEvents handler is in its loop
  wire,         \* wire[s]: written by the handler, not yet read by the client
  conn,         \* conn[c]: the slot client c is connected through, or NoSub
  lastSeen,     \* lastSeen[c]: the EventSource's last event id
  drops         \* connections cut so far

hubVars == <<nextID, history, subscribers, channel, room, closes>>
vars == <<nextID, history, subscribers, channel, room, closes,
          streaming, wire, conn, lastSeen, drops>>

Init == /\ nextID = 0
        /\ history = <<>>
        /\ subscribers = {}
        /\ channel = [s \in Subs |-> <<>>]
        /\ room = [s \in Subs |-> 0]
        /\ closes = [s \in Subs |-> 0]
        /\ streaming = [s \in Subs |-> FALSE]
        /\ wire = [s \in Subs |-> <<>>]
        /\ conn = [c \in Clients |-> NoSub]
        /\ lastSeen = [c \in Clients |-> 0]
        /\ drops = 0

Connected(s) == \E c \in Clients : conn[c] = s
Larger(a, b) == IF a < b THEN b ELSE a
-----------------------------------------------------------------------------
(* hub.go *)

\* Keep the newest Capacity events.
Trim(h) == IF Len(h) > Capacity
           THEN SubSeq(h, Len(h) - Capacity + 1, Len(h))
           ELSE h

\* Mutant: a full subscriber just misses the event.
PublishSkipsFull ==
  LET id == nextID + 1
  IN  /\ nextID < MaxEvents
      /\ nextID' = id
      /\ history' = Trim(Append(history, id))
      /\ channel' = [s \in Subs |-> IF s \in subscribers /\ Len(channel[s]) < room[s]
                                    THEN Append(channel[s], id)
                                    ELSE channel[s]]
      /\ UNCHANGED <<subscribers, room, closes, streaming, wire, conn, lastSeen, drops>>

\* Publish: every subscriber gets the event, or, when its buffer is full, is
\* closed and forgotten.
Publish ==
  LET id   == nextID + 1
      full == {s \in subscribers : Len(channel[s]) >= room[s]}
  IN  /\ nextID < MaxEvents
      /\ nextID' = id
      /\ history' = Trim(Append(history, id))
      /\ channel' = [s \in Subs |-> IF s \in subscribers \ full
                                    THEN Append(channel[s], id)
                                    ELSE channel[s]]
      /\ closes' = [s \in Subs |-> IF s \in full THEN closes[s] + 1 ELSE closes[s]]
      /\ subscribers' = subscribers \ full
      /\ UNCHANGED <<room, streaming, wire, conn, lastSeen, drops>>

\* Mutant: the whole history is replayed, whatever the client has seen.
ReplayAll(afterID) == history

\* The part of the history Subscribe replays, the ids after afterID.  Ids grow
\* along the history, so what the loop's test keeps is what follows the last
\* id it rejects.
Rejected(afterID) == CHOOSE k \in 0 .. Len(history) :
                       /\ \A i \in 1 .. k : history[i] <= afterID
                       /\ \A i \in (k + 1) .. Len(history) : history[i] > afterID
Replay(afterID) == SubSeq(history, Rejected(afterID) + 1, Len(history))

\* Subscribe(afterID, Buffer): the channel is large enough for the replay.
Subscribe(s, afterID) ==
  /\ channel' = [channel EXCEPT ![s] = Replay(afterID)]
  /\ room' = [room EXCEPT ![s] = Larger(Buffer, Len(Replay(afterID)))]
  /\ closes' = [closes EXCEPT ![s] = 0]
  /\ subscribers' = subscribers \cup {s}
  /\ UNCHANGED <<nextID, history>>

\* Mutant: cancel does not look whether the subscriber is still registered.
CancelAlways(s) ==
  /\ closes' = [closes EXCEPT ![s] = @ + 1]
  /\ subscribers' = subscribers \ {s}
  /\ UNCHANGED <<nextID, history, channel, room>>

\* The cancel function Subscribe returns: a no-op when Publish already
\* evicted the subscriber.
Cancel(s) ==
  /\ closes' = IF s \in subscribers
               THEN [closes EXCEPT ![s] = @ + 1]
               ELSE closes
  /\ subscribers' = subscribers \ {s}
  /\ UNCHANGED <<nextID, history, channel, room>>
-----------------------------------------------------------------------------
(* routes.go liveEvents, and the EventSource at the other end *)

\* The EventSource (re)connects with its last event id; the handler subscribes.
Connect(c) ==
  \E s \in Subs :
    /\ conn[c] = NoSub
    /\ ~streaming[s]
    /\ ~Connected(s)
    /\ Subscribe(s, lastSeen[c])
    /\ streaming' = [streaming EXCEPT ![s] = TRUE]
    /\ wire' = [wire EXCEPT ![s] = <<>>]
    /\ conn' = [conn EXCEPT ![c] = s]
    /\ UNCHANGED <<lastSeen, drops>>

\* The handler takes an event from its channel and writes it out.  The write
\* error of a dead connection is ignored and the event is gone.
Forward(s) ==
  /\ streaming[s]
  /\ channel[s] # <<>>
  /\ channel' = [channel EXCEPT ![s] = Tail(@)]
  /\ wire' = IF Connected(s)
             THEN [wire EXCEPT ![s] = Append(@, Head(channel[s]))]
             ELSE wire
  /\ UNCHANGED <<nextID, history, subscribers, room, closes,
                 streaming, conn, lastSeen, drops>>

\* The handler returns: its request context is done, or its channel is closed
\* and drained.  The deferred cancel runs.
Return(s) ==
  /\ streaming[s]
  /\ \/ ~Connected(s)
     \/ channel[s] = <<>> /\ closes[s] > 0
  /\ streaming' = [streaming EXCEPT ![s] = FALSE]
  /\ Cancel(s)
  /\ UNCHANGED <<wire, conn, lastSeen, drops>>

\* The EventSource dispatches the next event and remembers its id.
Receive(c) ==
  /\ conn[c] # NoSub
  /\ wire[conn[c]] # <<>>
  /\ lastSeen' = [lastSeen EXCEPT ![c] = Head(wire[conn[c]])]
  /\ wire' = [wire EXCEPT ![conn[c]] = Tail(@)]
  /\ UNCHANGED <<hubVars, streaming, conn, drops>>

\* The handler has returned and all it wrote was read: end of stream.
EndOfStream(c) ==
  /\ conn[c] # NoSub
  /\ wire[conn[c]] = <<>>
  /\ ~streaming[conn[c]]
  /\ conn' = [conn EXCEPT ![c] = NoSub]
  /\ UNCHANGED <<hubVars, streaming, wire, lastSeen, drops>>

\* The connection breaks; what was on the wire is lost.
Drop(c) ==
  /\ drops < MaxDrops
  /\ conn[c] # NoSub
  /\ drops' = drops + 1
  /\ wire' = [wire EXCEPT ![conn[c]] = <<>>]
  /\ conn' = [conn EXCEPT ![c] = NoSub]
  /\ UNCHANGED <<hubVars, streaming, lastSeen>>

Next == \/ Publish
        \/ \E s \in Subs : Forward(s) \/ Return(s)
        \/ \E c \in Clients : Connect(c) \/ Receive(c) \/ EndOfStream(c) \/ Drop(c)

Spec == Init /\ [][Next]_vars

\* Handlers are goroutines and the browser reconnects and dispatches by
\* itself; nothing obliges anyone to publish or a connection to break.
Fairness == /\ \A s \in Subs : WF_vars(Forward(s)) /\ WF_vars(Return(s))
            /\ \A c \in Clients : /\ WF_vars(Connect(c))
                                  /\ WF_vars(Receive(c))
                                  /\ WF_vars(EndOfStream(c))

FairSpec == Spec /\ Fairness
-----------------------------------------------------------------------------
(* Properties *)

TypeOK == /\ nextID \in 0 .. MaxEvents
          /\ history \in Seq(Nat)
          /\ Len(history) <= Capacity
          /\ subscribers \subseteq Subs
          /\ channel \in [Subs -> Seq(Nat)]
          /\ room \in [Subs -> Nat]
          /\ closes \in [Subs -> Nat]
          /\ streaming \in [Subs -> BOOLEAN]
          /\ wire \in [Subs -> Seq(Nat)]
          /\ conn \in [Clients -> Subs \cup {NoSub}]
          /\ lastSeen \in [Clients -> Nat]
          /\ drops \in 0 .. MaxDrops

\* close() panics on a closed channel and so does a send on one: Publish's
\* eviction and the handler's deferred cancel (hub.go:36-43, 71-80) together
\* close a channel at most once, and never while it is still registered.
NoDoubleClose == \A s \in Subs : /\ closes[s] <= 1
                                 /\ s \in subscribers => closes[s] = 0

\* The newest id on its way to client c: on its channel, else on the wire,
\* else the one it saw last.
Frontier(c) ==
  LET s == conn[c]
  IN  IF channel[s] # <<>> THEN channel[s][Len(channel[s])]
      ELSE IF wire[s] # <<>> THEN wire[s][Len(wire[s])]
      ELSE lastSeen[c]

\* A client whose subscription is registered is never left behind: whatever
\* mix of replay, live sends and partial reads it went through, the newest
\* published event has been seen or is queued for it (hub.go:36-43, 53-69).
RegisteredIsCurrent ==
  \A c \in Clients : conn[c] # NoSub /\ conn[c] \in subscribers
                       => Frontier(c) = nextID

\* Every step is a step of the feed clients are promised: ids in order, no
\* duplicate after a reconnect, and a jump only over ids the bounded history
\* had to forget.
Feed == INSTANCE EventFeed WITH published <- nextID, seen <- lastSeen
FeedImplemented == Feed!FeedSpec

\* The strengthening of the two invariants above that is inductive.  A slot in
\* the map has a running handler and an open channel; no two clients share a
\* slot; the history is the newest ids; and what is on its way to a client is
\* a run of consecutive ids ending at some n (the newest id, while the slot is
\* registered) that continues lastSeen, or starts after ids already expired.
EndsAt(q, n) == \A i \in 1 .. Len(q) : q[i] = n - Len(q) + i

HistoryIsSuffix == /\ Len(history) <= nextID
                   /\ Len(history) < Capacity => Len(history) = nextID
                   /\ EndsAt(history, nextID)

SlotsOK == /\ \A s \in subscribers : streaming[s]
           /\ \A c, d \in Clients : conn[c] = conn[d] /\ conn[c] # NoSub => c = d

Pending(s) == Len(channel[s]) + Len(wire[s])

RunUpTo(s, n) == /\ s \in subscribers => n = nextID
                 /\ EndsAt(channel[s], n)
                 /\ EndsAt(wire[s], n - Len(channel[s]))

\* p pending ids ending at n continue what was seen, or start after a gap of
\* ids that the history of a hub at top no longer holds.
Continues(last, p, n, top) == \/ last + p = n
                              \/ p > 0 /\ last + p < n /\ n - p + Capacity <= top

StreamOK(c) ==
  /\ lastSeen[c] <= nextID
  /\ conn[c] # NoSub =>
       \E n \in 0 .. nextID :
         /\ RunUpTo(conn[c], n)
         /\ Continues(lastSeen[c], Pending(conn[c]), n, nextID)

HubInv == /\ TypeOK
          /\ NoDoubleClose
          /\ HistoryIsSuffix
          /\ SlotsOK
          /\ \A c \in Clients : StreamOK(c)

\* Once publishing stops every dashboard, evicted or cut off as it may have
\* been, is back and has seen the newest event.
EventuallyCurrent ==
  \A c \in Clients : <>[](conn[c] # NoSub /\ lastSeen[c] = nextID)
=============================================================================
