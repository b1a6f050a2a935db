----------------------------- MODULE EventFeed -----------------------------
(***************************************************************************)
(* What GET /api/v1/live promises a dashboard, with no channel, handler or *)
(* socket in sight: event ids are published 1, 2, 3, ... and every client  *)
(* consumes them in order.  A client may jump over ids only when the       *)
(* server no longer retained them, i.e. when they are older than the last  *)
(* Capacity events.  RealtimeHub is shown to implement this module.        *)
(***************************************************************************)
EXTENDS Naturals

CONSTANTS Clients,   \* open dashboards
          Capacity   \* number of events the hub retains

VARIABLES published, \* id of the newest event
          seen       \* seen[c]: id of the last event client c consumed

feedVars == <<published, seen>>

FeedInit == /\ published = 0
            /\ seen = [c \in Clients |-> 0]

Announce == /\ published' = published + 1
            /\ UNCHANGED seen

\* All ids strictly between seen[c] and id have left the retention window.
OnlySkipsExpired(c, id) == \/ id = seen[c] + 1
                           \/ id - 1 + Capacity <= published

Consume(c) == \E id \in (seen[c] + 1) .. published :
                 /\ OnlySkipsExpired(c, id)
                 /\ seen' = [seen EXCEPT ![c] = id]
                 /\ UNCHANGED published

FeedNext == Announce \/ \E c \in Clients : Consume(c)

FeedSpec == FeedInit /\ [][FeedNext]_feedVars
=============================================================================
