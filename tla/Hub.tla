--------------------------------- MODULE Hub ---------------------------------
(***************************************************************************)
(* The in-memory registry of internal/ws/hub.go: which sessions are        *)
(* connected, and for each a wakeup channel that holds one event.          *)
(* Wakeup never blocks: it fails when the session is gone or its channel   *)
(* already holds an event.                                                 *)
(***************************************************************************)
EXTENDS Matcher

CONSTANTS Bots,       \* bot goroutines (timer, spawn attempt or conversation)
          Rooms       \* room identifiers (uuid)

ASSUME HubAssumption ==
    /\ Sessions \cap Bots = {}
    /\ None \notin Bots \cup Rooms

VARIABLES hub,        \* registered sessions
          inbox       \* [Sessions -> event or None]: the wakeup channels

hubVars == <<hub, inbox>>

\* A WakeupEvent: who is calling, and the Redis room (None for a bot, whose
\* transport is in-process).
Event == [from : Sessions \cup Bots, room : Rooms \cup {None}]

\* An empty channel is told from one that holds an event.
ASSUME EventAssumption == None \notin Event

HubTypeOK ==
    /\ hub \subseteq Sessions
    /\ inbox \in [Sessions -> Event \cup {None}]

HubInit ==
    /\ hub = {}
    /\ inbox = [s \in Sessions |-> None]

Register(s) == hub' = hub \cup {s} /\ inbox' = [inbox EXCEPT ![s] = None]

\* Closes the channel: whatever it still holds is lost.
Unregister(s) == hub' = hub \ {s} /\ inbox' = [inbox EXCEPT ![s] = None]

CanWakeup(s) == s \in hub /\ inbox[s] = None

Wakeup(s, from, room) ==
    /\ inbox' = [inbox EXCEPT ![s] = [from |-> from, room |-> room]]
    /\ UNCHANGED hub

\* The receive side of the channel.
HasEvent(s) == inbox[s] # None
Receive(s)  == inbox' = [inbox EXCEPT ![s] = None] /\ UNCHANGED hub
=============================================================================
