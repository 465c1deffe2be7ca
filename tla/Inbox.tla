--------------------------------- MODULE Inbox ---------------------------------
(***************************************************************************)
(* Notifications: the inbox socket (lib/inbox_ws.ts) that feeds the unread *)
(* counts and the toasts (notifications/InboxProvider.tsx,                 *)
(* stores/notificationStore.ts), and the list of friends that corrects     *)
(* them every minute (friends/FriendsMode.tsx).  One friend is modelled.   *)
(*                                                                         *)
(* A socket hears what is published while it is open and nothing else.  A  *)
(* browser reports the end of a socket later than close() is called.  The  *)
(* server reads the list when it is asked for; its answer may come after   *)
(* the events that followed.                                               *)
(***************************************************************************)
EXTENDS Naturals, Sequences, FiniteSets

CONSTANTS MaxSocks,   \* bound: sockets opened
          MaxMsgs,    \* bound: messages of the friend
          MaxChanges, \* bound: times the list of friends changes
          MaxFaults,  \* bound: sockets that drop and requests that fail
          NetCap      \* bound: events under way on a socket, and requests

ASSUME InboxAssumption ==
    /\ {MaxMsgs, MaxChanges, MaxFaults} \subseteq Nat
    /\ {MaxSocks, NetCap} \subseteq Nat \ {0}

VARIABLES socks,   \* [number -> its state and the events under way]
          ws,      \* the socket the handle knows
          timers,  \* reopen timers, and whether reopenTimer is one of them
          closed,  \* the handle is closed: signed out
          server,  \* messages sent, unread, whether a read mark is due, changes
          faults,  \* drops and failures so far
          where,   \* "list", "chat" or "away"
          unread,  \* the badge
          fetches, \* unread counts of the lists under way
          toasts,  \* toasts shown, and those whose profile is asked for
          muted

inboxVars == <<socks, ws, timers, closed, server, faults, where, unread, fetches,
               toasts, muted>>
Handle == <<socks, ws, timers, closed>>
Page == <<where, unread, fetches, toasts, muted>>

Socks == 1..MaxSocks
Events == {"msg", "read", "changed"}

InboxTypeOK ==
    /\ \A s \in Socks :
         /\ socks[s].state \in {"none", "connecting", "open", "closing", "closed"}
         /\ \A i \in DOMAIN socks[s].events : socks[s].events[i] \in Events
    /\ ws \in Socks /\ timers.pending \in 0..MaxSocks /\ timers.known \in BOOLEAN
    /\ closed \in BOOLEAN /\ faults \in 0..MaxFaults /\ muted \in BOOLEAN
    /\ server.sent \in 0..MaxMsgs /\ server.unread \in 0..server.sent
    /\ where \in {"list", "chat", "away"} /\ unread \in Nat
    /\ \A i \in DOMAIN fetches : fetches[i] \in 0..MaxMsgs
    /\ {toasts.shown, toasts.asked} \subseteq Nat

\* The provider mounts: its socket is opened and the list asked for.
InboxInit ==
    /\ socks = [s \in Socks |-> [state |-> IF s = 1 THEN "connecting" ELSE "none",
                                 events |-> <<>>]]
    /\ ws = 1 /\ timers = [pending |-> 0, known |-> FALSE] /\ closed = FALSE
    /\ server = [sent |-> 0, unread |-> 0, due |-> FALSE, changes |-> 0] /\ faults = 0
    /\ where = "away" /\ unread = 0 /\ fetches = <<0>>
    /\ toasts = [shown |-> 0, asked |-> 0] /\ muted \in BOOLEAN

-----------------------------------------------------------------------------
(* lib/inbox_ws.ts *)

NewSock == CHOOSE s \in Socks : /\ socks[s].state = "none"
                                /\ \A r \in 1..(s - 1) : socks[r].state # "none"
Room == socks[MaxSocks].state = "none"
Connecting(ss) == [ss EXCEPT ![NewSock] = [state |-> "connecting", events |-> <<>>]]

SocketOpens(s) ==
    /\ socks[s].state = "connecting" /\ socks' = [socks EXCEPT ![s].state = "open"]
    /\ UNCHANGED <<ws, timers, closed, server, faults, Page>>

\* onclose of a socket, whichever it is: a timer, unless the handle is closed.
Ended(s) ==
    /\ socks' = [socks EXCEPT ![s] = [state |-> "closed", events |-> <<>>]]
    /\ timers' = IF closed THEN timers
                 ELSE [pending |-> timers.pending + 1, known |-> TRUE]

SocketDrops(s) ==
    /\ socks[s].state \in {"connecting", "open"} /\ faults < MaxFaults
    /\ faults' = faults + 1 /\ Ended(s)
    /\ UNCHANGED <<ws, closed, server, Page>>

CloseEnds(s) ==
    /\ socks[s].state = "closing" /\ Ended(s)
    /\ UNCHANGED <<ws, closed, server, faults, Page>>

\* The timer the handle knows, or one it has forgotten.
TimerFires ==
    /\ timers.pending > 0 /\ (closed \/ Room)
    /\ timers' \in {t \in [pending : {timers.pending - 1}, known : {timers.known, FALSE}] :
                     t.known => t.pending > 0}
    /\ IF closed THEN UNCHANGED <<socks, ws>>
       ELSE ws' = NewSock /\ socks' = Connecting(socks)
    /\ UNCHANGED <<closed, server, faults, Page>>

Closing(ss) == [ss EXCEPT ![ws] = IF @.state \in {"connecting", "open"}
                                  THEN [state |-> "closing", events |-> <<>>] ELSE @]

Cleared == IF timers.known THEN [pending |-> timers.pending - 1, known |-> FALSE] ELSE timers

\* reconnect(): the old socket is told to close and reports it later.
Reconnect(ss) ==
    /\ Room /\ socks' = Connecting(Closing(ss)) /\ ws' = NewSock /\ timers' = Cleared

SignOut ==
    /\ ~closed /\ closed' = TRUE /\ socks' = Closing(socks) /\ timers' = Cleared
    /\ UNCHANGED <<ws, server, faults, Page>>

-----------------------------------------------------------------------------
(* The server: ws/inbox_handler.go, and the read mark of ws/friend_handler.go *)

CanPublish == \A s \in Socks : Len(socks[s].events) < NetCap
Published(e) ==
    [s \in Socks |-> IF socks[s].state = "open"
                     THEN [socks[s] EXCEPT !.events = Append(@, e)] ELSE socks[s]]

\* A conversation that is open has its messages marked as read.
FriendWrites ==
    /\ server.sent < MaxMsgs /\ CanPublish
    /\ server' = [server EXCEPT !.sent = @ + 1, !.unread = @ + 1,
                                !.due = @ \/ where = "chat"]
    /\ socks' = Published("msg")
    /\ UNCHANGED <<ws, timers, closed, faults, Page>>

MarkRead ==
    /\ server.due /\ CanPublish
    /\ server' = [server EXCEPT !.unread = 0, !.due = FALSE]
    /\ socks' = Published("read")
    /\ UNCHANGED <<ws, timers, closed, faults, Page>>

\* Another friend comes or goes.
ListChanges ==
    /\ server.changes < MaxChanges /\ CanPublish
    /\ server' = [server EXCEPT !.changes = @ + 1]
    /\ socks' = Published("changed")
    /\ UNCHANGED <<ws, timers, closed, faults, Page>>

-----------------------------------------------------------------------------
(* InboxProvider.tsx and the store *)

Talking == where = "chat"

\* onEvent: each socket that hears an event runs it.  A toast waits for the profile; once
\* signed out a change of the list reopens nothing.
Receive(s) ==
    /\ socks[s].state = "open" /\ socks[s].events # <<>>
    /\ LET e == Head(socks[s].events)
           ss == [socks EXCEPT ![s].events = Tail(@)]
       IN \/ /\ e = "msg" /\ socks' = ss
             /\ unread' = IF Talking THEN unread ELSE unread + 1
             /\ toasts' = IF Talking \/ muted THEN toasts
                          ELSE [toasts EXCEPT !.asked = @ + 1]
             /\ UNCHANGED <<ws, timers, fetches>>
          \/ /\ e = "read" /\ socks' = ss /\ unread' = 0
             /\ UNCHANGED <<ws, timers, fetches, toasts>>
          \/ /\ e = "changed" /\ ~closed /\ Reconnect(ss)
             /\ Len(fetches) < NetCap /\ fetches' = Append(fetches, server.unread)
             /\ UNCHANGED <<unread, toasts>>
          \/ /\ e = "changed" /\ closed /\ socks' = ss
             /\ UNCHANGED <<ws, timers, unread, fetches, toasts>>
    /\ UNCHANGED <<closed, server, faults, where, muted>>

\* The profile has come, or has failed: the toast is shown either way.
PushToast ==
    /\ toasts.asked > 0
    /\ toasts' = [asked |-> toasts.asked - 1, shown |-> toasts.shown + 1]
    /\ UNCHANGED <<server, faults, where, unread, fetches, muted, Handle>>

\* Its time is over, or it is dismissed; every change of the stack starts the other
\* toasts' time again.
ToastOver ==
    /\ toasts.shown > 0 /\ toasts' = [toasts EXCEPT !.shown = @ - 1]
    /\ UNCHANGED <<server, faults, where, unread, fetches, muted, Handle>>

\* Mutant: a list never takes a count down.
AnsweredUpwards(k, ok) ==
    /\ k \in DOMAIN fetches /\ (~ok => faults < MaxFaults)
    /\ faults' = IF ok THEN faults ELSE faults + 1
    /\ unread' = IF ok /\ fetches[k] > unread THEN fetches[k] ELSE unread
    /\ fetches' = SubSeq(fetches, 1, k - 1) \o SubSeq(fetches, k + 1, Len(fetches))
    /\ UNCHANGED <<server, where, toasts, muted, Handle>>

\* hydrateUnread(): the answers to the requests under way, in any order.  Those of
\* the provider are dropped when it is gone.
Answered(k, ok) ==
    /\ k \in DOMAIN fetches /\ (~ok => faults < MaxFaults)
    /\ faults' = IF ok THEN faults ELSE faults + 1
    /\ unread' = IF ok THEN fetches[k] ELSE unread
    /\ fetches' = SubSeq(fetches, 1, k - 1) \o SubSeq(fetches, k + 1, Len(fetches))
    /\ UNCHANGED <<server, where, toasts, muted, Handle>>

-----------------------------------------------------------------------------
(* FriendsMode.tsx and the conversation *)

Fetch == Len(fetches) < NetCap /\ fetches' = Append(fetches, server.unread)

OpenList ==
    /\ where # "list" /\ ~closed /\ where' = "list" /\ Fetch
    /\ UNCHANGED <<server, faults, unread, toasts, muted, Handle>>

\* Every POLL_MS while the list is there.
Poll ==
    /\ where = "list" /\ ~closed /\ Fetch
    /\ UNCHANGED <<server, faults, where, unread, toasts, muted, Handle>>

\* From the list or from a toast.  The server marks it as read when it is open.
OpenChat ==
    /\ where # "chat" /\ ~closed /\ (where = "list" \/ toasts.shown > 0)
    /\ where' = "chat" /\ server' = [server EXCEPT !.due = TRUE]
    /\ toasts' = IF where = "list" THEN toasts ELSE [toasts EXCEPT !.shown = @ - 1]
    /\ UNCHANGED <<faults, unread, fetches, muted, Handle>>

GoAway ==
    /\ where # "away" /\ where' = "away"
    /\ UNCHANGED <<server, faults, unread, fetches, toasts, muted, Handle>>

ToggleMute ==
    /\ where # "away" /\ muted' = ~muted
    /\ UNCHANGED <<server, faults, where, unread, fetches, toasts, Handle>>

InboxNext ==
    \/ TimerFires \/ SignOut \/ FriendWrites \/ MarkRead \/ ListChanges
    \/ PushToast \/ ToastOver \/ OpenList \/ Poll \/ OpenChat \/ GoAway \/ ToggleMute
    \/ \E s \in Socks : SocketOpens(s) \/ SocketDrops(s) \/ CloseEnds(s) \/ Receive(s)
    \/ \E k \in 1..NetCap, ok \in BOOLEAN : Answered(k, ok)

InboxSpec == InboxInit /\ [][InboxNext]_inboxVars

\* The minute passes, and requests, events and closing sockets come to an end.
InboxFairness ==
    /\ WF_inboxVars(Poll) /\ WF_inboxVars(\E k \in 1..NetCap : Answered(k, TRUE))
    /\ WF_inboxVars(MarkRead)
    /\ \A s \in Socks : WF_inboxVars(Receive(s)) /\ WF_inboxVars(CloseEnds(s))

InboxLiveSpec == InboxSpec /\ InboxFairness

-----------------------------------------------------------------------------
\* inbox_ws.ts:1-2: one connection per session.
OneInboxSocket ==
    Cardinality({s \in Socks : socks[s].state \in {"connecting", "open"}}) <= 1

\* FriendsMode.tsx:22-24: whatever events were lost, counted twice or overtaken by a
\* list, the badge of a list that stays open ends on the server's count.
ListOpen == where = "list" /\ ~closed
BadgeRight == unread = server.unread
BadgeHeals == <>[]ListOpen => <>[]BadgeRight
=============================================================================
