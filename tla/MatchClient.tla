----------------------------- MODULE MatchClient -----------------------------
(***************************************************************************)
(* The browser's side of anonymous matching: the reconnecting socket of    *)
(* lib/ws.ts, the start and stop of hooks/useMatch.ts with its one shared  *)
(* connection, the status machine of stores/chatStore.ts and the view that *)
(* components/Conversation.tsx picks from it.                              *)
(*                                                                         *)
(* A connection is an object that outlives its sockets: it reopens one     *)
(* after each unwanted close.  start() suspends once, on the device        *)
(* fingerprint, and anything may happen before it resumes.  Delays are     *)
(* steps; a message event is not fired once close() was called.            *)
(***************************************************************************)
EXTENDS Naturals, Sequences, FiniteSets

CONSTANTS MaxConns,    \* bound: connection objects created in one page load
          MaxMatches,  \* bound: partners met
          MaxDrops,    \* bound: times the network goes away
          NetCap,      \* bound: frames under way on one socket
          Modes        \* the tabs, from left to right; the first is "anon"

ASSUME MatchClientAssumption ==
    /\ {MaxConns, MaxMatches, NetCap} \subseteq Nat \ {0} /\ MaxDrops \in Nat
    /\ Len(Modes) > 1 /\ Modes[1] = "anon"

VARIABLES online,      \* navigator.onLine
          drops,       \* network failures so far
          fingerprint, \* the shared promise: "absent", "loading", "ready"
          starting,    \* calls of start() that waited for it
          conn,        \* [Conns -> connection object]
          activeConn,  \* the module's current connection, 0 for null
          chatSession, \* [Conns -> the server's side of its socket]
          net,         \* [Conns -> frames on their way to the browser]
          chat,        \* the store
          mode         \* the tab of the home page

matchVars == <<online, drops, fingerprint, starting, conn, activeConn, chatSession,
               net, chat, mode>>

Conns == 1..MaxConns

\* Mutant: a refused message counts as fatal too.
FatalToo == {"invalid_param", "quota_exceeded", "message_blocked"}

FatalCodes == {"invalid_param", "quota_exceeded"}
NoRetryCodes == {"quota_exceeded"}

\* A frame carries the number of the match it is about, 0 when it has none.
MatchFrame(type, m) == [type |-> type, match |-> m]

MatchTypeOK ==
    /\ online \in BOOLEAN /\ drops \in 0..MaxDrops
    /\ fingerprint \in {"absent", "loading", "ready"} /\ starting \in 0..MaxConns
    /\ conn \in [Conns -> [ws : {"unused", "none", "connecting", "open", "closing"},
                           byUser : BOOLEAN, fatal : BOOLEAN,
                           wait : {"none", "timer", "online"}]]
    /\ activeConn \in 0..MaxConns
    /\ chatSession \in [Conns -> [at : {"none", "queued", "matched", "over"},
                              match : 0..MaxMatches]]
    /\ chat.status \in {"idle", "connecting", "queued", "matched", "post_chat",
                        "ended", "error"}
    /\ mode \in 1..Len(Modes)

NewChat == [status |-> "idle", peer |-> 0, shown |-> {}, error |-> "none"]
NewConn == [ws |-> "unused", byUser |-> FALSE, fatal |-> FALSE, wait |-> "none"]
NoSession == [at |-> "none", match |-> 0]

MatchInit ==
    /\ online = TRUE /\ drops = 0 /\ starting = 0 /\ activeConn = 0
    /\ fingerprint \in {"absent", "ready"}   \* a first visit, or not
    /\ conn = [c \in Conns |-> NewConn]
    /\ chatSession = [c \in Conns |-> NoSession]
    /\ net = [c \in Conns |-> <<>>]
    /\ chat = NewChat /\ mode = 1

-----------------------------------------------------------------------------
(* lib/ws.ts *)

Used == Cardinality({c \in Conns : conn[c].ws # "unused"})
SocketOpen(c) == conn[c].ws = "open" /\ ~conn[c].byUser

\* close(): no more reconnection.  A wait for "online" is not undone, its timer
\* will look at closedByUser.
ClosedConn(cs, c) ==
    IF c = 0 THEN cs
    ELSE [cs EXCEPT ![c].byUser = TRUE,
                    ![c].wait = IF @ = "timer" THEN "none" ELSE @,
                    ![c].ws = IF @ \in {"connecting", "open"} THEN "closing" ELSE @]

\* connectMatch() k times in a row: the last one is the current connection.
Connect(cs, k) ==
    /\ conn' = [c \in Conns |-> IF c \in Used + 1..Used + k
                                THEN [cs[c] EXCEPT !.ws = "connecting"] ELSE cs[c]]
    /\ activeConn' = IF k = 0 THEN 0 ELSE Used + k

\* onStateChange("closed"): whatever socket it was, a conversation or a search is
\* taken to be over.
Disconnected(ch) ==
    [ch EXCEPT !.status = IF @ \in {"matched", "queued"} THEN "connecting" ELSE @]

\* onclose: the socket is gone, and whatever was under way with it.  Unless the
\* user or a fatal error closed it, a new one is opened after a delay, which
\* only starts once the browser is online.
OnClose(c) ==
    /\ conn' = [conn EXCEPT ![c].ws = "none",
                  ![c].wait = IF conn[c].byUser \/ conn[c].fatal THEN @
                              ELSE IF online THEN "timer" ELSE "online"]
    /\ chatSession' = [chatSession EXCEPT ![c] = NoSession]
    /\ net' = [net EXCEPT ![c] = <<>>]
    /\ chat' = Disconnected(chat)
    /\ UNCHANGED <<fingerprint, starting, activeConn, mode>>

\* The server ended the session and everything it sent has been read.
ServerClosed(c) ==
    /\ conn[c].ws = "open" /\ chatSession[c].at = "none" /\ net[c] = <<>>
    /\ OnClose(c) /\ UNCHANGED <<online, drops>>

\* The closing handshake of a socket the page closed comes to its end.
CloseEnds(c) ==
    /\ conn[c].ws = "closing"
    /\ OnClose(c) /\ UNCHANGED <<online, drops>>

\* The network goes away, with or without the browser knowing that it did.
NetworkDrop(c) ==
    /\ conn[c].ws \in {"connecting", "open"} /\ drops < MaxDrops
    /\ OnClose(c) /\ drops' = drops + 1 /\ UNCHANGED online

GoOffline ==
    /\ online /\ drops < MaxDrops
    /\ online' = FALSE /\ drops' = drops + 1
    /\ UNCHANGED <<fingerprint, starting, conn, activeConn, chatSession, net, chat, mode>>

\* The "online" listeners start the delay.
GoOnline ==
    /\ ~online /\ online' = TRUE
    /\ conn' = [c \in Conns |-> IF conn[c].wait = "online"
                                THEN [conn[c] EXCEPT !.wait = "timer"] ELSE conn[c]]
    /\ UNCHANGED <<drops, fingerprint, starting, activeConn, chatSession, net, chat, mode>>

Reopen(c) ==
    /\ conn[c].wait = "timer"
    /\ conn' = [conn EXCEPT ![c].wait = "none",
                  ![c].ws = IF conn[c].byUser \/ conn[c].fatal THEN @ ELSE "connecting"]
    /\ UNCHANGED <<online, drops, fingerprint, starting, activeConn, chatSession, net,
                   chat, mode>>

-----------------------------------------------------------------------------
(* The server, as far as one socket shows it *)

ToBrowser(c, frame) == Len(net[c]) < NetCap /\ net' = [net EXCEPT ![c] = Append(@, frame)]

AcceptSocket(c) ==
    /\ conn[c].ws = "connecting" /\ online
    /\ conn' = [conn EXCEPT ![c].ws = "open"]
    /\ chatSession' = [chatSession EXCEPT ![c].at = "queued"]
    /\ ToBrowser(c, MatchFrame("queued", 0))
    /\ UNCHANGED <<online, drops, fingerprint, starting, activeConn, chat, mode>>

ServerStep(c) ==
    UNCHANGED <<online, drops, fingerprint, starting, conn, activeConn, chat, mode>>

Pair(c) ==
    /\ chatSession[c].at = "queued"
    /\ LET met == UNION {{chatSession[d].match, chat.peer} \cup
                         {net[d][i].match : i \in DOMAIN net[d]} : d \in Conns}
       IN \E m \in 1..MaxMatches :
            /\ \A k \in met : k < m
            /\ chatSession' = [chatSession EXCEPT ![c] = [at |-> "matched", match |-> m]]
            /\ ToBrowser(c, MatchFrame("matched", m))
    /\ ServerStep(c)

PeerSpeaks(c) ==
    /\ chatSession[c].at = "matched" /\ ToBrowser(c, MatchFrame("msg", chatSession[c].match))
    /\ UNCHANGED chatSession /\ ServerStep(c)

PeerLeaves(c) ==
    /\ chatSession[c].at = "matched"
    /\ chatSession' = [chatSession EXCEPT ![c].at = "over"]
    /\ ToBrowser(c, MatchFrame("peer_left", chatSession[c].match))
    /\ ServerStep(c)

\* A refusal (bad parameter, quota) and queue_timeout end the session; a message
\* the moderation blocks does not.
ServerRefuses(c, code) ==
    /\ chatSession[c].at # "none"
    /\ IF code = "message_blocked" THEN chatSession[c].at = "matched" /\ UNCHANGED chatSession
       ELSE chatSession[c].at = "queued" /\ chatSession' = [chatSession EXCEPT ![c] = NoSession]
    /\ ToBrowser(c, MatchFrame(code, 0))
    /\ ServerStep(c)

-----------------------------------------------------------------------------
(* hooks/useMatch.ts and the views of the first tab *)

HomeShows(view) ==
    /\ Modes[mode] = "anon"
    /\ view = CASE chat.status = "idle"  -> "setup"
                [] chat.status = "error" -> "error"
                [] chat.status = "ended" -> "farewell"
                [] chat.status \in {"matched", "post_chat"} -> "chat"
                [] OTHER -> "searching"

\* The error view offers to try again unless a quota is exhausted.
RetryOffered == HomeShows("error") /\ chat.error \notin NoRetryCodes

\* Calls of start() that are suspended on the fingerprint.
Waiting == IF fingerprint = "loading" THEN starting ELSE 0

\* start(), from the setup or from the retry of the error view.
StartSearch ==
    /\ HomeShows("setup") \/ RetryOffered
    /\ Used + Waiting < MaxConns
    /\ LET closed == ClosedConn(conn, activeConn)
       IN IF fingerprint = "ready" THEN Connect(closed, 1) /\ UNCHANGED starting
          ELSE conn' = closed /\ activeConn' = 0 /\ starting' = starting + 1
    /\ fingerprint' = IF fingerprint = "absent" THEN "loading" ELSE fingerprint
    /\ chat' = [chat EXCEPT !.status = "connecting"]
    /\ UNCHANGED <<online, drops, chatSession, net, mode>>

\* Every start() that was waiting goes on from its await.
FingerprintReady ==
    /\ fingerprint = "loading" /\ fingerprint' = "ready"
    /\ Connect(conn, starting)
    /\ UNCHANGED <<online, drops, starting, chatSession, net, chat, mode>>

\* Mutant: the store keeps the messages of the last partner.
MatchedKeeping(m) == [chat EXCEPT !.status = "matched", !.peer = m]

\* A new partner: everything of the last one is forgotten.
MatchedWith(m) == [NewChat EXCEPT !.status = "matched", !.peer = m]

\* Any error frame, fatal or not, replaces whatever was shown.
ErrorShown(ch, code) == [ch EXCEPT !.status = "error", !.error = code]

\* onFrame, the frames that move the conversation from one view to another.
Applied(ch, f) ==
    CASE f.type = "queued"    -> [ch EXCEPT !.status = "queued"]
      [] f.type = "matched"   -> MatchedWith(f.match)
      [] f.type = "msg"       -> [ch EXCEPT !.shown = @ \cup {f.match}]
      [] f.type = "peer_left" -> [ch EXCEPT !.status = "post_chat"]
      [] OTHER                -> ErrorShown(ch, f.type)

OnMatchFrame(c) ==
    /\ SocketOpen(c) /\ net[c] # <<>>
    /\ chat' = Applied(chat, Head(net[c]))
    /\ conn' = [conn EXCEPT ![c].fatal = @ \/ (Head(net[c]).type \in FatalCodes)]
    /\ net' = [net EXCEPT ![c] = Tail(@)]
    /\ UNCHANGED <<online, drops, fingerprint, starting, activeConn, chatSession, mode>>

\* next(): the server leaves the conversation and queues again; the page waits
\* for its "queued".
NextPeer ==
    /\ HomeShows("chat") /\ activeConn # 0 /\ SocketOpen(activeConn)
    /\ chatSession[activeConn].at \in {"matched", "over"}
    /\ chatSession' = [chatSession EXCEPT ![activeConn].at = "queued"]
    /\ ToBrowser(activeConn, MatchFrame("queued", 0))
    /\ UNCHANGED <<online, drops, fingerprint, starting, conn, activeConn, chat, mode>>

Farewell == [chat EXCEPT !.status = "ended", !.error = "none"]

\* stop(): cancel of the search, quit of the conversation, confirmed back.
Stop ==
    /\ HomeShows("searching") \/ HomeShows("chat")
    /\ conn' = ClosedConn(conn, activeConn) /\ activeConn' = 0
    /\ chat' = Farewell
    /\ UNCHANGED <<online, drops, fingerprint, starting, chatSession, net, mode>>

ResetChat ==
    /\ chat' = NewChat
    /\ UNCHANGED <<online, drops, fingerprint, starting, chatSession, net, mode>>

FarewellOver == HomeShows("farewell") /\ ResetChat
                /\ UNCHANGED <<conn, activeConn>>

\* "Back" of the error view resets the store, not the connection.
ErrorBack == HomeShows("error") /\ ResetChat
             /\ UNCHANGED <<conn, activeConn>>

\* pagehide, then pageshow from the back/forward cache.
BackForwardCache ==
    /\ chat # NewChat \/ activeConn # 0
    /\ conn' = ClosedConn(conn, activeConn) /\ activeConn' = 0 /\ ResetChat

SwitchTab(m) ==
    /\ m # mode /\ mode' = m
    /\ UNCHANGED <<online, drops, fingerprint, starting, conn, activeConn, chatSession,
                   net, chat>>

\* The views of the tab that is left unmount, the socket stays.
TapTab(m) == SwitchTab(m)

\* A clearly horizontal swipe or drag goes to the tab beside.
Swipe(m) == m \in {mode - 1, mode + 1} /\ SwitchTab(m)

MatchNext ==
    \/ StartSearch \/ FingerprintReady \/ NextPeer \/ Stop \/ FarewellOver \/ ErrorBack
    \/ BackForwardCache \/ GoOffline \/ GoOnline
    \/ \E m \in DOMAIN Modes : TapTab(m) \/ Swipe(m)
    \/ \E c \in Conns : \/ AcceptSocket(c) \/ OnMatchFrame(c) \/ Reopen(c) \/ Pair(c)
                        \/ PeerSpeaks(c) \/ PeerLeaves(c) \/ ServerClosed(c)
                        \/ CloseEnds(c) \/ NetworkDrop(c)
                        \/ \E code \in FatalCodes \cup {"queue_timeout", "message_blocked"} :
                             ServerRefuses(c, code)

MatchSpec == MatchInit /\ [][MatchNext]_matchVars

-----------------------------------------------------------------------------
\* Connections that have a socket, or that will open one again.
Live == {c \in Conns : /\ ~conn[c].byUser
                       /\ \/ conn[c].ws \in {"connecting", "open"}
                          \/ conn[c].wait # "none" /\ ~conn[c].fatal}

\* No list of messages mixes two partners, and when the header names one the
\* messages are theirs, unless two searches waited together for the fingerprint:
\* then both connect, and only the last connection can be closed.
MessagesOfThisPeer ==
    starting <= 1 => /\ Cardinality(chat.shown) <= 1
                     /\ chat.peer # 0 => chat.shown \subseteq {chat.peer}

\* The search screen is never shown with nothing under way: a fingerprint, a
\* socket or a reconnection that is due.
SearchHasSocket ==
    chat.status \in {"connecting", "queued"} => Waiting > 0 \/ Live # {}
=============================================================================
