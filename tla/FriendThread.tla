------------------------------ MODULE FriendThread ------------------------------
(***************************************************************************)
(* The messages of two friends (friends/FriendConversation.tsx with        *)
(* lib/friend_ws.ts, and the menu, the editor and the selection of         *)
(* chat/MessageBubble.tsx), over the log the server keeps.                 *)
(*                                                                         *)
(* The server's session (ws/friend_handler.go) subscribes to the channel,  *)
(* then reads the last messages of the log and sends them, then relays     *)
(* what was published since: a message that was written in between comes   *)
(* twice, and an older state of it may come after a newer one.  A change   *)
(* is written first and published next, and a publication that fails is    *)
(* only logged.  The socket may drop at any moment and opens again; what   *)
(* is typed meanwhile is thrown away.  Both friends have the conversation  *)
(* open once.                                                              *)
(***************************************************************************)
EXTENDS Naturals, Sequences, FiniteSets

CONSTANTS HistMax,  \* messages of a history, 200 in the code
          MaxLog,   \* bound: messages in the log
          MaxEdits, \* bound: times a message is edited
          MaxSocketDrops, \* bound: times the socket drops
          BusCap    \* bound: published and not relayed, sent and not received

ASSUME FriendThreadAssumption ==
    /\ {HistMax, MaxLog, BusCap} \subseteq Nat \ {0} /\ {MaxEdits, MaxSocketDrops} \subseteq Nat

VARIABLES log,     \* the server's messages: author, edits, deleted
          toSay,   \* written by the friend's session and not yet published
          missed,  \* history: ids whose last publication failed since my session subscribed
          ftSession, \* of my socket on the server: none, subscribed, live
          bus,     \* published for that session and not relayed
          ftUp, ftDown, \* frames under way
          ftDrops,   \* drops so far
          msgs,    \* what is shown, in order
          bubble   \* what is open on which messages: a menu, the editor, the
                   \* selection, a confirmation

ftVars == <<log, toSay, missed, ftSession, bus, ftUp, ftDown, ftDrops, msgs, bubble>>

LogIds == 1..MaxLog
State == [id : LogIds, by : {"me", "peer"}, v : 0..MaxEdits, del : BOOLEAN]
NoBubble == [kind |-> "none", on |-> {}]

FriendThreadTypeOK ==
    /\ \A i \in DOMAIN log : log[i] \in State
    /\ \A n \in DOMAIN msgs : msgs[n] \in State
    /\ ftSession \in {"none", "subscribed", "live"} /\ ftDrops \in 0..MaxSocketDrops
    /\ bubble.kind \in {"none", "menu", "edit", "select", "delete", "bulk"}
    /\ toSay \subseteq State /\ missed \subseteq LogIds
    /\ bubble.on \subseteq LogIds /\ Len(bus) <= BusCap /\ Len(ftUp) <= BusCap

FriendThreadInit ==
    /\ \E b \in {"me", "peer"} :
         log \in {<<>>, <<[id |-> 1, by |-> b, v |-> 0, del |-> FALSE]>>}
    /\ ftSession = "none" /\ bus = <<>> /\ ftUp = <<>> /\ ftDown = <<>>
    /\ toSay = {} /\ missed = {} /\ ftDrops = 0 /\ msgs = <<>> /\ bubble = NoBubble

LogMsg(m) == [type |-> "msg", m |-> m]

-----------------------------------------------------------------------------
(* The server: ws/friend_handler.go and the log of friends/store.go *)

OpenSocket ==
    /\ ftSession = "none" /\ ftSession' = "subscribed" /\ missed' = {}
    /\ UNCHANGED <<log, toSay, bus, ftUp, ftDown, ftDrops, msgs, bubble>>

\* ListMessages: the last ones, the oldest first.
LastOf(l) == IF Len(l) <= HistMax THEN l ELSE SubSeq(l, Len(l) - HistMax + 1, Len(l))

SendHistory ==
    /\ ftSession = "subscribed" /\ ftSession' = "live"
    /\ ftDown' = Append(ftDown, [type |-> "history", log |-> LastOf(log)])
    /\ UNCHANGED <<log, toSay, missed, bus, ftUp, ftDrops, msgs, bubble>>

\* Everything under way is lost; the timer opens the socket again.
DropSocket ==
    /\ ftSession # "none" /\ ftDrops < MaxSocketDrops /\ ftDrops' = ftDrops + 1
    /\ ftSession' = "none" /\ bus' = <<>> /\ ftUp' = <<>> /\ ftDown' = <<>>
    /\ UNCHANGED <<log, toSay, missed, msgs, bubble>>

\* A user writes, edits or deletes: what the log may become.  An edit is refused
\* when the message is older than the window.
Written(by) ==
    IF Len(log) = MaxLog THEN {}
    ELSE {Append(log, [id |-> Len(log) + 1, by |-> by, v |-> 0, del |-> FALSE])}
There(by, i) == i \in DOMAIN log /\ log[i].by = by /\ ~log[i].del
Edited(by, i) ==
    IF There(by, i) /\ log[i].v < MaxEdits THEN {[log EXCEPT ![i].v = @ + 1]} ELSE {}
DeletedBy(by, i) == IF There(by, i) THEN {[log EXCEPT ![i].del = TRUE]} ELSE {}

Published(frame) == bus' = IF ftSession = "none" THEN bus ELSE Append(bus, frame)

\* The friend's session changes message i,
PeerWrites(i) ==
    /\ toSay = {}
    /\ log' \in (IF i = Len(log) + 1 THEN Written("peer")
                 ELSE Edited("peer", i) \cup DeletedBy("peer", i))
    /\ toSay' = {log'[i]}
    /\ UNCHANGED <<missed, ftSession, bus, ftUp, ftDown, ftDrops, msgs, bubble>>

\* then publishes it.
PeerPublishes(m) ==
    /\ m \in toSay /\ toSay' = toSay \ {m}
    /\ \/ Len(bus) < BusCap /\ Published(LogMsg(m)) /\ missed' = missed \ {m.id}
       \/ missed' = missed \cup {m.id} /\ UNCHANGED bus
    /\ UNCHANGED <<log, ftSession, ftUp, ftDown, ftDrops, msgs, bubble>>

PeerActs == (\E i \in LogIds : PeerWrites(i)) \/ \E m \in toSay : PeerPublishes(m)

RelayBus ==
    /\ ftSession = "live" /\ bus # <<>> /\ Len(ftDown) < BusCap
    /\ bus' = Tail(bus) /\ ftDown' = Append(ftDown, Head(bus))
    /\ UNCHANGED <<log, toSay, missed, ftSession, ftUp, ftDrops, msgs, bubble>>

\* handleSend, handleEdit, handleDelete.
Outcomes(f) == CASE f.type = "send" -> Written("me")
                 [] f.type = "edit" -> Edited("me", f.id)
                 [] f.type = "delete" -> DeletedBy("me", f.id)

Serve ==
    /\ ftSession = "live" /\ ftUp # <<>> /\ Len(ftDown) < BusCap /\ ftUp' = Tail(ftUp)
    /\ \/ /\ log' \in Outcomes(Head(ftUp))
          /\ ftDown' = Append(ftDown, LogMsg(log'[IF Head(ftUp).type = "send" THEN Len(log')
                                           ELSE Head(ftUp).id]))
       \/ ftDown' = Append(ftDown, [type |-> "error"]) /\ UNCHANGED log
    /\ UNCHANGED <<toSay, missed, ftSession, bus, ftDrops, msgs, bubble>>

-----------------------------------------------------------------------------
(* The client *)

InView(i) == \E n \in DOMAIN msgs : msgs[n].id = i
At(i) == msgs[CHOOSE n \in DOMAIN msgs : msgs[n].id = i]
MineAndThere(i) == InView(i) /\ At(i).by = "me" /\ ~At(i).del

\* Mutant: the first state of a message stays.
MergedOnce(m) == IF InView(m.id) THEN msgs ELSE Append(msgs, m)

\* A message that is known is replaced where it stands.
Merged(m) ==
    IF InView(m.id) THEN [n \in DOMAIN msgs |-> IF msgs[n].id = m.id THEN m ELSE msgs[n]]
    ELSE Append(msgs, m)

\* A deleted message has no menu left; its editor, a selection, a dialog stay.
ShowLog(ms) ==
    /\ msgs' = ms
    /\ bubble' = IF bubble.kind = "menu"
                    /\ \A n \in DOMAIN ms : ms[n].id \in bubble.on => ms[n].del
                 THEN NoBubble ELSE bubble

\* Errors are ignored.
OnLogFrame ==
    /\ ftDown # <<>> /\ ftDown' = Tail(ftDown)
    /\ LET f == Head(ftDown)
       IN \/ f.type = "history" /\ ShowLog(f.log)
          \/ f.type = "msg" /\ ShowLog(Merged(f.m))
          \/ f.type = "error" /\ UNCHANGED <<msgs, bubble>>
    /\ UNCHANGED <<ftUp, log, toSay, missed, ftSession, bus, ftDrops>>

\* sendRaw(): nothing leaves a socket that is not open.
Sent(frames) ==
    /\ Len(ftUp \o frames) <= BusCap
    /\ ftUp' = IF ftSession = "none" THEN ftUp ELSE ftUp \o frames
    /\ UNCHANGED <<ftDown, log, toSay, missed, ftSession, bus, ftDrops, msgs>>

Send == Sent(<<[type |-> "send"]>>) /\ UNCHANGED bubble

TurnBubble(b) ==
    bubble' = b /\ UNCHANGED <<ftUp, ftDown, log, toSay, missed, ftSession, bus, ftDrops, msgs>>

OpenBubbleMenu(i) ==
    bubble = NoBubble /\ MineAndThere(i) /\ TurnBubble([kind |-> "menu", on |-> {i}])

\* The entry of the menu is there for FRIEND_EDIT_WINDOW_MS.
StartEdit == bubble.kind = "menu" /\ TurnBubble([bubble EXCEPT !.kind = "edit"])

\* The menu of a message, or the bar of the selection.
AskDelete ==
    \/ bubble.kind = "menu" /\ TurnBubble([bubble EXCEPT !.kind = "delete"])
    \/ bubble.kind = "select" /\ TurnBubble([bubble EXCEPT !.kind = "bulk"])

\* Cancel, Escape, a click outside.  The selection survives its confirmation.
CloseBubble ==
    /\ bubble # NoBubble
    /\ TurnBubble(IF bubble.kind = "bulk" THEN [bubble EXCEPT !.kind = "select"] ELSE NoBubble)

\* A text that is new; the window may have closed meanwhile.
SaveEdit ==
    /\ bubble.kind = "edit" /\ bubble' = NoBubble
    /\ Sent(<<[type |-> "edit", id |-> CHOOSE i \in bubble.on : TRUE]>>)

\* One frame for each message.
ConfirmDelete ==
    /\ bubble.kind \in {"delete", "bulk"} /\ bubble' = NoBubble
    /\ Sent([n \in 1..Cardinality(bubble.on) |->
               [type |-> "delete", id |-> CHOOSE i \in bubble.on :
                  Cardinality({j \in bubble.on : j < i}) = n - 1]])

\* A long press starts the selection, a tap adds a message to it or takes it out.
SelectMessage(i) ==
    /\ MineAndThere(i) /\ bubble.kind \in {"none", "select"}
    /\ LET on == (bubble.on \ {i}) \cup ({i} \ bubble.on)
       IN TurnBubble(IF on = {} THEN NoBubble ELSE [kind |-> "select", on |-> on])

FriendThreadNext ==
    \/ OpenSocket \/ SendHistory \/ DropSocket \/ PeerActs \/ RelayBus \/ Serve
    \/ OnLogFrame \/ Send \/ StartEdit \/ AskDelete \/ CloseBubble \/ SaveEdit \/ ConfirmDelete
    \/ \E i \in LogIds : OpenBubbleMenu(i) \/ SelectMessage(i)

FriendThreadSpec == FriendThreadInit /\ [][FriendThreadNext]_ftVars

-----------------------------------------------------------------------------
\* friend_handler.go subscribes before it reads the log: whatever was written, edited,
\* deleted or lost with a socket, a conversation that has nothing under way shows no
\* message twice, each in its last state, and leaves none out after the first it shows.
\* The exception is a message whose last publication failed since the session subscribed.
ThreadConverges ==
    ftSession = "live" /\ bus = <<>> /\ ftDown = <<>> /\ toSay = {} =>
        /\ \A n, k \in DOMAIN msgs : msgs[n].id = msgs[k].id => n = k
        /\ \A i \in DOMAIN log \ missed :
              IF InView(i) THEN At(i) = log[i] ELSE msgs # <<>> /\ i < msgs[1].id
=============================================================================
