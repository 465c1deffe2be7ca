------------------------------ MODULE ChatThread ------------------------------
(***************************************************************************)
(* The thread of a conversation: messages and corrections as               *)
(* hooks/useMatch.ts sends and receives them and stores/chatStore.ts keeps *)
(* them, the correction sheet (chat/CorrectionModal.tsx), the link that    *)
(* edits a correction for 30 s (chat/MessageBubble.tsx), and the counter   *)
(* in the title of a hidden tab (hooks/useTabAttention.ts).                *)
(*                                                                         *)
(* The gateway may refuse a message or a correction, and drops a           *)
(* correction that follows another one too soon without a word; the AI     *)
(* teacher may publish its greeting twice under one id.  A correction is   *)
(* a version number: the browser shows one, the partner another.           *)
(***************************************************************************)
EXTENDS Naturals, Sequences, FiniteSets

CONSTANTS MaxIds,      \* bound: messages with an id
          MaxVersions, \* bound: corrections submitted
          WireCap      \* bound: frames under way in one direction

ASSUME ThreadAssumption == {MaxIds, MaxVersions, WireCap} \subseteq Nat \ {0}

VARIABLES thread,   \* messages as they are shown
          shown,    \* [ids -> version of the correction under it, 0 for none]
          editable, \* ids whose correction is mine and less than 30 s old
          target,   \* id the correction sheet is open on, 0 when it is closed
          versions, \* corrections submitted so far, on both sides
          out,      \* frames to the partner
          in,       \* frames from the partner
          peerSees, \* [ids -> version of the correction the partner shows]
          status,   \* "matched", "post_chat" or "error"
          tab       \* hidden, unread, and the count of messages seen

threadVars == <<thread, shown, editable, target, versions, out, in, peerSees,
                status, tab>>

Ids == 1..MaxIds
From == {"me", "peer", "system"}

ThreadTypeOK ==
    /\ \A i \in DOMAIN thread : thread[i].id \in 0..MaxIds /\ thread[i].from \in From
    /\ shown \in [Ids -> 0..MaxVersions] /\ peerSees \in [Ids -> 0..MaxVersions]
    /\ editable \subseteq Ids /\ target \in 0..MaxIds /\ versions \in 0..MaxVersions
    /\ Len(out) <= WireCap /\ Len(in) <= WireCap
    /\ status \in {"matched", "post_chat", "error"}
    /\ tab \in [hidden : BOOLEAN, unread : Nat, seen : Nat]

ThreadInit ==
    /\ thread = <<>> /\ shown = [m \in Ids |-> 0] /\ peerSees = shown
    /\ editable = {} /\ target = 0 /\ versions = 0
    /\ out = <<>> /\ in = <<>> /\ status = "matched"
    /\ tab = [hidden |-> FALSE, unread |-> 0, seen |-> 0]

Known(m) == \E i \in DOMAIN thread : thread[i].id = m
Author(m) == (CHOOSE i \in DOMAIN thread : thread[i].id = m)
Mine(m) == Known(m) /\ thread[Author(m)].from = "me"
Theirs(m) == Known(m) /\ thread[Author(m)].from = "peer"

NewIds == {m \in Ids : /\ ~Known(m)
                       /\ \A i \in DOMAIN out : out[i].id # m
                       /\ \A i \in DOMAIN in : in[i].id # m}

ThreadFrame(type, m, v) == [type |-> type, id |-> m, version |-> v]
Line(m, from) == [id |-> m, from |-> from]

\* useTabAttention: lines that are not mine, and are more than were ever seen.
FromPeer(th) == Cardinality({i \in DOMAIN th : th[i].from # "me"})
Noticed(th) ==
    IF FromPeer(th) > tab.seen
    THEN [tab EXCEPT !.seen = FromPeer(th),
                     !.unread = IF tab.hidden THEN @ + FromPeer(th) - tab.seen ELSE @]
    ELSE tab

ThreadShown(th) == thread' = th /\ tab' = Noticed(th)

-----------------------------------------------------------------------------
\* sendMsg(): the field or an icebreaker.  What the socket takes is shown at once.
SendMsg(m) ==
    /\ status = "matched" /\ m \in NewIds /\ Len(out) < WireCap
    /\ out' = Append(out, ThreadFrame("msg", m, 0))
    /\ ThreadShown(Append(thread, Line(m, "me")))
    /\ UNCHANGED <<shown, editable, target, versions, in, peerSees, status>>

\* Mutant: one's own messages can be corrected too.
CanCorrectAny(m) == status = "matched" /\ Known(m) /\ (shown[m] = 0 \/ m \in editable)

\* The pencil beside a message of the partner, or the link under a correction of
\* mine that is recent.
CanCorrect(m) == status = "matched" /\ Theirs(m) /\ (shown[m] = 0 \/ m \in editable)

OpenCorrection(m) ==
    /\ CanCorrect(m) /\ target = 0 /\ target' = m
    /\ UNCHANGED <<thread, shown, editable, versions, out, in, peerSees, status, tab>>

CloseCorrection ==
    /\ target # 0 /\ target' = 0
    /\ UNCHANGED <<thread, shown, editable, versions, out, in, peerSees, status, tab>>

\* applyCorrection(): a message that is not there any more takes none.
ShowCorrection(m, v) == IF Known(m) THEN [shown EXCEPT ![m] = v] ELSE shown

\* correct(): sent, and shown here without an echo.
Correct ==
    /\ target # 0 /\ versions < MaxVersions /\ Len(out) < WireCap
    /\ versions' = versions + 1 /\ target' = 0
    /\ out' = Append(out, ThreadFrame("correct", target, versions + 1))
    /\ shown' = ShowCorrection(target, versions + 1)
    /\ editable' = editable \cup {target}
    /\ UNCHANGED <<thread, in, peerSees, status, tab>>

\* EDIT_WINDOW_MS after the last version.
EditOver(m) ==
    /\ m \in editable /\ editable' = editable \ {m}
    /\ UNCHANGED <<thread, shown, target, versions, out, in, peerSees, status, tab>>

-----------------------------------------------------------------------------
(* The gateway and the partner *)

\* The next frame reaches the partner, or is dropped: a correction too soon after
\* another one, anything once the partner has left.
Relay ==
    /\ out # <<>> /\ out' = Tail(out)
    /\ LET f == Head(out)
       IN \/ f.type = "correct" /\ peerSees' = [peerSees EXCEPT ![f.id] = f.version]
          \/ UNCHANGED peerSees
    /\ UNCHANGED <<thread, shown, editable, target, versions, in, status, tab>>

\* It is refused: an error frame.
GatewayRefuses ==
    /\ out # <<>> /\ Len(in) < WireCap
    /\ out' = Tail(out) /\ in' = Append(in, ThreadFrame("error", 0, 0))
    /\ UNCHANGED <<thread, shown, editable, target, versions, peerSees, status, tab>>

PeerSends(m, twice) ==
    /\ m \in NewIds /\ Len(in) + 1 < WireCap
    /\ in' = in \o (IF twice THEN <<ThreadFrame("msg", m, 0), ThreadFrame("msg", m, 0)>>
                    ELSE <<ThreadFrame("msg", m, 0)>>)
    /\ UNCHANGED <<thread, shown, editable, target, versions, out, peerSees, status, tab>>

\* The partner corrects one of my messages; theirs shows it at once.
PeerCorrects(m) ==
    /\ Mine(m) /\ versions < MaxVersions /\ Len(in) < WireCap
    /\ versions' = versions + 1
    /\ peerSees' = [peerSees EXCEPT ![m] = versions + 1]
    /\ in' = Append(in, ThreadFrame("correct", m, versions + 1))
    /\ UNCHANGED <<thread, shown, editable, target, out, status, tab>>

PartnerGone ==
    /\ status = "matched" /\ Len(in) < WireCap
    /\ \A i \in DOMAIN in : in[i].type # "left"
    /\ in' = Append(in, ThreadFrame("left", 0, 0))
    /\ UNCHANGED <<thread, shown, editable, target, versions, out, peerSees, status, tab>>

-----------------------------------------------------------------------------
\* pushPeer(): the first of two messages with one id stays.
Pushed(m) == IF Known(m) THEN thread ELSE Append(thread, Line(m, "peer"))

\* onFrame.
OnThreadFrame ==
    /\ status # "error" /\ in # <<>> /\ in' = Tail(in)
    /\ LET f == Head(in)
       IN \/ /\ f.type = "msg" /\ ThreadShown(Pushed(f.id))
             /\ UNCHANGED <<shown, status, target>>
          \/ /\ f.type = "correct" /\ shown' = ShowCorrection(f.id, f.version)
             /\ UNCHANGED <<thread, status, target, tab>>
          \/ /\ f.type = "left" /\ ThreadShown(Append(thread, Line(0, "system")))
             /\ status' = "post_chat" /\ UNCHANGED <<shown, target>>
          \/ /\ f.type = "error" /\ status' = "error" /\ target' = 0
             /\ tab' = [tab EXCEPT !.unread = 0] /\ UNCHANGED <<thread, shown>>
    /\ UNCHANGED <<editable, versions, out, peerSees>>

\* visibilitychange.
HideTab ==
    /\ ~tab.hidden /\ tab' = [tab EXCEPT !.hidden = TRUE]
    /\ UNCHANGED <<thread, shown, editable, target, versions, out, in, peerSees, status>>

ShowTab ==
    /\ tab.hidden
    /\ tab' = [hidden |-> FALSE, unread |-> 0, seen |-> FromPeer(thread)]
    /\ UNCHANGED <<thread, shown, editable, target, versions, out, in, peerSees, status>>

ThreadNext ==
    \/ CloseCorrection \/ Correct \/ Relay \/ GatewayRefuses \/ PartnerGone \/ OnThreadFrame
    \/ HideTab \/ ShowTab
    \/ \E m \in Ids : \/ SendMsg(m) \/ OpenCorrection(m) \/ EditOver(m) \/ PeerCorrects(m)
                      \/ \E twice \in BOOLEAN : PeerSends(m, twice)

ThreadSpec == ThreadInit /\ [][ThreadNext]_threadVars

-----------------------------------------------------------------------------
\* Neither side ever goes back to an older correction of a message, and the side that
\* did not write it never shows one the other does not know, whatever the gateway
\* dropped.
Forward ==
    \A m \in Ids :
        /\ shown'[m] >= shown[m]
        /\ peerSees'[m] >= peerSees[m]
        /\ Theirs(m) => peerSees'[m] <= shown'[m]
CorrectionsMoveForward == [][Forward]_threadVars
=============================================================================
