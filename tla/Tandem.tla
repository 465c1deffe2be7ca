-------------------------------- MODULE Tandem --------------------------------
(***************************************************************************)
(* The tandem session of a conversation, end to end: the two browsers      *)
(* (hooks/useMatch.ts, stores/chatStore.ts, chat/TandemStrip.tsx), the two *)
(* session loops of the gateway (internal/ws/chat.go) and the room between *)
(* them.  One side proposes, the other accepts, and the proposer's loop    *)
(* then owns the clock of the two phases; the other one follows what is    *)
(* published.  Two proposals that cross count as an agreement, and the     *)
(* side with the smaller session id owns the clock.                        *)
(*                                                                         *)
(* Every leg is a FIFO queue: browser to loop, loop to loop, loop to       *)
(* browser.  A language is named by the side that practises it.            *)
(***************************************************************************)
EXTENDS Naturals, Sequences

CONSTANT QueueCap      \* bound: frames under way on one leg

ASSUME TandemAssumption == QueueCap \in Nat \ {0}

VARIABLES strip,       \* [Sides -> tandem field of the browser's store]
          dismissed,   \* [Sides -> the prompt was closed]
          loop,        \* [Sides -> tandem variables of the session loop]
          stripUp,     \* [Sides -> frames from its browser]
          stripRoom,   \* [Sides -> events of the room for it]
          stripDown    \* [Sides -> frames to its browser]

tandemVars == <<strip, dismissed, loop, stripUp, stripRoom, stripDown>>

Sides == {"a", "b"}
Other(u) == IF u = "a" THEN "b" ELSE "a"

\* Mutant: whoever has proposed owns the clock.
AnySide(u) == TRUE

SmallerID(u) == u = "a"

NullLang == "none"
StripLangs == Sides \cup {NullLang}
NoWish == [kind |-> "null", lang |-> NullLang]

\* Order of the phases of the proposer: the language it practises, then its own.
PhaseLang(u, phase) == IF phase = 1 THEN u ELSE Other(u)

BrowserFrame == [type : {"tandem_propose", "tandem_accept"}, lang : {NullLang}]
RoomEvent == [type : {"propose", "accept", "switch", "end", "left"}, lang : StripLangs]
LoopFrame == [type : {"tandem_prompt", "tandem_switch", "tandem_end", "peer_left"},
              lang : StripLangs]

TandemTypeOK ==
    /\ strip \in [Sides -> [kind : {"null", "proposed", "prompted", "active", "gone"},
                       lang : StripLangs]]
    /\ dismissed \in [Sides -> BOOLEAN]
    /\ loop \in [Sides -> [proposed : BOOLEAN, active : BOOLEAN, phase : 0..2,
                           timer : BOOLEAN, peerGone : BOOLEAN, here : BOOLEAN]]
    /\ stripUp \in [Sides -> Seq(BrowserFrame)]
    /\ stripRoom \in [Sides -> Seq(RoomEvent)] /\ stripDown \in [Sides -> Seq(LoopFrame)]
    /\ \A u \in Sides : Len(stripUp[u]) <= QueueCap

TandemInit ==
    /\ strip = [u \in Sides |-> NoWish]
    /\ dismissed = [u \in Sides |-> FALSE]
    /\ loop = [u \in Sides |-> [proposed |-> FALSE, active |-> FALSE, phase |-> 0,
                                timer |-> FALSE, peerGone |-> FALSE, here |-> TRUE]]
    /\ stripUp = [u \in Sides |-> <<>>]
    /\ stripRoom = stripUp /\ stripDown = stripUp

TandemMsg(type, lang) == [type |-> type, lang |-> lang]
Enqueued(queues, u, m) == [queues EXCEPT ![u] = Append(@, m)]

-----------------------------------------------------------------------------
(* The browser *)

\* Not after the end of the conversation has been shown.
StripShown(u) == loop[u].here /\ strip[u].kind # "gone"

CanPropose(u) == StripShown(u) /\ strip[u].kind = "null"
PromptShown(u) == StripShown(u) /\ strip[u].kind = "prompted" /\ ~dismissed[u]

\* proposeTandem()
Propose(u) ==
    /\ CanPropose(u) /\ Len(stripUp[u]) < QueueCap
    /\ stripUp' = Enqueued(stripUp, u, TandemMsg("tandem_propose", NullLang))
    /\ strip' = [strip EXCEPT ![u].kind = "proposed"]
    /\ UNCHANGED <<dismissed, loop, stripRoom, stripDown>>

\* acceptTandem() closes the card until the first phase is announced.
AcceptPrompt(u) ==
    /\ PromptShown(u) /\ Len(stripUp[u]) < QueueCap
    /\ stripUp' = Enqueued(stripUp, u, TandemMsg("tandem_accept", NullLang))
    /\ strip' = [strip EXCEPT ![u] = NoWish]
    /\ UNCHANGED <<dismissed, loop, stripRoom, stripDown>>

\* "Ignore" hides the card here and tells nobody.
Dismiss(u) ==
    /\ PromptShown(u)
    /\ dismissed' = [dismissed EXCEPT ![u] = TRUE]
    /\ UNCHANGED <<strip, loop, stripUp, stripRoom, stripDown>>

\* onFrame: a prompt counts only when nothing is under way on this side.
OnTandemFrame(u) ==
    /\ stripDown[u] # <<>>
    /\ LET f == Head(stripDown[u])
           prompt == f.type = "tandem_prompt" /\ strip[u] = NoWish
       IN /\ strip' = [strip EXCEPT ![u] =
               CASE prompt -> [kind |-> "prompted", lang |-> NullLang]
                 [] f.type = "tandem_switch" -> [kind |-> "active", lang |-> f.lang]
                 [] f.type = "tandem_end" -> NoWish
                 [] f.type = "peer_left" -> [kind |-> "gone", lang |-> NullLang]
                 [] OTHER -> @]
          /\ dismissed' = [dismissed EXCEPT ![u] = @ /\ ~prompt]
    /\ stripDown' = [stripDown EXCEPT ![u] = Tail(@)]
    /\ UNCHANGED <<loop, stripUp, stripRoom>>

-----------------------------------------------------------------------------
(* The session loop *)

\* startTandemPhase: told to the browser, published, and the clock is armed.
InPhase(l, phase) == [l EXCEPT !.active = TRUE, !.phase = phase, !.timer = TRUE]

PhaseStarted(u, phase) ==
    /\ loop' = [loop EXCEPT ![u] = InPhase(@, phase)]
    /\ stripDown' = Enqueued(stripDown, u, TandemMsg("tandem_switch", PhaseLang(u, phase)))

Ended(l) == [l EXCEPT !.active = FALSE, !.phase = 0, !.proposed = FALSE, !.timer = FALSE]

\* One frame of the browser.
FromBrowser(u) ==
    /\ loop[u].here /\ stripUp[u] # <<>>
    /\ stripUp' = [stripUp EXCEPT ![u] = Tail(@)]
    /\ LET m == Head(stripUp[u])
           l == loop[u]
           refused == l.peerGone \/ l.active \/ l.proposed
       IN \/ refused /\ UNCHANGED <<loop, stripRoom>>
          \/ /\ ~refused /\ m.type = "tandem_propose"
             /\ loop' = [loop EXCEPT ![u].proposed = TRUE]
             /\ stripRoom' = Enqueued(stripRoom, Other(u), TandemMsg("propose", NullLang))
          \/ /\ ~refused /\ m.type = "tandem_accept"
             /\ stripRoom' = Enqueued(stripRoom, Other(u), TandemMsg("accept", NullLang))
             /\ UNCHANGED loop
    /\ UNCHANGED <<strip, dismissed, stripDown>>

\* Whether the envelope m makes the loop of u start the session and own its clock.
Starts(u, m) ==
    /\ loop[u].proposed /\ ~loop[u].active
    /\ m.type = "accept" \/ (m.type = "propose" /\ SmallerID(u))

\* One envelope of the room; nothing follows a "left".
FromRoom(u) ==
    /\ loop[u].here /\ stripRoom[u] # <<>>
    /\ LET m == Head(stripRoom[u])
           l == loop[u]
           rest == [stripRoom EXCEPT ![u] = Tail(@)]
       IN \/ /\ Starts(u, m)
             /\ PhaseStarted(u, 1)
             /\ stripRoom' = Enqueued(rest, Other(u), TandemMsg("switch", PhaseLang(u, 1)))
          \/ /\ ~Starts(u, m) /\ stripRoom' = rest
             /\ \/ /\ m.type = "propose" /\ ~l.active /\ ~l.proposed
                   /\ stripDown' = Enqueued(stripDown, u, TandemMsg("tandem_prompt", NullLang))
                   /\ UNCHANGED loop
                \/ /\ (m.type = "propose" /\ (l.active \/ l.proposed)) \/ m.type = "accept"
                   /\ UNCHANGED <<loop, stripDown>>
                \/ /\ m.type = "switch"
                   /\ stripDown' = Enqueued(stripDown, u, TandemMsg("tandem_switch", m.lang))
                   /\ UNCHANGED loop
                \/ /\ m.type = "end"
                   /\ loop' = [loop EXCEPT ![u] = Ended(@)]
                   /\ stripDown' = Enqueued(stripDown, u, TandemMsg("tandem_end", NullLang))
                \/ /\ m.type = "left"
                   /\ loop' = [loop EXCEPT ![u].peerGone = TRUE]
                   /\ stripDown' = Enqueued(stripDown, u, TandemMsg("peer_left", NullLang))
    /\ UNCHANGED <<strip, dismissed, stripUp>>

Quiet == \A u \in Sides : stripUp[u] = <<>> /\ stripRoom[u] = <<>> /\ stripDown[u] = <<>>

\* The clock of a phase: the second phase, then the end, on both sides.  A phase
\* lasts minutes: what was sent during it has arrived.
PhaseOver(u) ==
    /\ loop[u].here /\ loop[u].timer /\ Quiet
    /\ LET l == loop[u]
       IN \/ /\ l.peerGone \/ ~l.active
             /\ loop' = [loop EXCEPT ![u].timer = FALSE] /\ UNCHANGED <<stripRoom, stripDown>>
          \/ /\ ~l.peerGone /\ l.active /\ l.phase = 1
             /\ PhaseStarted(u, 2)
             /\ stripRoom' = Enqueued(stripRoom, Other(u), TandemMsg("switch", PhaseLang(u, 2)))
          \/ /\ ~l.peerGone /\ l.active /\ l.phase = 2
             /\ loop' = [loop EXCEPT ![u] = Ended(@)]
             /\ stripRoom' = Enqueued(stripRoom, Other(u), TandemMsg("end", NullLang))
             /\ stripDown' = Enqueued(stripDown, u, TandemMsg("tandem_end", NullLang))
    /\ UNCHANGED <<strip, dismissed, stripUp>>

\* Next, quit or disconnection: the loop returns, its clock with it.
LeaveRoom(u) ==
    /\ loop[u].here
    /\ loop' = [loop EXCEPT ![u] = [Ended(@) EXCEPT !.here = FALSE]]
    /\ stripRoom' = Enqueued(stripRoom, Other(u), TandemMsg("left", NullLang))
    /\ UNCHANGED <<strip, dismissed, stripUp, stripDown>>

TandemNext == \E u \in Sides :
    \/ Propose(u) \/ AcceptPrompt(u) \/ Dismiss(u) \/ OnTandemFrame(u)
    \/ FromBrowser(u) \/ FromRoom(u) \/ PhaseOver(u) \/ LeaveRoom(u)

TandemSpec == TandemInit /\ [][TandemNext]_tandemVars

-----------------------------------------------------------------------------
BothHere == \A u \in Sides : loop[u].here
OwnsClock(u) == loop[u].active

\* Once everything is delivered the two strips impose the same language, and only
\* while one side's clock runs.
TandemInStep ==
    Quiet /\ BothHere =>
      /\ (strip["a"].kind = "active") <=> (strip["b"].kind = "active")
      /\ strip["a"].lang = strip["b"].lang
      /\ strip["a"].kind = "active" => \E u \in Sides : OwnsClock(u) /\ loop[u].timer
=============================================================================
