----------------------------- MODULE Matchmaking -----------------------------
(***************************************************************************)
(* runSession (internal/ws/session.go) for every connected session, over   *)
(* the matching queues, the Hub and the bot pool: search, wait, waiting    *)
(* room with a bot, conversation, Next, report, disconnection.             *)
(*                                                                         *)
(* One action per stretch of a session's goroutine between two calls whose *)
(* order another goroutine can tell (Redis script, Hub call, channel).     *)
(* Where a session is:                                                     *)
(*    off      no connection yet          search   about to TryMatch       *)
(*    drain    top of the search loop     matched  has popped peer[s]      *)
(*    tutor    about to `go SpawnNow`     waiting  select after `queued`   *)
(*    await    select of the tutor mode   secure   top of the inner loop   *)
(*    chat     select of runChat, room joined                              *)
(*    closing  before the deferred Matcher.Cancel and Hub.Unregister       *)
(*    gone     ServeHTTP has returned                                      *)
(* A connection may close at any time, but the goroutine sees it in a      *)
(* select only: there, closing is one more thing that may happen.          *)
(***************************************************************************)
EXTENDS BotManager

CONSTANTS Free,       \* sessions that are not Premium: swipe and tutor quotas apply
          TutorMode   \* sessions opened with the "Prof IA" box ticked

ASSUME SessionAssumption ==
    /\ Free \subseteq Sessions
    /\ TutorMode \subseteq Sessions
    /\ TutorMode # {} => MaxConcurrent > 0

VARIABLES pc,         \* where the session's goroutine is
          peer,       \* popped candidate, then partner of the conversation
          room,       \* Redis room of the conversation (None with a bot)
          kind,       \* "human", "waitroom" (bot, still inscribed), "tutor", "none"
          last,       \* lastPeer (a bot's ID never is in a queue: None)
          left,       \* a Left was delivered to the subscription and is unread
          gone,       \* peerGone of runChat
          met,        \* history: both sides were subscribed to the room at once
          inscribed,  \* a Matcher.Cancel is deferred
          blocked     \* Blocking store: pairs <<reporter, reported>>

convVars == <<peer, room, kind, left, gone, met>>
sessVars == <<pc, convVars, last, inscribed, blocked>>
vars == <<matcherVars, hubVars, botVars, sessVars>>

Partner == Sessions \cup Bots \cup {None}
InHub == {"drain", "tutor", "await", "search", "matched", "waiting", "secure",
          "chat", "closing"}

SessTypeOK ==
    /\ pc \in [Sessions -> InHub \cup {"off", "gone"}]
    /\ peer \in [Sessions -> Partner]
    /\ room \in [Sessions -> Rooms \cup {None}]
    /\ kind \in [Sessions -> {"none", "human", "waitroom", "tutor"}]
    /\ last \in [Sessions -> Sessions \cup {None}]
    /\ left \in [Sessions -> BOOLEAN]
    /\ gone \in [Sessions -> BOOLEAN]
    /\ met \in [Sessions -> BOOLEAN]
    /\ inscribed \in [Sessions -> BOOLEAN]
    /\ blocked \in SUBSET (Sessions \X Sessions)

\* Types of everything the server keeps.
TypeOK == MatcherTypeOK /\ HubTypeOK /\ BotTypeOK /\ SessTypeOK

Init ==
    /\ MatcherInit /\ HubInit /\ BotInit
    /\ pc = [s \in Sessions |-> "off"]
    /\ peer = [s \in Sessions |-> None]
    /\ room = [s \in Sessions |-> None]
    /\ kind = [s \in Sessions |-> "none"]
    /\ last = [s \in Sessions |-> None]
    /\ left = [s \in Sessions |-> FALSE]
    /\ gone = [s \in Sessions |-> FALSE]
    /\ met = [s \in Sessions |-> FALSE]
    /\ inscribed = [s \in Sessions |-> FALSE]
    /\ blocked = {}
------------------------------------------------------------------------------
\* uuid.NewString: a room nobody refers to any more may be named again.
UsedRooms == {room[s] : s \in Sessions}
             \cup {inbox[s].room : s \in {t \in Sessions : HasEvent(t)}}

FreshRooms == Rooms \ UsedRooms

\* Mutant: the same name every time.
SameRoom == {CHOOSE r \in Rooms : TRUE}

NewRoom == IF FreshRooms = {} THEN {} ELSE {CHOOSE r \in FreshRooms : TRUE}

\* Likewise a goroutine that has ended and that nobody refers to any more.
FreshBots == {b \in Bots : /\ bot[b] = "idle"
                           /\ \A s \in Sessions :
                                 /\ b \notin {peer[s], timers[s], spawned[s]}
                                 /\ HasEvent(s) => inbox[s].from # b}
FreshBot == IF FreshBots = {} THEN {} ELSE {CHOOSE b \in FreshBots : TRUE}

\* Redis pub/sub: only whoever is subscribed at that instant gets the Left; the
\* sender's own subscription, if it has one, is closed right after.
Listeners(s, r) == {p \in Sessions \ {s} : pc[p] = "chat" /\ r # None /\ room[p] = r}
PublishLeft(s, r) ==
    left' = [p \in Sessions |-> IF p = s THEN FALSE ELSE left[p] \/ p \in Listeners(s, r)]

Go(s, place) == pc' = [pc EXCEPT ![s] = place]

\* The conversation's variables of s, back to nothing.
Forget(s) ==
    /\ peer' = [peer EXCEPT ![s] = None]
    /\ room' = [room EXCEPT ![s] = None]
    /\ kind' = [kind EXCEPT ![s] = "none"]
    /\ gone' = [gone EXCEPT ![s] = FALSE]
    /\ met' = [met EXCEPT ![s] = FALSE]

\* s takes the event of its channel as its next conversation.
Adopt(s, k) ==
    /\ Receive(s)
    /\ peer' = [peer EXCEPT ![s] = inbox[s].from]
    /\ room' = [room EXCEPT ![s] = inbox[s].room]
    /\ kind' = [kind EXCEPT ![s] = k]
    /\ gone' = [gone EXCEPT ![s] = FALSE]

\* openRoom: from here on a published Left reaches s.
Join(s, r) ==
    LET here == Listeners(s, r) IN
    met' = [p \in Sessions |-> IF p = s THEN here # {} ELSE met[p] \/ p \in here]

\* Mutant: the event is thrown away.
DropEvent(s) == Receive(s) /\ UNCHANGED <<hungUp, left>>

\* dismissWakeup: Left to the bot, or ghost Left into the human's room.
Dismiss(s) ==
    /\ Receive(s)
    /\ IF inbox[s].from \in Bots
       THEN HangUp(inbox[s].from) /\ UNCHANGED left
       ELSE PublishLeft(s, inbox[s].room) /\ UNCHANGED hungUp
------------------------------------------------------------------------------
\* ServeHTTP: a fresh session is registered and its loop starts.
Connect(s) ==
    /\ pc[s] = "off"
    /\ Register(s)
    /\ Go(s, "drain")
    /\ UNCHANGED <<matcherVars, botVars, convVars, last, inscribed, blocked>>

\* Top of the loop: an event left in the channel is dismissed, not followed.
Drain(s) ==
    /\ pc[s] = "drain"
    /\ IF HasEvent(s) THEN Dismiss(s) ELSE UNCHANGED <<hubVars, hungUp, left>>
    /\ Go(s, IF s \in TutorMode THEN "tutor" ELSE "search")
    /\ UNCHANGED <<matcherVars, bot, user, timers, spawned, active,
                   peer, room, kind, gone, met, last, inscribed, blocked>>

\* Tutor mode: the quota check may end the session, otherwise a bot is called.
CallTutor(s) ==
    /\ pc[s] = "tutor"
    /\ \/ s \in Free /\ Go(s, "closing") /\ UNCHANGED botVars
       \/ SpawnNow(s, FreshBot) /\ Go(s, "await")
    /\ UNCHANGED <<matcherVars, hubVars, convVars, last, inscribed, blocked>>

\* select of the tutor mode, the event: whoever it is from is taken for the
\* tutor, and runChat joins without the inner loop's checks.
MeetTutor(s) ==
    /\ pc[s] = "await"
    /\ HasEvent(s)
    /\ Adopt(s, "tutor")
    /\ Join(s, inbox[s].room)
    /\ Go(s, "chat")
    /\ UNCHANGED <<matcherVars, botVars, left, last, inscribed, blocked>>

\* select of the tutor mode: SpawnNow has returned, on to the human queues.
NoTutor(s) ==
    /\ pc[s] = "await"
    /\ spawned[s] = None
    /\ Go(s, "search")
    /\ UNCHANGED <<matcherVars, hubVars, botVars, convVars, last, inscribed, blocked>>

\* Swipe quota pre-check, exhausted: terminal error.
SearchRefused(s) ==
    /\ pc[s] = "search"
    /\ s \in Free
    /\ Go(s, "closing")
    /\ UNCHANGED <<matcherVars, hubVars, botVars, convVars, last, inscribed, blocked>>

\* TryMatch pops a candidate.
SearchMatched(s) ==
    /\ pc[s] = "search"
    /\ \E c \in Sessions :
          /\ PopPeer(s, last[s], c)
          /\ peer' = [peer EXCEPT ![s] = c]
    /\ Go(s, "matched")
    /\ UNCHANGED <<hubVars, botVars, room, kind, left, gone, met, last, inscribed, blocked>>

\* TryMatch inscribes s; the bot's timer is armed.
SearchQueued(s) ==
    /\ pc[s] = "search"
    /\ Inscribe(s, last[s])
    /\ inscribed' = [inscribed EXCEPT ![s] = TRUE]
    /\ SpawnFor(s, FreshBot)
    /\ Go(s, "waiting")
    /\ UNCHANGED <<hubVars, convVars, last, blocked>>

\* Hub.Lookup and Hub.Wakeup of the popped peer; s searches again when one fails.
WakePeer(s) ==
    /\ pc[s] = "matched"
    /\ LET c == peer[s] IN
       IF CanWakeup(c)
       THEN /\ \E r \in NewRoom :
                  Wakeup(c, s, r) /\ room' = [room EXCEPT ![s] = r]
            /\ kind' = [kind EXCEPT ![s] = "human"]
            /\ Go(s, "secure")
            /\ UNCHANGED peer
       ELSE /\ peer' = [peer EXCEPT ![s] = None]
            /\ Go(s, "drain")
            /\ UNCHANGED <<hubVars, room, kind>>
    /\ UNCHANGED <<matcherVars, botVars, left, gone, met, last, inscribed, blocked>>

\* select of the queued branch: the event.
Woken(s) ==
    /\ pc[s] = "waiting"
    /\ HasEvent(s)
    /\ LET fromBot == inbox[s].from \in Bots IN
       /\ Adopt(s, IF fromBot THEN "waitroom" ELSE "human")
       /\ IF fromBot THEN UNCHANGED botVars ELSE CancelTimer(s)
    /\ Go(s, "secure")
    /\ UNCHANGED <<matcherVars, left, met, last, inscribed, blocked>>

\* select of the queued branch: 30 s elapsed, or the connection closed.
GiveUp(s) ==
    /\ pc[s] = "waiting"
    /\ CancelTimer(s)
    /\ Go(s, "closing")
    /\ UNCHANGED <<matcherVars, hubVars, convVars, last, inscribed, blocked>>

\* Mutant: the pair is looked up the wrong way round.
IsBlockedBy(s, p) == <<p, s>> \in blocked

\* Blocking.IsBlocked: s reported p (not: p reported s).
IsBlocked(s, p) == <<s, p>> \in blocked

\* ghostMatch: a Left for whoever is in the room, which s does not enter.
Ghost(s, place) ==
    /\ pc[s] = "secure"
    /\ kind[s] = "human"
    /\ last' = [last EXCEPT ![s] = peer[s]]
    /\ PublishLeft(s, room[s])
    /\ Forget(s)
    /\ Go(s, place)
    /\ UNCHANGED <<matcherVars, hubVars, botVars, inscribed, blocked>>

\* Top of the inner loop: the peer is one s has reported.
SecureBlocked(s) == IsBlocked(s, peer[s]) /\ Ghost(s, "drain")

\* Swipe credit refused by CheckAndIncrement: the session ends.
SecureRefused(s) == ~IsBlocked(s, peer[s]) /\ s \in Free /\ Ghost(s, "closing")

\* The partner is accepted, runChat joins the room.
EnterChat(s) ==
    /\ pc[s] = "secure"
    /\ kind[s] = "human" => ~IsBlocked(s, peer[s])
    /\ last' = [last EXCEPT ![s] = IF peer[s] \in Sessions THEN peer[s] ELSE None]
    /\ Join(s, room[s])
    /\ Go(s, "chat")
    /\ UNCHANGED <<matcherVars, hubVars, botVars, peer, room, kind, left, gone, inscribed, blocked>>

\* A Left waits: in the subscription, or in the buffer the ended bot filled.
LeftPending(s) == IF peer[s] \in Bots THEN bot[peer[s]] = "idle" ELSE left[s]

ReadLeft(s) ==
    /\ pc[s] = "chat"
    /\ ~gone[s]
    /\ LeftPending(s)
    /\ gone' = [gone EXCEPT ![s] = TRUE]
    /\ left' = [left EXCEPT ![s] = FALSE]
    /\ UNCHANGED <<matcherVars, hubVars, botVars, pc, peer, room, kind, met, last, inscribed, blocked>>

\* Mutant: runChat closes the room without a word.
LeaveQuietly(s) == left' = [left EXCEPT ![s] = FALSE] /\ UNCHANGED hungUp

\* runChat's deferred SendLeft and Close, whichever way it returns.
SayGoodbye(s) ==
    IF peer[s] \in Bots
    THEN HangUp(peer[s]) /\ UNCHANGED left
    ELSE PublishLeft(s, room[s]) /\ UNCHANGED hungUp

\* Mutant: the arrival is only watched while the bot talks.
ArrivalWhileTalking(s) == kind[s] = "waitroom" /\ ~gone[s]

\* humanArrival is non-nil, even if the bot has already taken its leave.
ArrivalWatched(s) == kind[s] = "waitroom"

\* Waiting room: a human's event ends the bot's conversation ...
HumanArrives(s) ==
    /\ pc[s] = "chat"
    /\ ArrivalWatched(s)
    /\ HasEvent(s)
    /\ inbox[s].from \in Sessions
    /\ SayGoodbye(s)
    /\ Adopt(s, "human")
    /\ Go(s, "secure")
    /\ UNCHANGED <<matcherVars, bot, user, timers, spawned, active, met, last, inscribed, blocked>>

\* ... and a second bot's one is dismissed.
SecondBot(s) ==
    /\ pc[s] = "chat"
    /\ ArrivalWatched(s)
    /\ HasEvent(s)
    /\ inbox[s].from \in Bots
    /\ Dismiss(s)
    /\ UNCHANGED <<matcherVars, bot, user, timers, spawned, active, pc, 
                   peer, room, kind, gone, met, last, inscribed, blocked>>

\* runChat returns.
LeaveChat(s) ==
    /\ pc[s] = "chat"
    /\ SayGoodbye(s)
    /\ Forget(s)
    /\ UNCHANGED <<hubVars, bot, user, timers, spawned, active, last, inscribed>>

\* chatNext and chatPeerLeft: s searches again; leaving the waiting room, it
\* takes itself out of its queue first.
SearchAgain(s) ==
    /\ LeaveChat(s)
    /\ IF kind[s] = "waitroom" THEN CancelEntry(s) ELSE UNCHANGED matcherVars
    /\ Go(s, "drain")

NextPeer(s) == SearchAgain(s) /\ UNCHANGED blocked

\* Report: saved, the peer is blocked, and the conversation is left.  The
\* tutor path knows no fingerprint to block.
Report(s) ==
    /\ SearchAgain(s)
    /\ blocked' = IF kind[s] = "human" THEN blocked \cup {<<s, peer[s]>>} ELSE blocked

\* conn.Done in runChat or in the tutor mode's select.
HangUpChat(s) == LeaveChat(s) /\ Go(s, "closing") /\ UNCHANGED <<matcherVars, blocked>>

HangUpAwait(s) ==
    /\ pc[s] = "await"
    /\ Go(s, "closing")
    /\ UNCHANGED <<matcherVars, hubVars, botVars, convVars, last, inscribed, blocked>>

\* runSession returns: the deferred Matcher.Cancel if s was ever inscribed,
\* then Unregister; ServeHTTP's context is cancelled.
Close(s) ==
    /\ pc[s] = "closing"
    /\ IF inscribed[s] THEN CancelEntry(s) ELSE UNCHANGED matcherVars
    /\ Unregister(s)
    /\ Go(s, "gone")
    /\ UNCHANGED <<botVars, convVars, last, inscribed, blocked>>
------------------------------------------------------------------------------
\* Mutant: the bot's context does not derive from the session's.
MustStopOnLeft(b) == hungUp[b]

\* A Left waits on the bot's end, or its session's context is cancelled.
MustStop(b) == hungUp[b] \/ pc[user[b]] = "gone"

StopBot(b) ==
    /\ bot[b] = "running"
    /\ MustStop(b)
    /\ EndBot(b)
    /\ UNCHANGED sessVars

\* Steps of the server's own goroutines and timers.
Serve(s) ==
    \/ Drain(s) \/ CallTutor(s) \/ MeetTutor(s) \/ NoTutor(s)
    \/ SearchRefused(s) \/ SearchMatched(s) \/ SearchQueued(s) \/ WakePeer(s)
    \/ Woken(s) \/ GiveUp(s)
    \/ SecureBlocked(s) \/ SecureRefused(s) \/ EnterChat(s)
    \/ ReadLeft(s) \/ HumanArrives(s) \/ SecondBot(s)
    \/ Close(s)

\* What the person at the other end may do, or not.
Choose(s) ==
    \/ Connect(s) \/ NextPeer(s) \/ Report(s) \/ HangUpChat(s) \/ HangUpAwait(s)

ServeBot(b) == (Fire(b) \/ BotStep(b)) /\ UNCHANGED sessVars

\* The bot takes its leave: message cap, quota, AI failure.
Goodbye(b) == EndBot(b) /\ UNCHANGED sessVars

Next ==
    \/ \E s \in Sessions : Serve(s) \/ Choose(s)
    \/ \E b \in Bots : ServeBot(b) \/ StopBot(b) \/ Goodbye(b)

Spec == Init /\ [][Next]_vars

\* The Go scheduler runs every goroutine that can go on, and timers fire.
Fairness ==
    /\ \A s \in Sessions : WF_vars(Serve(s))
    /\ \A b \in Bots : WF_vars(ServeBot(b)) /\ WF_vars(StopBot(b))

FairSpec == Spec /\ Fairness
------------------------------------------------------------------------------
(***************************************************************************)
(* Safety.                                                                 *)
(***************************************************************************)
\* No ghost entry: whoever is inscribed in a queue is still registered, so it
\* can be woken, and has a deferred Cancel that will take it out ("sinon le
\* slot devient un fantome", matcher.go).
NoGhostEntry ==
    /\ \A s \in queue : s \in hub /\ inscribed[s] /\ pc[s] # "gone"
    /\ \A s \in Sessions : pc[s] = "gone" => s \notin hub

\* Two compatible sessions never both sit in the queues, except when the
\* later one had just left the other and asked TryMatch to avoid it.
NoMissedMatch ==
    \A s, c \in queue : Mirror(s, c) => avoided[s] = c \/ avoided[c] = s

\* The concurrency cap holds and the counter is exact: no way out of a bot
\* goroutine forgets its decrement or does it twice.
BotCapacity ==
    /\ active = Cardinality({b \in Bots : bot[b] \in Counted})
    /\ active <= MaxConcurrent

\* A conversation is between two: sessions that hold the same room name each
\* other as partner, whatever was popped, woken, dismissed or left meanwhile.
RoomsAgree ==
    \A s, p \in Sessions :
        s # p /\ room[s] # None /\ room[s] = room[p] => peer[s] = p /\ peer[p] = s

\* Once both sides were in the room, one that leaves is never left unseen:
\* the other has read its Left or has it waiting.
LeftReachesWitness ==
    \A s \in Sessions :
        met[s] /\ pc[s] = "chat" =>
            \/ gone[s] \/ left[s]
            \/ /\ peer[s] \in Sessions
               /\ pc[peer[s]] = "chat" /\ room[peer[s]] = room[s]

\* No abandoned bot: one in conversation has its session with it or its event
\* in the session's channel, or something is there that stops it.
NoAbandonedBot ==
    \A b \in Bots : bot[b] = "running" =>
        LET s == user[b] IN
        \/ hungUp[b] \/ pc[s] = "gone"
        \/ peer[s] = b
        \/ HasEvent(s) /\ inbox[s].from = b

\* Whoever reported a partner is not put in a conversation with it again, by
\* whichever side's search the two meet.  Only where nobody is in TutorMode:
\* MeetTutor joins a human's room unchecked.
BlockedNeverMeet ==
    \A s \in Sessions :
        pc[s] = "chat" /\ peer[s] \in Sessions => <<s, peer[s]>> \notin blocked

\* Who talks with whom: two sessions that have joined the same room.
Together(s, p) ==
    s # p /\ pc[s] = "chat" /\ pc[p] = "chat" /\ room[s] # None /\ room[s] = room[p]
Talking == {pair \in {{s, p} : s \in Sessions, p \in Sessions} :
              \E s, p \in pair : Together(s, p)}

Abstract == INSTANCE Pairing WITH talk <- Talking, reported <- blocked

\* Refinement: popping, waking, ghost matches and rooms implement Pairing.  Only
\* where nobody is in TutorMode, as for BlockedNeverMeet.
PairsOnly == Abstract!PairingSpec

(***************************************************************************)
(* Liveness, under Fairness.                                               *)
(***************************************************************************)
\* Once everybody is gone every bot slot comes back: a slot can outlive its
\* conversation but not the people.
SlotsComeBack == (\A s \in Sessions : pc[s] \in {"off", "gone"}) ~>
                     (active = 0 \/ \E s \in Sessions : pc[s] \in InHub)

\* A partner that leaves a room both were in is noticed: its peer reads the
\* Left, or leaves by itself.
DepartureNoticed ==
    \A s, p \in Sessions :
        (pc[s] = "chat" /\ met[s] /\ peer[s] = p /\ room[p] # room[s]) ~>
            (gone[s] \/ pc[s] # "chat")

\* In the waiting room, a human's event always ends the bot conversation.
HumanTakesOver ==
    \A s \in Sessions :
        (pc[s] = "chat" /\ kind[s] = "waitroom" /\ HasEvent(s) /\ inbox[s].from \in Sessions)
            ~> pc[s] # "chat" \/ kind[s] # "waitroom"

(***************************************************************************)
(* What comments of the code promise and the code does not keep.           *)
(***************************************************************************)
\* A queue entry is never left behind for a peer to pop during a conversation
\* with a human (session.go, before the Cancel that follows a waiting room).
NoPhantomEntry ==
    \A s \in queue : ~(pc[s] = "chat" /\ kind[s] = "human")

\* Someone p may still come to the room of s.
MayCome(p, s) ==
    \/ room[p] = room[s]
    \/ HasEvent(p) /\ inbox[p].room = room[s] /\ pc[p] \notin {"closing", "gone"}

\* "Sans ca, l'un ou l'autre resterait plante devant une conversation ou
\* personne n'arrivera" (session.go, dismissWakeup): nobody sits in a room that
\* its partner has given up, without a Left to read.
NoDeadRoom ==
    \A s \in Sessions :
        pc[s] = "chat" /\ kind[s] = "human" /\ ~gone[s] /\ ~left[s] => MayCome(peer[s], s)
=============================================================================
