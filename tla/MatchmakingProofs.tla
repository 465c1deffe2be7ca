-------------------------- MODULE MatchmakingProofs --------------------------
(***************************************************************************)
(* Theorems about Matchmaking, for any number of sessions, languages, bots *)
(* and rooms.  TypeInv is the inductive invariant the others build on: the *)
(* types, the exact count of the bot pool, and Shape, what a session's     *)
(* place in its loop says of the hub, the queues and its partner.          *)
(***************************************************************************)
EXTENDS Matchmaking, TLAPS, FiniteSetTheorems

CountedBots == {b \in Bots : bot[b] \in Counted}

Shape(s) ==
    /\ s \in hub <=> pc[s] \in InHub
    /\ s \in queue => inscribed[s] /\ pc[s] \in InHub
    /\ kind[s] = "human" => pc[s] \in {"secure", "chat"} /\ peer[s] \in Sessions
    /\ pc[s] = "secure" /\ kind[s] # "human" => kind[s] = "waitroom" /\ peer[s] \in Bots

ShapeOK == \A s \in Sessions : Shape(s)

TypeInv == TypeOK /\ BotCapacity /\ ShapeOK
------------------------------------------------------------------------------
(***************************************************************************)
(* The operators of the specification.                                     *)
(***************************************************************************)
\* FreshBot offers idle bots only.
LEMMA FreshBotType == FreshBot \subseteq {b \in Bots : bot[b] = "idle"}
<1>1. CASE FreshBots = {}
  BY <1>1 DEF FreshBot
<1>2. CASE FreshBots # {}
  <2>1. (CHOOSE b \in FreshBots : TRUE) \in FreshBots
    BY <1>2
  <2>2. QED
    BY <1>2, <2>1 DEF FreshBot, FreshBots
<1>3. QED
  BY <1>1, <1>2

\* NewRoom offers rooms that no session and no event names.
LEMMA NewRoomType == NewRoom \subseteq Rooms \ UsedRooms
<1>1. CASE FreshRooms = {}
  BY <1>1 DEF NewRoom
<1>2. CASE FreshRooms # {}
  <2>1. (CHOOSE r \in FreshRooms : TRUE) \in FreshRooms
    BY <1>2
  <2>2. QED
    BY <1>2, <2>1 DEF NewRoom, FreshRooms
<1>3. QED
  BY <1>1, <1>2

\* A new room is nobody's, and in no event.
LEMMA NewRoomUnused ==
  ASSUME NEW r \in NewRoom
  PROVE  /\ r \in Rooms /\ r # None
         /\ \A p \in Sessions : room[p] # r /\ (HasEvent(p) => inbox[p].room # r)
BY NewRoomType, HubAssumption DEF UsedRooms

\* A Left to a bot in conversation stops it, and spares nobody it had stopped.
LEMMA HangUpStops ==
  ASSUME TypeOK, NEW b0 \in Bots, HangUp(b0)
  PROVE  \A b \in Bots : bot[b] = "running" /\ (b = b0 \/ hungUp[b]) => hungUp'[b]
BY DEF HangUp, TypeOK, BotTypeOK

\* A published Left is a Boolean of every session.
LEMMA PublishLeftType ==
  ASSUME TypeOK, NEW s \in Sessions, NEW r, PublishLeft(s, r)
  PROVE  left' \in [Sessions -> BOOLEAN]
BY DEF PublishLeft, TypeOK, SessTypeOK

\* Likewise a Left sent to a bot.
LEMMA HangUpType ==
  ASSUME TypeOK, NEW b, HangUp(b)
  PROVE  hungUp' \in [Bots -> BOOLEAN]
BY DEF HangUp, TypeOK, BotTypeOK

\* Likewise a subscription.
LEMMA JoinType ==
  ASSUME TypeOK, NEW s \in Sessions, NEW r, Join(s, r)
  PROVE  met' \in [Sessions -> BOOLEAN]
BY DEF Join, TypeOK, SessTypeOK

\* Arming a timer keeps the pool's types.
LEMMA SpawnForType ==
  ASSUME TypeOK, NEW s \in Sessions, SpawnFor(s, FreshBot)
  PROVE  BotTypeOK'
<1>1. CASE timers[s] # None \/ Full
  BY <1>1 DEF SpawnFor, botVars, TypeOK, BotTypeOK
<1>2. CASE ~(timers[s] # None \/ Full)
  <2>1. PICK b \in FreshBot :
           /\ Start(b, s, "ticking")
           /\ timers' = [timers EXCEPT ![s] = b]
           /\ UNCHANGED <<spawned, active>>
    BY <1>2 DEF SpawnFor
  <2>2. b \in Bots
    BY FreshBotType
  <2>3. QED
    BY <2>1, <2>2 DEF Start, TypeOK, BotTypeOK
<1>3. QED
  BY <1>1, <1>2

\* Likewise a tutor call.
LEMMA SpawnNowType ==
  ASSUME TypeOK, NEW s \in Sessions, SpawnNow(s, FreshBot)
  PROVE  BotTypeOK'
BY FreshBotType DEF SpawnNow, Start, TypeOK, BotTypeOK
------------------------------------------------------------------------------
(***************************************************************************)
(* The bot pool's counter.                                                 *)
(***************************************************************************)
\* The bots that are counted are finitely many.
LEMMA CountedFinite ==
  /\ IsFiniteSet(CountedBots)
  /\ Cardinality(CountedBots) \in Nat
<1>1. CountedBots \in SUBSET Bots
  BY DEF CountedBots
<1>2. IsFiniteSet(CountedBots)
  BY <1>1, FS_Subset, BotAssumption
<1>3. QED
  BY <1>2, FS_CardinalityType

\* No step but a critical section's counts a bot in or out.
LEMMA CountSame ==
  ASSUME BotCapacity, active' = active,
         \A b \in Bots : bot'[b] \in Counted <=> bot[b] \in Counted
  PROVE  BotCapacity'
<1>1. CountedBots' = CountedBots
  BY DEF CountedBots
<1>2. QED
  BY <1>1 DEF BotCapacity, CountedBots

\* The increment counts one bot more, the one that starts.
LEMMA CountUp ==
  ASSUME TypeOK, BotCapacity, ~Full, NEW b \in Bots, bot[b] \notin Counted,
         NEW place \in Counted, Count(b, place)
  PROVE  BotCapacity' /\ active' \in Nat
<1>1. CountedBots' = CountedBots \cup {b}
  BY DEF CountedBots, Count, TypeOK, BotTypeOK
<1>2. Cardinality(CountedBots') = Cardinality(CountedBots) + 1
  BY <1>1, CountedFinite, FS_AddElement DEF CountedBots
<1>3. QED
  BY <1>2, CountedFinite, BotAssumption
  DEF BotCapacity, CountedBots, Count, Full, TypeOK, BotTypeOK

\* The deferred decrement counts one bot less, the one that ends.
LEMMA CountDown ==
  ASSUME TypeOK, BotCapacity, NEW b \in Bots, bot[b] \in Counted, Release(b)
  PROVE  BotCapacity' /\ active' \in Nat
<1>1. CountedBots' = CountedBots \ {b}
  BY DEF CountedBots, Counted, Release, Drop, TypeOK, BotTypeOK
<1>2. Cardinality(CountedBots') = Cardinality(CountedBots) - 1
  BY <1>1, CountedFinite, FS_RemoveElement DEF CountedBots
<1>3. CountedBots # {} /\ Cardinality(CountedBots) # 0
  BY CountedFinite, FS_EmptySet DEF CountedBots
<1>4. QED
  BY <1>2, <1>3, CountedFinite, BotAssumption
  DEF BotCapacity, CountedBots, Release, TypeOK, BotTypeOK

------------------------------------------------------------------------------
\* Every step of a session keeps the types.
LEMMA SessionTypes ==
  ASSUME TypeInv, NEW s \in Sessions, Serve(s) \/ Choose(s)
  PROVE  TypeOK'
<1> USE DEF TypeInv
<1>1. CASE Drain(s)
  BY <1>1, PublishLeftType, HangUpType
  DEF Drain, HasEvent, Dismiss, hubVars, Go, matcherVars, Receive, TypeOK,
      MatcherTypeOK, HubTypeOK, BotTypeOK, SessTypeOK, Event, Partner, InHub
<1>2. CASE CallTutor(s)
  BY <1>2, SpawnNowType
  DEF CallTutor, Go, botVars, matcherVars, hubVars, convVars, TypeOK,
      MatcherTypeOK, HubTypeOK, BotTypeOK, SessTypeOK, Partner, InHub
<1>3. CASE MeetTutor(s)
  BY <1>3, JoinType
  DEF MeetTutor, HasEvent, Adopt, Go, matcherVars, botVars, Receive, TypeOK,
      MatcherTypeOK, HubTypeOK, BotTypeOK, SessTypeOK, Event, Partner, InHub
<1>4. CASE NoTutor(s)
  BY <1>4
  DEF NoTutor, Go, matcherVars, hubVars, botVars, convVars, TypeOK,
      MatcherTypeOK, HubTypeOK, BotTypeOK, SessTypeOK, Partner, InHub
<1>5. CASE SearchRefused(s)
  BY <1>5
  DEF SearchRefused, Go, matcherVars, hubVars, botVars, convVars, TypeOK,
      MatcherTypeOK, HubTypeOK, BotTypeOK, SessTypeOK, Partner, InHub
<1>6. CASE SearchMatched(s)
  BY <1>6
  DEF SearchMatched, PopPeer, Go, hubVars, botVars, Withdraw, TypeOK,
      MatcherTypeOK, HubTypeOK, BotTypeOK, SessTypeOK, Partner, InHub
<1>7. CASE SearchQueued(s)
  BY <1>7, SpawnForType
  DEF SearchQueued, Inscribe, Go, hubVars, convVars, TypeOK, MatcherTypeOK,
      HubTypeOK, BotTypeOK, SessTypeOK, Partner, InHub
<1>8. CASE WakePeer(s)
  BY <1>8, NewRoomType
  DEF WakePeer, CanWakeup, Wakeup, Go, hubVars, matcherVars, botVars, TypeOK,
      MatcherTypeOK, HubTypeOK, BotTypeOK, SessTypeOK, Event, Partner, InHub
<1>9. CASE Woken(s)
  BY <1>9
  DEF Woken, HasEvent, Adopt, botVars, CancelTimer, Go, matcherVars, Receive,
      TypeOK, MatcherTypeOK, HubTypeOK, BotTypeOK, SessTypeOK, Event, Partner,
      InHub
<1>10. CASE GiveUp(s)
  BY <1>10
  DEF GiveUp, CancelTimer, Go, matcherVars, hubVars, convVars, TypeOK,
      MatcherTypeOK, HubTypeOK, BotTypeOK, SessTypeOK, Partner, InHub
<1>11. CASE SecureBlocked(s)
  BY <1>11, PublishLeftType
  DEF SecureBlocked, Ghost, Forget, Go, matcherVars, hubVars, botVars, TypeOK,
      MatcherTypeOK, HubTypeOK, BotTypeOK, SessTypeOK, Partner, InHub,
      ShapeOK, Shape
<1>12. CASE SecureRefused(s)
  BY <1>12, PublishLeftType
  DEF SecureRefused, Ghost, Forget, Go, matcherVars, hubVars, botVars, TypeOK,
      MatcherTypeOK, HubTypeOK, BotTypeOK, SessTypeOK, Partner, InHub,
      ShapeOK, Shape
<1>13. CASE EnterChat(s)
  BY <1>13, JoinType
  DEF EnterChat, Go, matcherVars, hubVars, botVars, TypeOK, MatcherTypeOK,
      HubTypeOK, BotTypeOK, SessTypeOK, Partner, InHub
<1>14. CASE ReadLeft(s)
  BY <1>14
  DEF ReadLeft, matcherVars, hubVars, botVars, TypeOK, MatcherTypeOK,
      HubTypeOK, BotTypeOK, SessTypeOK, Partner, InHub
<1>15. CASE HumanArrives(s)
  BY <1>15, PublishLeftType, HangUpType
  DEF HumanArrives, ArrivalWatched, HasEvent, SayGoodbye, Adopt, Go,
      matcherVars, Receive, TypeOK, MatcherTypeOK, HubTypeOK, BotTypeOK,
      SessTypeOK, Event, Partner, InHub
<1>16. CASE SecondBot(s)
  BY <1>16, PublishLeftType, HangUpType
  DEF SecondBot, ArrivalWatched, HasEvent, Dismiss, matcherVars, Receive,
      TypeOK, MatcherTypeOK, HubTypeOK, BotTypeOK, SessTypeOK, Event, Partner,
      InHub
<1>17. CASE Close(s)
  BY <1>17
  DEF Close, CancelEntry, matcherVars, Unregister, Go, botVars, convVars,
      Withdraw, TypeOK, MatcherTypeOK, HubTypeOK, BotTypeOK, SessTypeOK,
      Partner, InHub
<1>18. CASE Connect(s)
  BY <1>18
  DEF Connect, Register, Go, matcherVars, botVars, convVars, TypeOK,
      MatcherTypeOK, HubTypeOK, BotTypeOK, SessTypeOK, Partner, InHub
<1>19. CASE NextPeer(s)
  BY <1>19, PublishLeftType, HangUpType
  DEF NextPeer, SearchAgain, LeaveChat, CancelEntry, matcherVars, Go,
      SayGoodbye, Forget, hubVars, Withdraw, TypeOK, MatcherTypeOK, HubTypeOK,
      BotTypeOK, SessTypeOK, Partner, InHub
<1>20. CASE Report(s)
  BY <1>20, PublishLeftType, HangUpType
  DEF Report, SearchAgain, LeaveChat, CancelEntry, matcherVars, Go,
      SayGoodbye, Forget, hubVars, Withdraw, TypeOK, MatcherTypeOK, HubTypeOK,
      BotTypeOK, SessTypeOK, Partner, InHub, ShapeOK, Shape
<1>21. CASE HangUpChat(s)
  BY <1>21, PublishLeftType, HangUpType
  DEF HangUpChat, LeaveChat, Go, matcherVars, SayGoodbye, Forget, hubVars,
      TypeOK, MatcherTypeOK, HubTypeOK, BotTypeOK, SessTypeOK, Partner, InHub
<1>22. CASE HangUpAwait(s)
  BY <1>22
  DEF HangUpAwait, Go, matcherVars, hubVars, botVars, convVars, TypeOK,
      MatcherTypeOK, HubTypeOK, BotTypeOK, SessTypeOK, Partner, InHub
<1>23. QED
  BY <1>1, <1>2, <1>3, <1>4, <1>5, <1>6, <1>7, <1>8, <1>9, <1>10, <1>11,
     <1>12, <1>13, <1>14, <1>15, <1>16, <1>17, <1>18, <1>19, <1>20, <1>21,
     <1>22 DEF Serve, Choose

\* Every step of a session keeps the shape of all of them.
LEMMA SessionShape ==
  ASSUME TypeInv, NEW s \in Sessions, Serve(s) \/ Choose(s)
  PROVE  ShapeOK'
<1> USE DEF TypeInv
<1>1. CASE Drain(s)
  BY <1>1
  DEF Drain, HasEvent, Dismiss, hubVars, Go, matcherVars, Receive, TypeOK,
      MatcherTypeOK, HubTypeOK, BotTypeOK, SessTypeOK, InHub, Counted, Event,
      Partner, ShapeOK, Shape
<1>2. CASE CallTutor(s)
  BY <1>2
  DEF CallTutor, Go, botVars, matcherVars, hubVars, convVars, TypeOK,
      MatcherTypeOK, HubTypeOK, BotTypeOK, SessTypeOK, InHub, Counted, Event,
      Partner, ShapeOK, Shape
<1>3. CASE MeetTutor(s)
  BY <1>3
  DEF MeetTutor, HasEvent, Adopt, Go, matcherVars, botVars, Receive, TypeOK,
      MatcherTypeOK, HubTypeOK, BotTypeOK, SessTypeOK, InHub, Counted, Event,
      Partner, ShapeOK, Shape
<1>4. CASE NoTutor(s)
  BY <1>4
  DEF NoTutor, Go, matcherVars, hubVars, botVars, convVars, TypeOK,
      MatcherTypeOK, HubTypeOK, BotTypeOK, SessTypeOK, InHub, Counted, Event,
      Partner, ShapeOK, Shape
<1>5. CASE SearchRefused(s)
  BY <1>5
  DEF SearchRefused, Go, matcherVars, hubVars, botVars, convVars, TypeOK,
      MatcherTypeOK, HubTypeOK, BotTypeOK, SessTypeOK, InHub, Counted, Event,
      Partner, ShapeOK, Shape
<1>6. CASE SearchMatched(s)
  BY <1>6
  DEF SearchMatched, PopPeer, Go, hubVars, botVars, Withdraw, TypeOK,
      MatcherTypeOK, HubTypeOK, BotTypeOK, SessTypeOK, InHub, Counted, Event,
      Partner, ShapeOK, Shape
<1>7. CASE SearchQueued(s)
  BY <1>7
  DEF SearchQueued, Inscribe, Go, hubVars, convVars, TypeOK, MatcherTypeOK,
      HubTypeOK, BotTypeOK, SessTypeOK, InHub, Counted, Event, Partner,
      ShapeOK, Shape
<1>8. CASE WakePeer(s)
  BY <1>8
  DEF WakePeer, CanWakeup, Wakeup, Go, hubVars, matcherVars, botVars, TypeOK,
      MatcherTypeOK, HubTypeOK, BotTypeOK, SessTypeOK, InHub, Counted, Event,
      Partner, ShapeOK, Shape
<1>9. CASE Woken(s)
  BY <1>9
  DEF Woken, HasEvent, Adopt, botVars, Go, matcherVars, Receive, TypeOK,
      MatcherTypeOK, HubTypeOK, BotTypeOK, SessTypeOK, InHub, Counted, Event,
      Partner, ShapeOK, Shape
<1>10. CASE GiveUp(s)
  BY <1>10
  DEF GiveUp, Go, matcherVars, hubVars, convVars, TypeOK, MatcherTypeOK,
      HubTypeOK, BotTypeOK, SessTypeOK, InHub, Counted, Event, Partner,
      ShapeOK, Shape
<1>11. CASE SecureBlocked(s)
  BY <1>11
  DEF SecureBlocked, Ghost, Forget, Go, matcherVars, hubVars, botVars, TypeOK,
      MatcherTypeOK, HubTypeOK, BotTypeOK, SessTypeOK, InHub, Counted, Event,
      Partner, ShapeOK, Shape
<1>12. CASE SecureRefused(s)
  BY <1>12
  DEF SecureRefused, Ghost, Forget, Go, matcherVars, hubVars, botVars, TypeOK,
      MatcherTypeOK, HubTypeOK, BotTypeOK, SessTypeOK, InHub, Counted, Event,
      Partner, ShapeOK, Shape
<1>13. CASE EnterChat(s)
  BY <1>13
  DEF EnterChat, Go, matcherVars, hubVars, botVars, TypeOK, MatcherTypeOK,
      HubTypeOK, BotTypeOK, SessTypeOK, InHub, Counted, Event, Partner,
      ShapeOK, Shape
<1>14. CASE ReadLeft(s)
  BY <1>14
  DEF ReadLeft, matcherVars, hubVars, botVars, TypeOK, MatcherTypeOK,
      HubTypeOK, BotTypeOK, SessTypeOK, InHub, Counted, Event, Partner,
      ShapeOK, Shape
<1>15. CASE HumanArrives(s)
  BY <1>15
  DEF HumanArrives, ArrivalWatched, HasEvent, SayGoodbye, Adopt, Go,
      matcherVars, Receive, TypeOK, MatcherTypeOK, HubTypeOK, BotTypeOK,
      SessTypeOK, InHub, Counted, Event, Partner, ShapeOK, Shape
<1>16. CASE SecondBot(s)
  BY <1>16
  DEF SecondBot, ArrivalWatched, HasEvent, Dismiss, matcherVars, Receive,
      TypeOK, MatcherTypeOK, HubTypeOK, BotTypeOK, SessTypeOK, InHub, Counted,
      Event, Partner, ShapeOK, Shape
<1>17. CASE Close(s)
  BY <1>17
  DEF Close, CancelEntry, matcherVars, Unregister, Go, botVars, convVars,
      Withdraw, TypeOK, MatcherTypeOK, HubTypeOK, BotTypeOK, SessTypeOK,
      InHub, Counted, Event, Partner, ShapeOK, Shape
<1>18. CASE Connect(s)
  BY <1>18
  DEF Connect, Register, Go, matcherVars, botVars, convVars, TypeOK,
      MatcherTypeOK, HubTypeOK, BotTypeOK, SessTypeOK, InHub, Counted, Event,
      Partner, ShapeOK, Shape
<1>19. CASE NextPeer(s)
  BY <1>19
  DEF NextPeer, SearchAgain, LeaveChat, CancelEntry, matcherVars, Go,
      SayGoodbye, Forget, hubVars, Withdraw, TypeOK, MatcherTypeOK, HubTypeOK,
      BotTypeOK, SessTypeOK, InHub, Counted, Event, Partner, ShapeOK, Shape
<1>20. CASE Report(s)
  BY <1>20
  DEF Report, SearchAgain, LeaveChat, CancelEntry, matcherVars, Go,
      SayGoodbye, Forget, hubVars, Withdraw, TypeOK, MatcherTypeOK, HubTypeOK,
      BotTypeOK, SessTypeOK, InHub, Counted, Event, Partner, ShapeOK, Shape
<1>21. CASE HangUpChat(s)
  BY <1>21
  DEF HangUpChat, LeaveChat, Go, matcherVars, SayGoodbye, Forget, hubVars,
      TypeOK, MatcherTypeOK, HubTypeOK, BotTypeOK, SessTypeOK, InHub, Counted,
      Event, Partner, ShapeOK, Shape
<1>22. CASE HangUpAwait(s)
  BY <1>22
  DEF HangUpAwait, Go, matcherVars, hubVars, botVars, convVars, TypeOK,
      MatcherTypeOK, HubTypeOK, BotTypeOK, SessTypeOK, InHub, Counted, Event,
      Partner, ShapeOK, Shape
<1>23. QED
  BY <1>1, <1>2, <1>3, <1>4, <1>5, <1>6, <1>7, <1>8, <1>9, <1>10, <1>11,
     <1>12, <1>13, <1>14, <1>15, <1>16, <1>17, <1>18, <1>19, <1>20, <1>21,
     <1>22 DEF Serve, Choose

\* No step of a session counts a bot.
LEMMA SessionCapacity ==
  ASSUME TypeInv, NEW s \in Sessions, Serve(s) \/ Choose(s)
  PROVE  BotCapacity'
<1>1. CASE Drain(s)
  BY <1>1, CountSame
  DEF Drain, Dismiss, HangUp, TypeInv
<1>2. CASE CallTutor(s)
  BY <1>2, CountSame, FreshBotType
  DEF CallTutor, botVars, SpawnNow, Start, TypeInv, Counted, TypeOK, BotTypeOK
<1>3. CASE MeetTutor(s)
  BY <1>3, CountSame
  DEF MeetTutor, botVars, TypeInv
<1>4. CASE NoTutor(s)
  BY <1>4, CountSame
  DEF NoTutor, botVars, TypeInv
<1>5. CASE SearchRefused(s)
  BY <1>5, CountSame
  DEF SearchRefused, botVars, TypeInv
<1>6. CASE SearchMatched(s)
  BY <1>6, CountSame
  DEF SearchMatched, botVars, TypeInv
<1>7. CASE SearchQueued(s)
  BY <1>7, CountSame, FreshBotType
  DEF SearchQueued, SpawnFor, botVars, Start, TypeInv, Counted, TypeOK,
      BotTypeOK
<1>8. CASE WakePeer(s)
  BY <1>8, CountSame
  DEF WakePeer, botVars, TypeInv
<1>9. CASE Woken(s)
  BY <1>9, CountSame
  DEF Woken, botVars, CancelTimer, TypeInv, Counted, TypeOK, BotTypeOK
<1>10. CASE GiveUp(s)
  BY <1>10, CountSame
  DEF GiveUp, CancelTimer, TypeInv, Counted, TypeOK, BotTypeOK
<1>11. CASE SecureBlocked(s)
  BY <1>11, CountSame
  DEF SecureBlocked, Ghost, botVars, TypeInv
<1>12. CASE SecureRefused(s)
  BY <1>12, CountSame
  DEF SecureRefused, Ghost, botVars, TypeInv
<1>13. CASE EnterChat(s)
  BY <1>13, CountSame
  DEF EnterChat, botVars, TypeInv
<1>14. CASE ReadLeft(s)
  BY <1>14, CountSame
  DEF ReadLeft, botVars, TypeInv
<1>15. CASE HumanArrives(s)
  BY <1>15, CountSame
  DEF HumanArrives, ArrivalWatched, SayGoodbye, HangUp, TypeInv
<1>16. CASE SecondBot(s)
  BY <1>16, CountSame
  DEF SecondBot, ArrivalWatched, Dismiss, HangUp, TypeInv
<1>17. CASE Close(s)
  BY <1>17, CountSame
  DEF Close, botVars, TypeInv
<1>18. CASE Connect(s)
  BY <1>18, CountSame
  DEF Connect, botVars, TypeInv
<1>19. CASE NextPeer(s)
  BY <1>19, CountSame
  DEF NextPeer, SearchAgain, LeaveChat, SayGoodbye, HangUp, TypeInv
<1>20. CASE Report(s)
  BY <1>20, CountSame
  DEF Report, SearchAgain, LeaveChat, SayGoodbye, HangUp, TypeInv
<1>21. CASE HangUpChat(s)
  BY <1>21, CountSame
  DEF HangUpChat, LeaveChat, SayGoodbye, HangUp, TypeInv
<1>22. CASE HangUpAwait(s)
  BY <1>22, CountSame
  DEF HangUpAwait, botVars, TypeInv
<1>23. QED
  BY <1>1, <1>2, <1>3, <1>4, <1>5, <1>6, <1>7, <1>8, <1>9, <1>10, <1>11,
     <1>12, <1>13, <1>14, <1>15, <1>16, <1>17, <1>18, <1>19, <1>20, <1>21,
     <1>22 DEF Serve, Choose

\* Every step of the pool keeps the types, the count and the shapes.
LEMMA BotSteps ==
  ASSUME TypeInv, NEW b \in Bots, ServeBot(b) \/ StopBot(b) \/ Goodbye(b)
  PROVE  TypeInv'
<1> USE DEF TypeInv
<1>0. ASSUME BotCapacity', active' \in Nat, UNCHANGED sessVars, UNCHANGED matcherVars,
             HubTypeOK', hub' = hub, bot' \in [Bots -> {"idle", "ticking", "fired", "now"} \cup Counted],
             user' \in [Bots -> Sessions \cup {None}], hungUp' \in [Bots -> BOOLEAN],
             timers' \in [Sessions -> Bots \cup {None}], spawned' \in [Sessions -> Bots \cup {None}]
      PROVE  TypeInv'
  <2>1. TypeOK'
    BY <1>0 DEF sessVars, convVars, matcherVars, TypeOK, MatcherTypeOK, BotTypeOK, SessTypeOK
  <2>2. ShapeOK'
    BY <1>0 DEF sessVars, convVars, matcherVars, ShapeOK, Shape
  <2>3. QED
    BY <1>0, <2>1, <2>2
<1>1. ASSUME bot[b] \in Counted, Release(b), UNCHANGED <<sessVars, matcherVars>>, HubTypeOK', hub' = hub
      PROVE  TypeInv'
  <2>1. BotCapacity' /\ active' \in Nat
    BY <1>1, CountDown
  <2>2. QED
    BY <1>0, <1>1, <2>1 DEF Release, Drop, Returned, TypeOK, BotTypeOK
<1>2. CASE Fire(b) /\ UNCHANGED sessVars
  <2>1. BotCapacity'
    BY <1>2, CountSame DEF Fire, Counted, TypeOK, BotTypeOK
  <2>2. QED
    BY <1>0, <1>2, <2>1 DEF Fire, matcherVars, hubVars, TypeOK, HubTypeOK, BotTypeOK
<1>3. CASE AttemptSpawn(b) /\ UNCHANGED sessVars
  <2>1. CASE Full
    <3>1. BotCapacity'
      BY <1>3, <2>1, CountSame DEF AttemptSpawn, Drop, Counted, TypeOK, BotTypeOK
    <3>2. QED
      BY <1>0, <1>3, <2>1, <3>1 DEF AttemptSpawn, Drop, hubVars, TypeOK, HubTypeOK, BotTypeOK
  <2>2. CASE ~Full
    <3>1. BotCapacity' /\ active' \in Nat
      BY <1>3, <2>2, CountUp DEF AttemptSpawn, Counted
    <3>2. QED
      BY <1>0, <1>3, <2>2, <3>1 DEF AttemptSpawn, Count, Counted, hubVars, TypeOK, HubTypeOK, BotTypeOK
  <2>3. QED
    BY <2>1, <2>2
<1>4. CASE BeginNow(b) /\ UNCHANGED sessVars
  <2>1. CASE Full
    <3>1. BotCapacity'
      BY <1>4, <2>1, CountSame DEF BeginNow, Drop, Counted, TypeOK, BotTypeOK
    <3>2. QED
      BY <1>0, <1>4, <2>1, <3>1 DEF BeginNow, Drop, Returned, hubVars, TypeOK, HubTypeOK, BotTypeOK
  <2>2. CASE ~Full
    <3>1. BotCapacity' /\ active' \in Nat
      BY <1>4, <2>2, CountUp DEF BeginNow, Counted
    <3>2. QED
      BY <1>0, <1>4, <2>2, <3>1 DEF BeginNow, Count, Counted, hubVars, TypeOK, HubTypeOK, BotTypeOK
  <2>3. QED
    BY <2>1, <2>2
<1>5. CASE CheckWaiting(b) /\ UNCHANGED sessVars
  <2>1. CASE InQueue(user[b])
    <3>1. BotCapacity'
      BY <1>5, <2>1, CountSame DEF CheckWaiting, Counted, TypeOK, BotTypeOK
    <3>2. QED
      BY <1>0, <1>5, <2>1, <3>1 DEF CheckWaiting, Counted, hubVars, TypeOK, HubTypeOK, BotTypeOK
  <2>2. CASE ~InQueue(user[b])
    BY <1>1, <1>5, <2>2 DEF CheckWaiting, Counted, hubVars, TypeOK, HubTypeOK
  <2>3. QED
    BY <2>1, <2>2
<1>6. CASE StartBot(b) /\ UNCHANGED sessVars
  <2>1. CASE CanWakeup(user[b])
    <3>1. BotCapacity'
      BY <1>6, <2>1, CountSame DEF StartBot, Counted, TypeOK, BotTypeOK
    <3>2. HubTypeOK' /\ hub' = hub
      BY <1>6, <2>1 DEF StartBot, Wakeup, CanWakeup, Event, TypeOK, HubTypeOK
    <3>3. QED
      BY <1>0, <1>6, <2>1, <3>1, <3>2 DEF StartBot, Counted, TypeOK, BotTypeOK
  <2>2. CASE ~CanWakeup(user[b])
    BY <1>1, <1>6, <2>2 DEF StartBot, Counted, hubVars, TypeOK, HubTypeOK
  <2>3. QED
    BY <2>1, <2>2
<1>7. CASE EndBot(b) /\ UNCHANGED sessVars
  BY <1>1, <1>7 DEF EndBot, Counted, hubVars, TypeOK, HubTypeOK
<1>8. QED
  BY <1>2, <1>3, <1>4, <1>5, <1>6, <1>7 DEF ServeBot, StopBot, Goodbye, BotStep

\* The invariant holds before any connection.
LEMMA TypeInvInit == Init => TypeInv
<1> SUFFICES ASSUME Init PROVE TypeInv
  OBVIOUS
<1>1. TypeOK
  BY DEF Init, MatcherInit, HubInit, BotInit, Partner, TypeOK, MatcherTypeOK, HubTypeOK, BotTypeOK, SessTypeOK
<1>2. BotCapacity
  <2>1. CountedBots = {}
    BY DEF Init, BotInit, CountedBots, Counted
  <2>2. QED
    BY <2>1, FS_EmptySet, BotAssumption DEF Init, BotInit, BotCapacity, CountedBots
<1>3. ShapeOK
  BY DEF Init, MatcherInit, HubInit, InHub, ShapeOK, Shape
<1>4. QED
  BY <1>1, <1>2, <1>3 DEF TypeInv

\* Every step keeps the invariant.
LEMMA TypeInvStep == TypeInv /\ [Next]_vars => TypeInv'
<1> SUFFICES ASSUME TypeInv, [Next]_vars PROVE TypeInv'
  OBVIOUS
<1>1. ASSUME NEW s \in Sessions, Serve(s) \/ Choose(s) PROVE TypeInv'
  BY <1>1, SessionTypes, SessionShape, SessionCapacity DEF TypeInv
<1>2. ASSUME NEW b \in Bots, ServeBot(b) \/ StopBot(b) \/ Goodbye(b) PROVE TypeInv'
  BY <1>2, BotSteps
<1>3. CASE UNCHANGED vars
  BY <1>3 DEF vars, matcherVars, hubVars, botVars, sessVars, convVars, TypeInv, TypeOK, MatcherTypeOK, HubTypeOK, BotTypeOK, SessTypeOK,
     BotCapacity, ShapeOK, Shape
<1>4. QED
  BY <1>1, <1>2, <1>3 DEF Next

\* The inductive invariant the theorems below rest on.
THEOREM TypeInvHolds == Spec => []TypeInv
BY TypeInvInit, TypeInvStep, PTL DEF Spec

\* Type correctness: everything the server keeps stays of its type.
THEOREM TypeCorrect == Spec => []TypeOK
<1>1. TypeInv => TypeOK
  BY DEF TypeInv
<1>2. QED
  BY <1>1, TypeInvHolds, PTL

\* The bot pool's counter is exact and never above MAX_CONCURRENT, however
\* timers, tutor calls, failed wakeups and endings interleave.
THEOREM CapacityHolds == Spec => []BotCapacity
<1>1. TypeInv => BotCapacity
  BY DEF TypeInv
<1>2. QED
  BY <1>1, TypeInvHolds, PTL

\* Whoever is in a queue is registered in the hub and has a deferred Cancel.
THEOREM NoGhostEntryHolds == Spec => []NoGhostEntry
<1>1. TypeInv => NoGhostEntry
  BY DEF TypeInv, TypeOK, MatcherTypeOK, ShapeOK, Shape, InHub, NoGhostEntry
<1>2. QED
  BY <1>1, TypeInvHolds, PTL

------------------------------------------------------------------------------
(***************************************************************************)
(* The queues: no two compatible sessions wait for each other.             *)
(***************************************************************************)
\* Taking an entry out hides nobody.
LEMMA WithdrawMisses ==
  ASSUME NoMissedMatch, TypeOK, NEW c \in Sessions, Withdraw(c)
  PROVE  NoMissedMatch'
BY DEF NoMissedMatch, Withdraw, TypeOK, MatcherTypeOK, Mirror

\* A session is inscribed once its target queue holds at most the peer it
\* avoids; nobody is its own partner.
LEMMA InscribeMisses ==
  ASSUME NoMissedMatch, TypeOK, NEW s \in Sessions, NEW avoid, Inscribe(s, avoid)
  PROVE  NoMissedMatch'
BY MatcherAssumption DEF NoMissedMatch, Inscribe, Candidates, Mirror, TypeOK, MatcherTypeOK

\* Every step of a session keeps the queues without a missed match.
LEMMA SessionMisses ==
  ASSUME TypeOK, NoMissedMatch, NEW s \in Sessions, Serve(s) \/ Choose(s)
  PROVE  NoMissedMatch'
<1>1. CASE Drain(s)
  BY <1>1
  DEF Drain, matcherVars, NoMissedMatch, Mirror
<1>2. CASE CallTutor(s)
  BY <1>2
  DEF CallTutor, matcherVars, NoMissedMatch, Mirror
<1>3. CASE MeetTutor(s)
  BY <1>3
  DEF MeetTutor, matcherVars, NoMissedMatch, Mirror
<1>4. CASE NoTutor(s)
  BY <1>4
  DEF NoTutor, matcherVars, NoMissedMatch, Mirror
<1>5. CASE SearchRefused(s)
  BY <1>5
  DEF SearchRefused, matcherVars, NoMissedMatch, Mirror
<1>6. CASE SearchMatched(s)
  BY <1>6, WithdrawMisses
  DEF SearchMatched, PopPeer, Candidates, TypeOK, MatcherTypeOK
<1>7. CASE SearchQueued(s)
  BY <1>7, InscribeMisses
  DEF SearchQueued
<1>8. CASE WakePeer(s)
  BY <1>8
  DEF WakePeer, matcherVars, NoMissedMatch, Mirror
<1>9. CASE Woken(s)
  BY <1>9
  DEF Woken, matcherVars, NoMissedMatch, Mirror
<1>10. CASE GiveUp(s)
  BY <1>10
  DEF GiveUp, matcherVars, NoMissedMatch, Mirror
<1>11. CASE SecureBlocked(s)
  BY <1>11
  DEF SecureBlocked, Ghost, matcherVars, NoMissedMatch, Mirror
<1>12. CASE SecureRefused(s)
  BY <1>12
  DEF SecureRefused, Ghost, matcherVars, NoMissedMatch, Mirror
<1>13. CASE EnterChat(s)
  BY <1>13
  DEF EnterChat, matcherVars, NoMissedMatch, Mirror
<1>14. CASE ReadLeft(s)
  BY <1>14
  DEF ReadLeft, matcherVars, NoMissedMatch, Mirror
<1>15. CASE HumanArrives(s)
  BY <1>15
  DEF HumanArrives, matcherVars, NoMissedMatch, Mirror
<1>16. CASE SecondBot(s)
  BY <1>16
  DEF SecondBot, matcherVars, NoMissedMatch, Mirror
<1>17. CASE Close(s)
  BY <1>17, WithdrawMisses
  DEF Close, CancelEntry, matcherVars, NoMissedMatch, Mirror
<1>18. CASE Connect(s)
  BY <1>18
  DEF Connect, matcherVars, NoMissedMatch, Mirror
<1>19. CASE NextPeer(s)
  BY <1>19, WithdrawMisses
  DEF NextPeer, SearchAgain, CancelEntry, matcherVars, NoMissedMatch, Mirror
<1>20. CASE Report(s)
  BY <1>20, WithdrawMisses
  DEF Report, SearchAgain, CancelEntry, matcherVars, NoMissedMatch, Mirror
<1>21. CASE HangUpChat(s)
  BY <1>21
  DEF HangUpChat, matcherVars, NoMissedMatch, Mirror
<1>22. CASE HangUpAwait(s)
  BY <1>22
  DEF HangUpAwait, matcherVars, NoMissedMatch, Mirror
<1>23. QED
  BY <1>1, <1>2, <1>3, <1>4, <1>5, <1>6, <1>7, <1>8, <1>9, <1>10, <1>11,
     <1>12, <1>13, <1>14, <1>15, <1>16, <1>17, <1>18, <1>19, <1>20, <1>21,
     <1>22 DEF Serve, Choose

\* No two compatible sessions sit in the queues, but for a pair that has just
\* parted: what the atomicity of the Lua script is for.
THEOREM NoMissedMatchHolds == Spec => []NoMissedMatch
<1>1. Init => NoMissedMatch
  BY DEF Init, MatcherInit, NoMissedMatch
<1>2. TypeInv /\ NoMissedMatch /\ [Next]_vars => NoMissedMatch'
  <2> SUFFICES ASSUME TypeInv, NoMissedMatch, [Next]_vars PROVE NoMissedMatch'
    OBVIOUS
  <2>1. ASSUME NEW s \in Sessions, Serve(s) \/ Choose(s) PROVE NoMissedMatch'
    BY <2>1, SessionMisses DEF TypeInv
  <2>2. ASSUME NEW b \in Bots, ServeBot(b) \/ StopBot(b) \/ Goodbye(b) PROVE NoMissedMatch'
    BY <2>2 DEF ServeBot, StopBot, Goodbye, BotStep, Fire, AttemptSpawn, BeginNow,
       CheckWaiting, StartBot, EndBot, matcherVars, NoMissedMatch, Mirror
  <2>3. CASE UNCHANGED vars
    BY <2>3 DEF vars, matcherVars, NoMissedMatch, Mirror
  <2>4. QED
    BY <2>1, <2>2, <2>3 DEF Next
<1>3. QED
  BY <1>1, <1>2, TypeInvHolds, PTL DEF Spec

------------------------------------------------------------------------------
(***************************************************************************)
(* Rooms: who holds the name of one, and what its events say.              *)
(***************************************************************************)
\* An event of s names a room that at most its sender is in, with s as its
\* peer, and that no other event names.
EventOK(s) ==
    HasEvent(s) /\ inbox[s].room # None =>
        /\ inbox[s].from \in Sessions \ {s}
        /\ \A p \in Sessions : room[p] = inbox[s].room => p = inbox[s].from /\ peer[p] = s
        /\ \A p \in Sessions \ {s} : HasEvent(p) => inbox[p].room # inbox[s].room

InRoom(s) ==
    /\ room[s] # None => pc[s] \in {"secure", "chat"}
    /\ pc[s] = "matched" => peer[s] \in Sessions \ {s}

RoomInv == RoomsAgree /\ \A s \in Sessions : EventOK(s) /\ InRoom(s)

\* Every step of a session keeps the rooms and the events in accord.
LEMMA SessionRooms ==
  ASSUME TypeInv, RoomInv, NEW s \in Sessions, Serve(s) \/ Choose(s)
  PROVE  RoomInv'
<1> USE DEF TypeInv
<1>1. CASE Drain(s)
  BY <1>1
  DEF Drain, Dismiss, hubVars, Go, Receive, RoomInv, RoomsAgree, EventOK,
      InRoom, HasEvent, TypeOK, MatcherTypeOK, HubTypeOK, BotTypeOK,
      SessTypeOK, Event
<1>2. CASE CallTutor(s)
  BY <1>2
  DEF CallTutor, Go, hubVars, convVars, RoomInv, RoomsAgree, EventOK, InRoom,
      HasEvent, TypeOK, MatcherTypeOK, HubTypeOK, BotTypeOK, SessTypeOK, Event
<1>3. CASE MeetTutor(s)
  BY <1>3
  DEF MeetTutor, Adopt, Go, Receive, RoomInv, RoomsAgree, EventOK, InRoom,
      HasEvent, TypeOK, MatcherTypeOK, HubTypeOK, BotTypeOK, SessTypeOK, Event
<1>4. CASE NoTutor(s)
  BY <1>4
  DEF NoTutor, Go, hubVars, convVars, RoomInv, RoomsAgree, EventOK, InRoom,
      HasEvent, TypeOK, MatcherTypeOK, HubTypeOK, BotTypeOK, SessTypeOK, Event
<1>5. CASE SearchRefused(s)
  BY <1>5
  DEF SearchRefused, Go, hubVars, convVars, RoomInv, RoomsAgree, EventOK,
      InRoom, HasEvent, TypeOK, MatcherTypeOK, HubTypeOK, BotTypeOK,
      SessTypeOK, Event
<1>6. CASE SearchMatched(s)
  <2>1. PICK c \in Sessions : PopPeer(s, last[s], c) /\ peer' = [peer EXCEPT ![s] = c]
    BY <1>6 DEF SearchMatched
  <2>2. Mirror(s, c)
    BY <2>1 DEF PopPeer, Candidates
  <2>3. c # s
    BY <2>2, MatcherAssumption DEF Mirror
  <2>4. /\ room[s] = None /\ UNCHANGED <<inbox, room>>
        /\ DOMAIN pc = Sessions /\ DOMAIN peer = Sessions
    BY <1>6 DEF SearchMatched, hubVars, RoomInv, InRoom, TypeOK, SessTypeOK
  <2>5. /\ pc'[s] = "matched" /\ peer'[s] = c
        /\ \A t \in Sessions \ {s} : pc'[t] = pc[t] /\ peer'[t] = peer[t]
    BY <1>6, <2>1, <2>4 DEF SearchMatched, Go
  <2>6. RoomsAgree'
    BY <2>4, <2>5 DEF RoomInv, RoomsAgree
  <2>7. ASSUME NEW t \in Sessions PROVE EventOK(t)' /\ InRoom(t)'
    <3>1. EventOK(t) /\ InRoom(t)
      BY DEF RoomInv
    <3>2. EventOK(t)'
      BY <2>4, <2>5, <3>1, HubAssumption DEF EventOK, HasEvent
    <3>3. InRoom(t)'
      BY <2>3, <2>4, <2>5, <3>1 DEF InRoom
    <3> QED
      BY <3>2, <3>3
  <2> QED
    BY <2>6, <2>7 DEF RoomInv
<1>7. CASE SearchQueued(s)
  BY <1>7
  DEF SearchQueued, Go, hubVars, convVars, RoomInv, RoomsAgree, EventOK,
      InRoom, HasEvent, TypeOK, MatcherTypeOK, HubTypeOK, BotTypeOK,
      SessTypeOK, Event
<1>8. CASE WakePeer(s)
  <2>0. PICK c \in Sessions \ {s} : c = peer[s]
    BY <1>8 DEF WakePeer, RoomInv, InRoom
  <2>1. c = peer[s] /\ c \in Sessions \ {s} /\ room[s] = None
    BY <1>8, <2>0 DEF WakePeer, RoomInv, InRoom
  <2>2. /\ pc \in [Sessions -> InHub \cup {"off", "gone"}]
        /\ room \in [Sessions -> Rooms \cup {None}]
        /\ DOMAIN peer = Sessions /\ DOMAIN inbox = Sessions
    BY DEF TypeOK, SessTypeOK, HubTypeOK
  <2>3. CASE ~CanWakeup(c)
    BY <1>8, <2>1, <2>2, <2>3
    DEF WakePeer, Go, hubVars, RoomInv, RoomsAgree, EventOK, InRoom, HasEvent
  <2>4. CASE CanWakeup(c)
    <3>1. PICK r \in NewRoom : Wakeup(c, s, r) /\ room' = [room EXCEPT ![s] = r]
      BY <1>8, <2>1, <2>4 DEF WakePeer
    <3>2. /\ r # None /\ \A p \in Sessions : room[p] # r
          /\ \A p \in Sessions : HasEvent(p) => inbox[p].room # r
      BY NewRoomUnused
    <3>3. /\ inbox'[c] = [from |-> s, room |-> r]
          /\ \A t \in Sessions \ {c} : inbox'[t] = inbox[t]
          /\ room'[s] = r /\ \A t \in Sessions \ {s} : room'[t] = room[t]
          /\ pc'[s] = "secure" /\ \A t \in Sessions \ {s} : pc'[t] = pc[t]
          /\ peer' = peer
      BY <1>8, <2>1, <2>2, <2>4, <3>1 DEF WakePeer, Wakeup, Go
    <3>4. inbox'[c].from = s /\ inbox'[c].room = r /\ HasEvent(c)'
      BY <3>3, EventAssumption, <3>1, NewRoomUnused DEF HasEvent, Event
    <3>5. \A t \in Sessions \ {c} : HasEvent(t)' <=> HasEvent(t)
      BY <3>3 DEF HasEvent
    <3>6. RoomsAgree'
      BY <2>1, <3>2, <3>3 DEF RoomInv, RoomsAgree
    <3>7. EventOK(c)'
      BY <2>1, <3>2, <3>3, <3>4, <3>5 DEF EventOK
    <3>8. ASSUME NEW t \in Sessions \ {c} PROVE EventOK(t)'
      <4>1. EventOK(t)
        BY DEF RoomInv
      <4>2. HasEvent(t) => inbox[t].room # r
        BY <3>2
      <4> QED
        BY <2>1, <3>2, <3>3, <3>4, <3>5, <4>1, <4>2 DEF EventOK
    <3>9. ASSUME NEW t \in Sessions PROVE InRoom(t)'
      BY <2>1, <3>3 DEF RoomInv, InRoom
    <3> QED
      BY <3>6, <3>7, <3>8, <3>9 DEF RoomInv
  <2> QED
    BY <2>3, <2>4
<1>9. CASE Woken(s)
  BY <1>9
  DEF Woken, Adopt, Go, Receive, RoomInv, RoomsAgree, EventOK, InRoom,
      HasEvent, TypeOK, MatcherTypeOK, HubTypeOK, BotTypeOK, SessTypeOK, Event
<1>10. CASE GiveUp(s)
  BY <1>10
  DEF GiveUp, Go, hubVars, convVars, RoomInv, RoomsAgree, EventOK, InRoom,
      HasEvent, TypeOK, MatcherTypeOK, HubTypeOK, BotTypeOK, SessTypeOK, Event
<1>11. CASE SecureBlocked(s)
  BY <1>11
  DEF SecureBlocked, Ghost, Forget, Go, hubVars, RoomInv, RoomsAgree, EventOK,
      InRoom, HasEvent, TypeOK, MatcherTypeOK, HubTypeOK, BotTypeOK,
      SessTypeOK, Event
<1>12. CASE SecureRefused(s)
  BY <1>12
  DEF SecureRefused, Ghost, Forget, Go, hubVars, RoomInv, RoomsAgree, EventOK,
      InRoom, HasEvent, TypeOK, MatcherTypeOK, HubTypeOK, BotTypeOK,
      SessTypeOK, Event
<1>13. CASE EnterChat(s)
  BY <1>13
  DEF EnterChat, Go, hubVars, RoomInv, RoomsAgree, EventOK, InRoom, HasEvent,
      TypeOK, MatcherTypeOK, HubTypeOK, BotTypeOK, SessTypeOK, Event
<1>14. CASE ReadLeft(s)
  BY <1>14
  DEF ReadLeft, hubVars, RoomInv, RoomsAgree, EventOK, InRoom, HasEvent,
      TypeOK, MatcherTypeOK, HubTypeOK, BotTypeOK, SessTypeOK, Event
<1>15. CASE HumanArrives(s)
  BY <1>15
  DEF HumanArrives, ArrivalWatched, SayGoodbye, Adopt, Go, Receive, RoomInv,
      RoomsAgree, EventOK, InRoom, HasEvent, TypeOK, MatcherTypeOK, HubTypeOK,
      BotTypeOK, SessTypeOK, Event
<1>16. CASE SecondBot(s)
  BY <1>16
  DEF SecondBot, ArrivalWatched, Dismiss, Receive, RoomInv, RoomsAgree,
      EventOK, InRoom, HasEvent, TypeOK, MatcherTypeOK, HubTypeOK, BotTypeOK,
      SessTypeOK, Event
<1>17. CASE Close(s)
  BY <1>17
  DEF Close, Go, convVars, RoomInv, RoomsAgree, EventOK, InRoom, HasEvent,
      Unregister, TypeOK, MatcherTypeOK, HubTypeOK, BotTypeOK, SessTypeOK,
      Event
<1>18. CASE Connect(s)
  BY <1>18
  DEF Connect, Go, convVars, RoomInv, RoomsAgree, EventOK, InRoom, HasEvent,
      Register, TypeOK, MatcherTypeOK, HubTypeOK, BotTypeOK, SessTypeOK, Event
<1>19. CASE NextPeer(s)
  BY <1>19
  DEF NextPeer, SearchAgain, LeaveChat, Go, SayGoodbye, Forget, hubVars,
      RoomInv, RoomsAgree, EventOK, InRoom, HasEvent, TypeOK, MatcherTypeOK,
      HubTypeOK, BotTypeOK, SessTypeOK, Event
<1>20. CASE Report(s)
  BY <1>20
  DEF Report, SearchAgain, LeaveChat, Go, SayGoodbye, Forget, hubVars,
      RoomInv, RoomsAgree, EventOK, InRoom, HasEvent, TypeOK, MatcherTypeOK,
      HubTypeOK, BotTypeOK, SessTypeOK, Event
<1>21. CASE HangUpChat(s)
  BY <1>21
  DEF HangUpChat, LeaveChat, Go, SayGoodbye, Forget, hubVars, RoomInv,
      RoomsAgree, EventOK, InRoom, HasEvent, TypeOK, MatcherTypeOK, HubTypeOK,
      BotTypeOK, SessTypeOK, Event
<1>22. CASE HangUpAwait(s)
  BY <1>22
  DEF HangUpAwait, Go, hubVars, convVars, RoomInv, RoomsAgree, EventOK,
      InRoom, HasEvent, TypeOK, MatcherTypeOK, HubTypeOK, BotTypeOK,
      SessTypeOK, Event
<1>23. QED
  BY <1>1, <1>2, <1>3, <1>4, <1>5, <1>6, <1>7, <1>8, <1>9, <1>10, <1>11,
     <1>12, <1>13, <1>14, <1>15, <1>16, <1>17, <1>18, <1>19, <1>20, <1>21,
     <1>22 DEF Serve, Choose

\* What rooms and events say of each other, at every step.
THEOREM RoomInvHolds == Spec => []RoomInv
<1>1. Init => RoomInv
  BY DEF Init, HubInit, RoomInv, RoomsAgree, EventOK, InRoom, HasEvent
<1>2. TypeInv /\ RoomInv /\ [Next]_vars => RoomInv'
  <2> SUFFICES ASSUME TypeInv, RoomInv, [Next]_vars PROVE RoomInv'
    OBVIOUS
  <2>1. ASSUME NEW s \in Sessions, Serve(s) \/ Choose(s) PROVE RoomInv'
    BY <2>1, SessionRooms
  <2>2. ASSUME NEW b \in Bots, ServeBot(b) \/ StopBot(b) \/ Goodbye(b) PROVE RoomInv'
    <3>1. UNCHANGED sessVars
      BY <2>2 DEF ServeBot, StopBot, Goodbye
    <3>2. CASE UNCHANGED hubVars
      BY <3>1, <3>2 DEF sessVars, convVars, hubVars, RoomInv, RoomsAgree, EventOK, InRoom, HasEvent
    <3>3. CASE Wakeup(user[b], b, None) /\ CanWakeup(user[b])
      BY <3>1, <3>3 DEF sessVars, convVars, CanWakeup, Wakeup, HasEvent, TypeInv, TypeOK, HubTypeOK,
         RoomInv, RoomsAgree, EventOK, InRoom
    <3>4. QED
      BY <2>2, <3>2, <3>3 DEF ServeBot, StopBot, Goodbye, BotStep, Fire, AttemptSpawn,
         BeginNow, CheckWaiting, StartBot, EndBot
  <2>3. CASE UNCHANGED vars
    BY <2>3 DEF vars, hubVars, sessVars, convVars, RoomInv, RoomsAgree, EventOK, InRoom, HasEvent
  <2>4. QED
    BY <2>1, <2>2, <2>3 DEF Next
<1>3. QED
  BY <1>1, <1>2, TypeInvHolds, PTL DEF Spec

\* Sessions that hold the same room are each other's partner.
THEOREM RoomsAgreeHolds == Spec => []RoomsAgree
<1>1. RoomInv => RoomsAgree
  BY DEF RoomInv
<1>2. QED
  BY <1>1, RoomInvHolds, PTL

------------------------------------------------------------------------------
(***************************************************************************)
(* Bots: none is left talking to nobody with nothing to stop it.           *)
(***************************************************************************)
BotInv ==
    /\ NoAbandonedBot
    /\ \A b \in Bots : bot[b] = "running" => user[b] \in Sessions
    /\ \A s \in Sessions : /\ pc[s] \notin InHub => ~HasEvent(s)
                           /\ peer[s] \in Bots => pc[s] \in {"secure", "chat"}

\* Every step of a session leaves no bot without its session, or stops it.
LEMMA SessionBots ==
  ASSUME TypeInv, BotInv, NEW s \in Sessions, Serve(s) \/ Choose(s)
  PROVE  BotInv'
<1> USE DEF TypeInv
<1>1. CASE Drain(s)
  BY <1>1, HubAssumption, HangUpStops
  DEF Drain, Dismiss, hubVars, Go, Receive, BotInv, NoAbandonedBot, HasEvent,
      InHub, TypeOK, MatcherTypeOK, HubTypeOK, BotTypeOK, SessTypeOK, Event,
      ShapeOK, Shape
<1>2. CASE CallTutor(s)
  BY <1>2, HubAssumption, FreshBotType
  DEF CallTutor, Go, botVars, SpawnNow, hubVars, convVars, Start, BotInv,
      NoAbandonedBot, HasEvent, InHub, TypeOK, MatcherTypeOK, HubTypeOK,
      BotTypeOK, SessTypeOK, Event, ShapeOK, Shape
<1>3. CASE MeetTutor(s)
  BY <1>3, HubAssumption
  DEF MeetTutor, Adopt, Go, botVars, Receive, BotInv, NoAbandonedBot,
      HasEvent, InHub, TypeOK, MatcherTypeOK, HubTypeOK, BotTypeOK,
      SessTypeOK, Event, ShapeOK, Shape
<1>4. CASE NoTutor(s)
  BY <1>4, HubAssumption
  DEF NoTutor, Go, hubVars, botVars, convVars, BotInv, NoAbandonedBot,
      HasEvent, InHub, TypeOK, MatcherTypeOK, HubTypeOK, BotTypeOK,
      SessTypeOK, Event, ShapeOK, Shape
<1>5. CASE SearchRefused(s)
  BY <1>5, HubAssumption
  DEF SearchRefused, Go, hubVars, botVars, convVars, BotInv, NoAbandonedBot,
      HasEvent, InHub, TypeOK, MatcherTypeOK, HubTypeOK, BotTypeOK,
      SessTypeOK, Event, ShapeOK, Shape
<1>6. CASE SearchMatched(s)
  BY <1>6, HubAssumption
  DEF SearchMatched, PopPeer, Go, hubVars, botVars, Candidates, BotInv,
      NoAbandonedBot, HasEvent, InHub, TypeOK, MatcherTypeOK, HubTypeOK,
      BotTypeOK, SessTypeOK, Event, ShapeOK, Shape
<1>7. CASE SearchQueued(s)
  <2>1. /\ pc[s] = "search" /\ pc' = [pc EXCEPT ![s] = "waiting"]
        /\ UNCHANGED <<hub, inbox, peer>> /\ pc \in [Sessions -> InHub \cup {"off", "gone"}]
    BY <1>7 DEF SearchQueued, Go, hubVars, convVars, TypeOK, SessTypeOK
  <2>2. \A b \in Bots : bot'[b] = "running" =>
           bot[b] = "running" /\ user'[b] = user[b] /\ hungUp'[b] = hungUp[b]
    <3>1. CASE timers[s] # None \/ Full
      BY <1>7, <3>1 DEF SearchQueued, SpawnFor, botVars
    <3>2. CASE ~(timers[s] # None \/ Full)
      <4>1. PICK b \in FreshBot : Start(b, s, "ticking")
        BY <1>7, <3>2 DEF SearchQueued, SpawnFor
      <4>2. QED
        BY <4>1, FreshBotType DEF Start, TypeOK, BotTypeOK
    <3>3. QED
      BY <3>1, <3>2
  <2>3. \A p \in Sessions : pc[p] = "gone" => pc'[p] = "gone"
    BY <2>1
  <2>4. NoAbandonedBot'
    BY <2>1, <2>2, <2>3 DEF BotInv, NoAbandonedBot, HasEvent
  <2>5. QED
    BY <2>1, <2>2, <2>4 DEF BotInv, HasEvent, InHub
<1>8. CASE WakePeer(s)
  BY <1>8, HubAssumption
  DEF WakePeer, CanWakeup, Wakeup, Go, hubVars, botVars, BotInv,
      NoAbandonedBot, HasEvent, InHub, TypeOK, MatcherTypeOK, HubTypeOK,
      BotTypeOK, SessTypeOK, Event, ShapeOK, Shape
<1>9. CASE Woken(s)
  BY <1>9, HubAssumption
  DEF Woken, Adopt, botVars, CancelTimer, Go, Receive, BotInv, NoAbandonedBot,
      HasEvent, InHub, TypeOK, MatcherTypeOK, HubTypeOK, BotTypeOK,
      SessTypeOK, Event, ShapeOK, Shape
<1>10. CASE GiveUp(s)
  BY <1>10, HubAssumption
  DEF GiveUp, CancelTimer, Go, hubVars, convVars, BotInv, NoAbandonedBot,
      HasEvent, InHub, TypeOK, MatcherTypeOK, HubTypeOK, BotTypeOK,
      SessTypeOK, Event, ShapeOK, Shape
<1>11. CASE SecureBlocked(s)
  BY <1>11, HubAssumption
  DEF SecureBlocked, Ghost, Forget, Go, hubVars, botVars, BotInv,
      NoAbandonedBot, HasEvent, InHub, TypeOK, MatcherTypeOK, HubTypeOK,
      BotTypeOK, SessTypeOK, Event, ShapeOK, Shape
<1>12. CASE SecureRefused(s)
  BY <1>12, HubAssumption
  DEF SecureRefused, Ghost, Forget, Go, hubVars, botVars, BotInv,
      NoAbandonedBot, HasEvent, InHub, TypeOK, MatcherTypeOK, HubTypeOK,
      BotTypeOK, SessTypeOK, Event, ShapeOK, Shape
<1>13. CASE EnterChat(s)
  BY <1>13, HubAssumption
  DEF EnterChat, Go, hubVars, botVars, BotInv, NoAbandonedBot, HasEvent,
      InHub, TypeOK, MatcherTypeOK, HubTypeOK, BotTypeOK, SessTypeOK, Event,
      ShapeOK, Shape
<1>14. CASE ReadLeft(s)
  BY <1>14, HubAssumption
  DEF ReadLeft, hubVars, botVars, BotInv, NoAbandonedBot, HasEvent, InHub,
      TypeOK, MatcherTypeOK, HubTypeOK, BotTypeOK, SessTypeOK, Event, ShapeOK,
      Shape
<1>15. CASE HumanArrives(s)
  BY <1>15, HubAssumption, HangUpStops
  DEF HumanArrives, ArrivalWatched, SayGoodbye, Adopt, Go, Receive, BotInv,
      NoAbandonedBot, HasEvent, InHub, TypeOK, MatcherTypeOK, HubTypeOK,
      BotTypeOK, SessTypeOK, Event, ShapeOK, Shape
<1>16. CASE SecondBot(s)
  BY <1>16, HubAssumption, HangUpStops
  DEF SecondBot, ArrivalWatched, Dismiss, Receive, BotInv, NoAbandonedBot,
      HasEvent, InHub, TypeOK, MatcherTypeOK, HubTypeOK, BotTypeOK,
      SessTypeOK, Event, ShapeOK, Shape
<1>17. CASE Close(s)
  BY <1>17, HubAssumption
  DEF Close, Unregister, Go, botVars, convVars, BotInv, NoAbandonedBot,
      HasEvent, InHub, TypeOK, MatcherTypeOK, HubTypeOK, BotTypeOK,
      SessTypeOK, Event, ShapeOK, Shape
<1>18. CASE Connect(s)
  BY <1>18, HubAssumption
  DEF Connect, Register, Go, botVars, convVars, BotInv, NoAbandonedBot,
      HasEvent, InHub, TypeOK, MatcherTypeOK, HubTypeOK, BotTypeOK,
      SessTypeOK, Event, ShapeOK, Shape
<1>19. CASE NextPeer(s)
  BY <1>19, HubAssumption, HangUpStops
  DEF NextPeer, SearchAgain, LeaveChat, Go, SayGoodbye, Forget, hubVars,
      BotInv, NoAbandonedBot, HasEvent, InHub, TypeOK, MatcherTypeOK,
      HubTypeOK, BotTypeOK, SessTypeOK, Event, ShapeOK, Shape
<1>20. CASE Report(s)
  BY <1>20, HubAssumption, HangUpStops
  DEF Report, SearchAgain, LeaveChat, Go, SayGoodbye, Forget, hubVars, BotInv,
      NoAbandonedBot, HasEvent, InHub, TypeOK, MatcherTypeOK, HubTypeOK,
      BotTypeOK, SessTypeOK, Event, ShapeOK, Shape
<1>21. CASE HangUpChat(s)
  BY <1>21, HubAssumption, HangUpStops
  DEF HangUpChat, LeaveChat, Go, SayGoodbye, Forget, hubVars, BotInv,
      NoAbandonedBot, HasEvent, InHub, TypeOK, MatcherTypeOK, HubTypeOK,
      BotTypeOK, SessTypeOK, Event, ShapeOK, Shape
<1>22. CASE HangUpAwait(s)
  BY <1>22, HubAssumption
  DEF HangUpAwait, Go, hubVars, botVars, convVars, BotInv, NoAbandonedBot,
      HasEvent, InHub, TypeOK, MatcherTypeOK, HubTypeOK, BotTypeOK,
      SessTypeOK, Event, ShapeOK, Shape
<1>23. QED
  BY <1>1, <1>2, <1>3, <1>4, <1>5, <1>6, <1>7, <1>8, <1>9, <1>10, <1>11,
     <1>12, <1>13, <1>14, <1>15, <1>16, <1>17, <1>18, <1>19, <1>20, <1>21,
     <1>22 DEF Serve, Choose

\* A bot in conversation has its session with it, or its event waiting there,
\* or a Left or the end of the session's context to stop it.
THEOREM NoAbandonedBotHolds == Spec => []NoAbandonedBot
<1>1. Init => BotInv
  BY HubAssumption DEF Init, HubInit, BotInit, BotInv, NoAbandonedBot, HasEvent
<1>2. TypeInv /\ BotInv /\ [Next]_vars => BotInv'
  <2> SUFFICES ASSUME TypeInv, BotInv, [Next]_vars PROVE BotInv'
    OBVIOUS
  <2>1. ASSUME NEW s \in Sessions, Serve(s) \/ Choose(s) PROVE BotInv'
    BY <2>1, SessionBots
  <2>2. ASSUME NEW b \in Bots, ServeBot(b) \/ StopBot(b) \/ Goodbye(b) PROVE BotInv'
    <3>1. UNCHANGED sessVars
      BY <2>2 DEF ServeBot, StopBot, Goodbye
    <3> USE DEF sessVars, convVars, TypeInv, TypeOK, HubTypeOK, BotTypeOK, BotInv, NoAbandonedBot, HasEvent
    <3>2. CASE Fire(b)
      BY <3>1, <3>2 DEF Fire, hubVars
    <3>3. CASE AttemptSpawn(b)
      BY <3>1, <3>3 DEF AttemptSpawn, Drop, Count, hubVars
    <3>4. CASE BeginNow(b)
      BY <3>1, <3>4 DEF BeginNow, Drop, Count, hubVars
    <3>5. CASE CheckWaiting(b)
      BY <3>1, <3>5 DEF CheckWaiting, Release, Drop, hubVars
    <3>6. CASE StartBot(b)
      <4>1. CASE CanWakeup(user[b])
        <5>1. inbox' = [inbox EXCEPT ![user[b]] = [from |-> b, room |-> None]] /\ user[b] \in Sessions
          BY <3>6, <4>1 DEF StartBot, CanWakeup, Wakeup
        <5>2. /\ inbox'[user[b]] # None /\ inbox'[user[b]].from = b
              /\ \A s \in Sessions \ {user[b]} : inbox'[s] = inbox[s]
              /\ pc[user[b]] \in InHub /\ ~HasEvent(user[b])
          BY <4>1, <5>1, EventAssumption DEF CanWakeup, Event, ShapeOK, Shape
        <5>3. QED
          BY <3>1, <3>6, <4>1, <5>1, <5>2 DEF StartBot
      <4>2. CASE ~CanWakeup(user[b])
        BY <3>1, <3>6, <4>2 DEF StartBot, Release, Drop, hubVars
      <4>3. QED
        BY <4>1, <4>2
    <3>7. CASE EndBot(b)
      BY <3>1, <3>7 DEF EndBot, Release, Drop, hubVars
    <3>8. QED
      BY <2>2, <3>2, <3>3, <3>4, <3>5, <3>6, <3>7 DEF ServeBot, StopBot, Goodbye, BotStep
  <2>3. CASE UNCHANGED vars
    BY <2>3 DEF vars, hubVars, botVars, sessVars, convVars, BotInv, NoAbandonedBot, HasEvent
  <2>4. QED
    BY <2>1, <2>2, <2>3 DEF Next
<1>3. BotInv => NoAbandonedBot
  BY DEF BotInv
<1>4. QED
  BY <1>1, <1>2, <1>3, TypeInvHolds, PTL DEF Spec

------------------------------------------------------------------------------
(***************************************************************************)
(* Conversations: who is told of a departure, who is kept apart.           *)
(***************************************************************************)
LeftInv ==
    /\ LeftReachesWitness
    /\ \A s \in Sessions : met[s] /\ pc[s] = "chat" => room[s] # None

\* Whoever is subscribed to the room has the Left, and keeps the one it had.
LEMMA LeftHeard ==
  ASSUME TypeOK, NEW s \in Sessions, NEW r, PublishLeft(s, r)
  PROVE  \A p \in Sessions \ {s} :
            left[p] \/ (r # None /\ pc[p] = "chat" /\ room[p] = r) => left'[p]
BY DEF PublishLeft, Listeners, TypeOK, SessTypeOK

\* Only a subscription that finds, or is found by, another makes a meeting.
LEMMA JoinMeets ==
  ASSUME TypeOK, NEW s \in Sessions, NEW r, Join(s, r)
  PROVE  /\ met'[s] => \E q \in Sessions \ {s} : r # None /\ pc[q] = "chat" /\ room[q] = r
         /\ \A p \in Sessions \ {s} :
               met'[p] => met[p] \/ (r # None /\ pc[p] = "chat" /\ room[p] = r)
<1>1. met'[s] => Listeners(s, r) # {}
  BY DEF Join
<1>2. \A p \in Sessions \ {s} : met'[p] => met[p] \/ p \in Listeners(s, r)
  BY DEF Join
<1>3. QED
  BY <1>1, <1>2 DEF Listeners

\* s leaves its conversation: a peer that met it hears it.
LEMMA GoodbyeHeard ==
  ASSUME TypeInv, RoomInv, LeftInv, NEW s \in Sessions, pc[s] = "chat", SayGoodbye(s),
         NEW p \in Sessions \ {s}, met[p], pc[p] = "chat"
  PROVE  \/ gone[p] \/ left'[p]
         \/ peer[p] \in Sessions \ {s} /\ pc[peer[p]] = "chat" /\ room[peer[p]] = room[p]
<1>1. CASE gone[p]
  BY <1>1
<1>2. CASE left[p]
  BY <1>2, LeftHeard DEF SayGoodbye, TypeInv
<1>3. CASE peer[p] \in Sessions /\ pc[peer[p]] = "chat" /\ room[peer[p]] = room[p]
  <2>1. CASE peer[p] = s
    <3>1. room[s] # None /\ room[p] = room[s]
      BY <1>3, <2>1 DEF LeftInv
    <3>2. peer[s] \notin Bots
      BY <3>1, HubAssumption DEF RoomInv, RoomsAgree
    <3>3. QED
      BY <3>1, <3>2, LeftHeard DEF SayGoodbye, TypeInv
  <2>2. QED
    BY <1>3, <2>1
<1>4. QED
  BY <1>1, <1>2, <1>3 DEF LeftInv, LeftReachesWitness

\* Every step of a session leaves nobody behind without a word.
LEMMA SessionLefts ==
  ASSUME TypeInv, RoomInv, LeftInv, NEW s \in Sessions, Serve(s) \/ Choose(s)
  PROVE  LeftInv'
<1> USE DEF TypeInv
<1>1. CASE Drain(s)
  BY <1>1, LeftHeard
  DEF Drain, Dismiss, Go, LeftInv, LeftReachesWitness, TypeOK, SessTypeOK
<1>2. CASE CallTutor(s)
  BY <1>2
  DEF CallTutor, Go, convVars, LeftInv, LeftReachesWitness, TypeOK, SessTypeOK
<1>3. CASE MeetTutor(s)
  BY <1>3, JoinMeets
  DEF MeetTutor, Adopt, Go, LeftInv, LeftReachesWitness, RoomInv, RoomsAgree,
      EventOK, HasEvent, TypeOK, SessTypeOK
<1>4. CASE NoTutor(s)
  BY <1>4
  DEF NoTutor, Go, convVars, LeftInv, LeftReachesWitness, TypeOK, SessTypeOK
<1>5. CASE SearchRefused(s)
  BY <1>5
  DEF SearchRefused, Go, convVars, LeftInv, LeftReachesWitness, TypeOK,
      SessTypeOK
<1>6. CASE SearchMatched(s)
  BY <1>6
  DEF SearchMatched, Go, LeftInv, LeftReachesWitness, TypeOK, SessTypeOK
<1>7. CASE SearchQueued(s)
  BY <1>7
  DEF SearchQueued, Go, convVars, LeftInv, LeftReachesWitness, TypeOK,
      SessTypeOK
<1>8. CASE WakePeer(s)
  BY <1>8
  DEF WakePeer, Go, LeftInv, LeftReachesWitness, TypeOK, SessTypeOK
<1>9. CASE Woken(s)
  BY <1>9
  DEF Woken, Adopt, Go, LeftInv, LeftReachesWitness, TypeOK, SessTypeOK
<1>10. CASE GiveUp(s)
  BY <1>10
  DEF GiveUp, Go, convVars, LeftInv, LeftReachesWitness, TypeOK, SessTypeOK
<1>11. CASE SecureBlocked(s)
  BY <1>11, LeftHeard
  DEF SecureBlocked, Ghost, Forget, Go, LeftInv, LeftReachesWitness, TypeOK,
      SessTypeOK
<1>12. CASE SecureRefused(s)
  BY <1>12, LeftHeard
  DEF SecureRefused, Ghost, Forget, Go, LeftInv, LeftReachesWitness, TypeOK,
      SessTypeOK
<1>13. CASE EnterChat(s)
  BY <1>13, JoinMeets
  DEF EnterChat, Go, LeftInv, LeftReachesWitness, RoomInv, RoomsAgree,
      EventOK, TypeOK, SessTypeOK
<1>14. CASE ReadLeft(s)
  BY <1>14
  DEF ReadLeft, LeftInv, LeftReachesWitness, TypeOK, SessTypeOK
<1>15. CASE HumanArrives(s)
  BY <1>15, GoodbyeHeard
  DEF HumanArrives, ArrivalWatched, Adopt, Go, LeftInv, LeftReachesWitness,
      TypeOK, SessTypeOK
<1>16. CASE SecondBot(s)
  BY <1>16, LeftHeard
  DEF SecondBot, ArrivalWatched, Dismiss, LeftInv, LeftReachesWitness, TypeOK,
      SessTypeOK
<1>17. CASE Close(s)
  BY <1>17
  DEF Close, Go, convVars, LeftInv, LeftReachesWitness, TypeOK, SessTypeOK
<1>18. CASE Connect(s)
  BY <1>18
  DEF Connect, Go, convVars, LeftInv, LeftReachesWitness, TypeOK, SessTypeOK
<1>19. CASE NextPeer(s)
  BY <1>19, GoodbyeHeard
  DEF NextPeer, SearchAgain, LeaveChat, Go, Forget, LeftInv,
      LeftReachesWitness, TypeOK, SessTypeOK
<1>20. CASE Report(s)
  BY <1>20, GoodbyeHeard
  DEF Report, SearchAgain, LeaveChat, Go, Forget, LeftInv, LeftReachesWitness,
      TypeOK, SessTypeOK
<1>21. CASE HangUpChat(s)
  BY <1>21, GoodbyeHeard
  DEF HangUpChat, LeaveChat, Go, Forget, LeftInv, LeftReachesWitness, TypeOK,
      SessTypeOK
<1>22. CASE HangUpAwait(s)
  BY <1>22
  DEF HangUpAwait, Go, convVars, LeftInv, LeftReachesWitness, TypeOK,
      SessTypeOK
<1>23. QED
  BY <1>1, <1>2, <1>3, <1>4, <1>5, <1>6, <1>7, <1>8, <1>9, <1>10, <1>11,
     <1>12, <1>13, <1>14, <1>15, <1>16, <1>17, <1>18, <1>19, <1>20, <1>21,
     <1>22 DEF Serve, Choose

\* Once both were in the room, whoever stays behind reads a Left or has it waiting.
THEOREM LeftReachesWitnessHolds == Spec => []LeftReachesWitness
<1>1. Init => LeftInv
  BY DEF Init, LeftInv, LeftReachesWitness
<1>2. TypeInv /\ RoomInv /\ LeftInv /\ [Next]_vars => LeftInv'
  <2> SUFFICES ASSUME TypeInv, RoomInv, LeftInv, [Next]_vars PROVE LeftInv'
    OBVIOUS
  <2>1. ASSUME NEW s \in Sessions, Serve(s) \/ Choose(s) PROVE LeftInv'
    BY <2>1, SessionLefts
  <2>2. CASE UNCHANGED sessVars
    BY <2>2 DEF sessVars, convVars, LeftInv, LeftReachesWitness
  <2>3. QED
    BY <2>1, <2>2 DEF Next, ServeBot, StopBot, Goodbye, vars
<1>3. LeftInv => LeftReachesWitness
  BY DEF LeftInv
<1>4. QED
  BY <1>1, <1>2, <1>3, TypeInvHolds, RoomInvHolds, PTL DEF Spec

\* Without a tutor mode, nobody is ever in it.
BlockInv ==
    /\ BlockedNeverMeet
    /\ \A s \in Sessions : pc[s] \notin {"tutor", "await"}

\* Without a tutor mode, every step of a session keeps apart those who must be.
LEMMA SessionBlocks ==
  ASSUME TutorMode = {}, TypeInv, BlockInv, NEW s \in Sessions, Serve(s) \/ Choose(s)
  PROVE  BlockInv'
<1> USE DEF TypeInv
<1>1. CASE Drain(s)
  BY <1>1
  DEF Drain, Go, BlockInv, BlockedNeverMeet, TypeOK, SessTypeOK
<1>2. CASE CallTutor(s)
  BY <1>2
  DEF CallTutor, Go, convVars, BlockInv, BlockedNeverMeet, TypeOK, SessTypeOK
<1>3. CASE MeetTutor(s)
  BY <1>3
  DEF MeetTutor, Adopt, Go, BlockInv, BlockedNeverMeet, TypeOK, SessTypeOK
<1>4. CASE NoTutor(s)
  BY <1>4
  DEF NoTutor, Go, convVars, BlockInv, BlockedNeverMeet, TypeOK, SessTypeOK
<1>5. CASE SearchRefused(s)
  BY <1>5
  DEF SearchRefused, Go, convVars, BlockInv, BlockedNeverMeet, TypeOK,
      SessTypeOK
<1>6. CASE SearchMatched(s)
  BY <1>6
  DEF SearchMatched, Go, BlockInv, BlockedNeverMeet, TypeOK, SessTypeOK
<1>7. CASE SearchQueued(s)
  BY <1>7
  DEF SearchQueued, Go, convVars, BlockInv, BlockedNeverMeet, TypeOK,
      SessTypeOK
<1>8. CASE WakePeer(s)
  BY <1>8
  DEF WakePeer, Go, BlockInv, BlockedNeverMeet, TypeOK, SessTypeOK
<1>9. CASE Woken(s)
  BY <1>9
  DEF Woken, Adopt, Go, BlockInv, BlockedNeverMeet, TypeOK, SessTypeOK
<1>10. CASE GiveUp(s)
  BY <1>10
  DEF GiveUp, Go, convVars, BlockInv, BlockedNeverMeet, TypeOK, SessTypeOK
<1>11. CASE SecureBlocked(s)
  BY <1>11
  DEF SecureBlocked, Ghost, Forget, Go, BlockInv, BlockedNeverMeet, TypeOK,
      SessTypeOK
<1>12. CASE SecureRefused(s)
  BY <1>12
  DEF SecureRefused, Ghost, Forget, Go, BlockInv, BlockedNeverMeet, TypeOK,
      SessTypeOK
<1>13. CASE EnterChat(s)
  BY <1>13, HubAssumption
  DEF EnterChat, Go, BlockInv, BlockedNeverMeet, IsBlocked, ShapeOK, Shape,
      TypeOK, SessTypeOK
<1>14. CASE ReadLeft(s)
  BY <1>14
  DEF ReadLeft, BlockInv, BlockedNeverMeet, TypeOK, SessTypeOK
<1>15. CASE HumanArrives(s)
  BY <1>15
  DEF HumanArrives, ArrivalWatched, Adopt, Go, BlockInv, BlockedNeverMeet,
      TypeOK, SessTypeOK
<1>16. CASE SecondBot(s)
  BY <1>16
  DEF SecondBot, ArrivalWatched, BlockInv, BlockedNeverMeet, TypeOK,
      SessTypeOK
<1>17. CASE Close(s)
  BY <1>17
  DEF Close, Go, convVars, BlockInv, BlockedNeverMeet, TypeOK, SessTypeOK
<1>18. CASE Connect(s)
  BY <1>18
  DEF Connect, Go, convVars, BlockInv, BlockedNeverMeet, TypeOK, SessTypeOK
<1>19. CASE NextPeer(s)
  BY <1>19
  DEF NextPeer, SearchAgain, LeaveChat, Go, Forget, BlockInv,
      BlockedNeverMeet, TypeOK, SessTypeOK
<1>20. CASE Report(s)
  BY <1>20
  DEF Report, SearchAgain, LeaveChat, Go, Forget, BlockInv, BlockedNeverMeet,
      TypeOK, SessTypeOK
<1>21. CASE HangUpChat(s)
  BY <1>21
  DEF HangUpChat, LeaveChat, Go, Forget, BlockInv, BlockedNeverMeet, TypeOK,
      SessTypeOK
<1>22. CASE HangUpAwait(s)
  BY <1>22
  DEF HangUpAwait, Go, convVars, BlockInv, BlockedNeverMeet, TypeOK,
      SessTypeOK
<1>23. QED
  BY <1>1, <1>2, <1>3, <1>4, <1>5, <1>6, <1>7, <1>8, <1>9, <1>10, <1>11,
     <1>12, <1>13, <1>14, <1>15, <1>16, <1>17, <1>18, <1>19, <1>20, <1>21,
     <1>22 DEF Serve, Choose

\* So that holds in every reachable state without a tutor mode.
LEMMA BlockInvHolds ==
  ASSUME TutorMode = {}
  PROVE  Spec => []BlockInv
<1>1. Init => BlockInv
  BY DEF Init, BlockInv, BlockedNeverMeet
<1>2. TypeInv /\ BlockInv /\ [Next]_vars => BlockInv'
  <2> SUFFICES ASSUME TypeInv, BlockInv, [Next]_vars PROVE BlockInv'
    OBVIOUS
  <2>1. ASSUME NEW s \in Sessions, Serve(s) \/ Choose(s) PROVE BlockInv'
    BY <2>1, SessionBlocks
  <2>2. CASE UNCHANGED sessVars
    BY <2>2 DEF sessVars, convVars, BlockInv, BlockedNeverMeet
  <2>3. QED
    BY <2>1, <2>2 DEF Next, ServeBot, StopBot, Goodbye, vars
<1>3. QED
  BY <1>1, <1>2, TypeInvHolds, PTL DEF Spec

\* Where nobody ticks the tutor box, whoever reported a partner never is in a
\* conversation with it again.
THEOREM BlockedNeverMeetHolds ==
  ASSUME TutorMode = {}
  PROVE  Spec => []BlockedNeverMeet
<1>1. BlockInv => BlockedNeverMeet
  BY DEF BlockInv
<1>2. QED
  BY <1>1, BlockInvHolds, PTL

------------------------------------------------------------------------------
(***************************************************************************)
(* Refinement: what the sessions hold of each other implements Pairing.    *)
(***************************************************************************)
\* A session is told of, pops and talks with those who speak what it wants, and
\* holds a room with a human only.
MirrorOK(s) ==
    /\ kind[s] = "human" \/ pc[s] = "matched" => Mirror(s, peer[s])
    /\ HasEvent(s) /\ inbox[s].from \in Sessions => Mirror(s, inbox[s].from)
    /\ room[s] # None => kind[s] = "human"

MirrorInv == \A s \in Sessions : MirrorOK(s)

\* Every step of a session goes from one queue to its mirror.
LEMMA SessionMirrors ==
  ASSUME TypeInv, RoomInv, BlockInv, MirrorInv, NEW s \in Sessions, Serve(s) \/ Choose(s)
  PROVE  MirrorInv'
<1> USE DEF TypeInv, MirrorInv, MirrorOK, HasEvent, Mirror, TypeOK, HubTypeOK, SessTypeOK
<1>1. CASE Drain(s)
  BY <1>1, HubAssumption, EventAssumption
  DEF Drain, Go, Dismiss, hubVars, Receive
<1>2. CASE CallTutor(s)
  BY <1>2, HubAssumption, EventAssumption
  DEF CallTutor, Go, hubVars, convVars, ShapeOK, Shape
<1>3. CASE MeetTutor(s)
  BY <1>3, HubAssumption, EventAssumption
  DEF MeetTutor, Go, BlockInv
<1>4. CASE NoTutor(s)
  BY <1>4, HubAssumption, EventAssumption
  DEF NoTutor, Go, hubVars, convVars, ShapeOK, Shape
<1>5. CASE SearchRefused(s)
  BY <1>5, HubAssumption, EventAssumption
  DEF SearchRefused, Go, hubVars, convVars, ShapeOK, Shape
<1>6. CASE SearchMatched(s)
  BY <1>6, HubAssumption, EventAssumption
  DEF SearchMatched, Go, PopPeer, Candidates, hubVars, ShapeOK, Shape
<1>7. CASE SearchQueued(s)
  BY <1>7, HubAssumption, EventAssumption
  DEF SearchQueued, Go, hubVars, convVars, ShapeOK, Shape
<1>8. CASE WakePeer(s)
  BY <1>8, HubAssumption, EventAssumption
  DEF WakePeer, Go, Wakeup, CanWakeup, hubVars, ShapeOK, Shape, RoomInv, InRoom
<1>9. CASE Woken(s)
  BY <1>9, HubAssumption, EventAssumption
  DEF Woken, Go, Adopt, Receive, RoomInv, EventOK, Event, ShapeOK, Shape
<1>10. CASE GiveUp(s)
  BY <1>10, HubAssumption, EventAssumption
  DEF GiveUp, Go, hubVars, convVars, ShapeOK, Shape
<1>11. CASE SecureBlocked(s)
  BY <1>11, HubAssumption, EventAssumption
  DEF SecureBlocked, Go, Ghost, Forget, hubVars, ShapeOK, Shape
<1>12. CASE SecureRefused(s)
  BY <1>12, HubAssumption, EventAssumption
  DEF SecureRefused, Go, Ghost, Forget, hubVars, ShapeOK, Shape
<1>13. CASE EnterChat(s)
  BY <1>13, HubAssumption, EventAssumption
  DEF EnterChat, Go, hubVars, ShapeOK, Shape
<1>14. CASE ReadLeft(s)
  BY <1>14, HubAssumption, EventAssumption
  DEF ReadLeft, Go, hubVars, ShapeOK, Shape
<1>15. CASE HumanArrives(s)
  BY <1>15, HubAssumption, EventAssumption
  DEF HumanArrives, Go, Adopt, Receive, ShapeOK, Shape, RoomInv, EventOK, Event
<1>16. CASE SecondBot(s)
  BY <1>16, HubAssumption, EventAssumption
  DEF SecondBot, Go, Dismiss, Receive, ShapeOK, Shape
<1>17. CASE Close(s)
  BY <1>17, HubAssumption, EventAssumption
  DEF Close, Go, Unregister, convVars, ShapeOK, Shape
<1>18. CASE Connect(s)
  BY <1>18, HubAssumption, EventAssumption
  DEF Connect, Go, Register, convVars, ShapeOK, Shape
<1>19. CASE NextPeer(s)
  BY <1>19, HubAssumption, EventAssumption
  DEF NextPeer, Go, SearchAgain, LeaveChat, Forget, hubVars, ShapeOK, Shape
<1>20. CASE Report(s)
  BY <1>20, HubAssumption, EventAssumption
  DEF Report, Go, SearchAgain, LeaveChat, Forget, hubVars, ShapeOK, Shape
<1>21. CASE HangUpChat(s)
  BY <1>21, HubAssumption, EventAssumption
  DEF HangUpChat, Go, LeaveChat, Forget, hubVars, ShapeOK, Shape
<1>22. CASE HangUpAwait(s)
  BY <1>22, HubAssumption, EventAssumption
  DEF HangUpAwait, Go, hubVars, convVars, ShapeOK, Shape
<1>23. QED
  BY <1>1, <1>2, <1>3, <1>4, <1>5, <1>6, <1>7, <1>8, <1>9, <1>10, <1>11, <1>12, <1>13, <1>14, <1>15, <1>16, <1>17, <1>18, <1>19, <1>20, <1>21, <1>22
  DEF Serve, Choose

\* Everybody's queues agree, in every reachable state without a tutor mode.
LEMMA MirrorInvHolds ==
  ASSUME TutorMode = {}
  PROVE  Spec => [](TypeInv /\ RoomInv /\ BlockInv /\ MirrorInv)
<1>1. Init => MirrorInv
  BY DEF Init, HubInit, MirrorInv, MirrorOK, HasEvent
<1>2. TypeInv /\ RoomInv /\ BlockInv /\ MirrorInv /\ [Next]_vars => MirrorInv'
  <2> SUFFICES ASSUME TypeInv, RoomInv, BlockInv, MirrorInv, [Next]_vars PROVE MirrorInv'
    OBVIOUS
  <2>1. ASSUME NEW s \in Sessions, Serve(s) \/ Choose(s) PROVE MirrorInv'
    BY <2>1, SessionMirrors
  <2>2. ASSUME NEW b \in Bots, ServeBot(b) \/ StopBot(b) \/ Goodbye(b) PROVE MirrorInv'
    <3>1. UNCHANGED sessVars
      BY <2>2 DEF ServeBot, StopBot, Goodbye
    <3>2. CASE UNCHANGED hubVars
      BY <3>1, <3>2 DEF sessVars, convVars, hubVars, MirrorInv, MirrorOK, Mirror, HasEvent
    <3>3. CASE Wakeup(user[b], b, None)
      BY <3>1, <3>3, HubAssumption DEF sessVars, convVars, Wakeup, TypeInv, TypeOK, HubTypeOK,
         MirrorInv, MirrorOK, Mirror, HasEvent
    <3>4. QED
      BY <2>2, <3>2, <3>3 DEF ServeBot, StopBot, Goodbye, BotStep, Fire, AttemptSpawn,
         BeginNow, CheckWaiting, StartBot, EndBot
  <2>3. CASE UNCHANGED vars
    BY <2>3 DEF vars, hubVars, sessVars, convVars, MirrorInv, MirrorOK, Mirror, HasEvent
  <2>4. QED
    BY <2>1, <2>2, <2>3 DEF Next
<1>3. QED
  BY <1>1, <1>2, TypeInvHolds, RoomInvHolds, BlockInvHolds, PTL DEF Spec

\* A conversation is between a session and its partner, one each.
LEMMA TalkingOf ==
  ASSUME RoomInv, NEW pair \in Talking, NEW s \in pair
  PROVE  /\ peer[s] \in Sessions /\ s \in Sessions /\ pair = {s, peer[s]}
         /\ Together(s, peer[s]) /\ peer[peer[s]] = s
<1>1. PICK a \in Sessions, b \in Sessions : pair = {a, b}
  BY DEF Talking
<1>2. PICK x \in pair, y \in pair : Together(x, y)
  BY DEF Talking
<1>3. x \in Sessions /\ y \in Sessions /\ x # y /\ pair = {x, y}
  BY <1>1, <1>2 DEF Together
<1>4. peer[x] = y /\ peer[y] = x
  BY <1>2, <1>3 DEF Together, RoomInv, RoomsAgree
<1>5. Together(y, x)
  BY <1>2 DEF Together
<1>6. QED
  BY <1>2, <1>3, <1>4, <1>5

\* Two sessions that have joined the same room are one of the conversations.
LEMMA TogetherTalks ==
  ASSUME NEW s \in Sessions, NEW p \in Sessions, Together(s, p)
  PROVE  {s, p} \in Talking
BY DEF Talking

\* The conversations depend on who is in which room.
LEMMA TalkingKept ==
  ASSUME \A s, p \in Sessions : Together(s, p)' <=> Together(s, p)
  PROVE  Talking' = Talking
BY DEF Talking

\* A session that is in no conversation, and goes where there is none.
LEMMA TalkingElsewhere ==
  ASSUME TypeInv, NEW s \in Sessions, pc[s] # "chat", pc'[s] # "chat",
         \A p \in Sessions \ {s} : pc'[p] = pc[p] /\ room'[p] = room[p]
  PROVE  Talking' = Talking
BY TalkingKept DEF Together

\* A session that leaves takes its conversation with it, and no other.
LEMMA TalkingLeaves ==
  ASSUME RoomInv, NEW s \in Sessions, pc[s] = "chat", pc'[s] # "chat",
         \A p \in Sessions \ {s} : pc'[p] = pc[p] /\ room'[p] = room[p]
  PROVE  /\ Talking' = Talking \ {{s, peer[s]}}
         /\ \A pair \in Talking : s \in pair => pair = {s, peer[s]}
<1>1. \A x, y \in Sessions : Together(x, y)' <=> (x # s /\ y # s /\ Together(x, y))
  BY DEF Together
<1>2. ASSUME NEW pair \in Talking'
      PROVE  pair \in Talking /\ pair # {s, peer[s]}
  <2>1. PICK a \in Sessions, b \in Sessions : pair = {a, b}
    BY DEF Talking
  <2>2. PICK x \in pair, y \in pair : Together(x, y)'
    BY DEF Talking
  <2>3. x \in Sessions /\ y \in Sessions /\ pair = {x, y}
    BY <2>1, <2>2 DEF Together
  <2>4. x # s /\ y # s /\ Together(x, y)
    BY <1>1, <2>2, <2>3
  <2>5. QED
    BY <2>3, <2>4, TogetherTalks
<1>3. ASSUME NEW pair \in Talking, pair # {s, peer[s]}
      PROVE  pair \in Talking'
  <2>1. PICK x \in pair, y \in pair : Together(x, y)
    BY DEF Talking
  <2>2. s \notin pair
    BY <1>3, TalkingOf
  <2>3. pair \in {{a, b} : a \in Sessions, b \in Sessions} /\ x \in Sessions /\ y \in Sessions
    <3>1. PICK a \in Sessions, b \in Sessions : pair = {a, b}
      BY DEF Talking
    <3>2. x \in Sessions /\ y \in Sessions
      BY <3>1
    <3>3. QED
      BY <3>1, <3>2
  <2>4. Together(x, y)'
    BY <1>1, <2>1, <2>2, <2>3
  <2>5. QED
    BY <2>3, <2>4 DEF Talking
<1>4. QED
  BY <1>2, <1>3, TalkingOf

\* Entering a room where the partner is makes a conversation that Pairing allows;
\* entering an empty one makes none.
LEMMA EnterMeets ==
  ASSUME TypeInv, RoomInv, BlockInv, MirrorInv, NEW s \in Sessions, EnterChat(s)
  PROVE  [Abstract!PairingNext]_<<Talking, blocked>>
<1> DEFINE p == peer[s]
<1>1. /\ pc[s] = "secure" /\ pc'[s] = "chat" /\ UNCHANGED <<peer, room, blocked>>
      /\ \A q \in Sessions \ {s} : pc'[q] = pc[q]
  BY DEF EnterChat, Go, TypeInv, TypeOK, SessTypeOK
<1>2. \A pair \in Talking : s \notin pair
  BY <1>1, TalkingOf DEF Together
<1>3. CASE \E q \in Sessions \ {s} : pc[q] = "chat" /\ room[s] # None /\ room[q] = room[s]
  <2>1. /\ p \in Sessions /\ p # s /\ peer[p] = s /\ pc[p] = "chat"
        /\ room[s] # None /\ room[p] = room[s]
    BY <1>3 DEF RoomInv, RoomsAgree
  <2>2. \A q \in Sessions \ {s} : room[q] = room[s] => q = p
    BY <2>1 DEF RoomInv, RoomsAgree
  <2>3. /\ Speaks[s] = Wants[p] /\ Speaks[p] = Wants[s] /\ kind[s] = "human"
    BY <2>1 DEF MirrorInv, MirrorOK, Mirror
  <2>4. <<s, p>> \notin blocked
    BY <2>3 DEF EnterChat, IsBlocked
  <2>5. <<p, s>> \notin blocked
    BY <2>1 DEF BlockInv, BlockedNeverMeet
  <2>6. \A pair \in Talking : p \notin pair
    BY <1>2, <2>1, TalkingOf
  <2>7. Talking' = Talking \cup {{s, p}}
    <3>1. \A x, y \in Sessions : Together(x, y)' <=> Together(x, y) \/ (x # y /\ {x, y} = {s, p})
      BY <1>1, <2>1, <2>2 DEF Together
    <3>2. ASSUME NEW pair \in Talking' PROVE pair \in Talking \cup {{s, p}}
      <4>1. PICK a \in Sessions, b \in Sessions : pair = {a, b}
        BY DEF Talking
      <4>2. PICK x \in pair, y \in pair : Together(x, y)'
        BY DEF Talking
      <4>3. x \in Sessions /\ y \in Sessions /\ x # y /\ pair = {x, y}
        BY <4>1, <4>2 DEF Together
      <4>4. QED
        BY <3>1, <4>2, <4>3, TogetherTalks
    <3>3. Talking \subseteq Talking'
      BY <3>1 DEF Talking
    <3>4. {s, p} \in Talking'
      <4>1. p' = p /\ Together(s, p)'
        BY <1>1, <2>1 DEF Together
      <4>2. {s, p} \in {{a, b} : a \in Sessions, b \in Sessions}
        BY <2>1
      <4>3. QED
        BY <4>1, <4>2 DEF Talking
    <3>5. QED
      BY <3>2, <3>3, <3>4
  <2>8. Abstract!Meet(s, p)
    BY <1>1, <1>2, <2>1, <2>3, <2>4, <2>5, <2>6, <2>7 DEF Abstract!Meet, Abstract!Alone
  <2>9. QED
    BY <2>1, <2>8 DEF Abstract!PairingNext
<1>4. CASE ~ \E q \in Sessions \ {s} : pc[q] = "chat" /\ room[s] # None /\ room[q] = room[s]
  <2>1. Talking' = Talking
    BY <1>1, <1>4, TalkingKept DEF Together
  <2>2. QED
    BY <1>1, <2>1
<1>5. QED
  BY <1>3, <1>4

\* Next and a closed connection are leaving, a report is denouncing.
LEMMA LeaveDenounces ==
  ASSUME TypeInv, RoomInv, MirrorInv, NEW s \in Sessions,
         NextPeer(s) \/ Report(s) \/ HangUpChat(s) \/ HumanArrives(s)
  PROVE  [Abstract!PairingNext]_<<Talking, blocked>>
<1> DEFINE p == peer[s]
<1>1. /\ pc[s] = "chat" /\ pc'[s] # "chat"
      /\ \A q \in Sessions \ {s} : pc'[q] = pc[q] /\ room'[q] = room[q]
  BY DEF NextPeer, Report, HangUpChat, HumanArrives, SearchAgain, LeaveChat, Forget, Adopt, Go,
     TypeInv, TypeOK, SessTypeOK
<1>2. /\ Talking' = Talking \ {{s, p}}
      /\ \A pair \in Talking : s \in pair => pair = {s, p}
  BY <1>1, TalkingLeaves
<1>3. CASE blocked' = blocked
  <2>1. CASE {s, p} \in Talking
    <3>1. Abstract!Leave({s, p})
      BY <1>2, <1>3, <2>1 DEF Abstract!Leave
    <3>2. QED
      BY <2>1, <3>1 DEF Abstract!PairingNext
  <2>2. CASE {s, p} \notin Talking
    BY <1>2, <1>3, <2>2
  <2>3. QED
    BY <2>1, <2>2
<1>4. CASE blocked' = blocked \cup {<<s, p>>} /\ kind[s] = "human"
  <2>1. p \in Sessions /\ Mirror(s, p)
    BY <1>4 DEF TypeInv, ShapeOK, Shape, MirrorInv, MirrorOK
  <2>2. p # s
    BY <2>1, MatcherAssumption DEF Mirror
  <2>3. Abstract!Denounce(s, p)
    BY <1>2, <1>4, <2>2 DEF Abstract!Denounce
  <2>4. QED
    BY <2>1, <2>3 DEF Abstract!PairingNext
<1>5. QED
  BY <1>3, <1>4 DEF NextPeer, Report, HangUpChat, HumanArrives

\* Everything else a session does is nobody's conversation.
LEMMA SessionStutters ==
  ASSUME TypeInv, BlockInv, NEW s \in Sessions, Serve(s) \/ Choose(s),
         ~EnterChat(s), ~NextPeer(s), ~Report(s), ~HangUpChat(s), ~HumanArrives(s)
  PROVE  Talking' = Talking /\ blocked' = blocked
<1>1. CASE ReadLeft(s) \/ SecondBot(s)
  <2>1. UNCHANGED <<pc, room, blocked>>
    BY <1>1 DEF ReadLeft, SecondBot
  <2>2. QED
    BY <2>1, TalkingKept DEF Together
<1>2. CASE ~ReadLeft(s) /\ ~SecondBot(s)
  <2>1. /\ pc[s] # "chat" /\ pc'[s] # "chat" /\ blocked' = blocked
        /\ \A q \in Sessions \ {s} : pc'[q] = pc[q] /\ room'[q] = room[q]
    BY <1>2 DEF Serve, Choose, Drain, CallTutor, MeetTutor, NoTutor, SearchRefused, SearchMatched,
       SearchQueued, WakePeer, Woken, GiveUp, SecureBlocked, SecureRefused, Ghost, Forget, Adopt,
       Close, Connect, HangUpAwait, Go, convVars, BlockInv, TypeInv, TypeOK, SessTypeOK
  <2>2. QED
    BY <2>1, TalkingElsewhere
<1>3. QED
  BY <1>1, <1>2

\* Where nobody ticks the tutor box, matching implements Pairing: people talk two
\* by two, with somebody who speaks what they want, and never again with somebody
\* one of the two has reported.
THEOREM PairsOnlyHolds ==
  ASSUME TutorMode = {}
  PROVE  Spec => PairsOnly
<1>1. Init => Abstract!PairingInit
  BY DEF Init, Abstract!PairingInit, Talking, Together
<1>2. TypeInv /\ RoomInv /\ BlockInv /\ MirrorInv /\ [Next]_vars
          => [Abstract!PairingNext]_<<Talking, blocked>>
  <2> SUFFICES ASSUME TypeInv, RoomInv, BlockInv, MirrorInv, [Next]_vars
               PROVE  [Abstract!PairingNext]_<<Talking, blocked>>
    OBVIOUS
  <2>1. ASSUME NEW s \in Sessions, Serve(s) \/ Choose(s)
        PROVE  [Abstract!PairingNext]_<<Talking, blocked>>
    BY <2>1, EnterMeets, LeaveDenounces, SessionStutters
  <2>2. CASE UNCHANGED sessVars
    <3>1. Talking' = Talking /\ blocked' = blocked
      BY <2>2, TalkingKept DEF sessVars, convVars, Together
    <3>2. QED
      BY <3>1
  <2>3. QED
    BY <2>1, <2>2 DEF Next, ServeBot, StopBot, Goodbye, vars
<1>3. QED
  BY <1>1, <1>2, MirrorInvHolds, PTL DEF Spec, PairsOnly, Abstract!PairingSpec
==============================================================================
