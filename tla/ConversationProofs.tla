-------------------------- MODULE ConversationProofs --------------------------
(***************************************************************************)
(* Theorems about the parts of the client that surround a conversation:    *)
(* the controls, the composer, the reading aids, the friend panel and the  *)
(* tandem session.                                                         *)
(* Each part has an inductive invariant, the conjunction of its types and  *)
(* of what relates its state to the steps that led to it.                  *)
(***************************************************************************)
EXTENDS ChatControls, Composer, Reading, FriendPanel, Tandem, CollectionLemmas

-----------------------------------------------------------------------------
(* The controls *)

News(f) == f.type \in {"queued", "matched"}

\* The session is with the partner on the page, and no frame says otherwise.
SamePartner ==
    InRoom /\ sess.partner = talk.partner /\ \A k \in DOMAIN downFrames : ~News(downFrames[k])

\* A session leaves a partner for a frame only, and the frame of the next partner is the
\* last news on its way to the page.
Followed ==
    /\ Len(upFrames) <= 1
    /\ upFrames # <<>> => askedOnce /\ SamePartner /\ upFrames[1].meant = talk.partner
    /\ ~askedOnce /\ chatPage # "gone" => SamePartner
    /\ \A k \in DOMAIN downFrames :
         downFrames[k].type = "matched" =>
           /\ InRoom /\ downFrames[k].partner = sess.partner
           /\ \A j \in DOMAIN downFrames : j > k => ~News(downFrames[j])

ControlsInv ==
    /\ ControlsTypeOK /\ nextArmed \in {0, talk.partner}
    /\ ~relieved /\ ~doubled => Followed

LEMMA ControlsConstants ==
    /\ MaxPartners \in Nat \ {0} /\ Countdown \in Nat \ {0} /\ MaxTalk \in Nat \ {0}
    /\ UpCap \in Nat \ {0} /\ DownCap \in Nat \ {0}
BY ChatControlsAssumption DEF ChatControlsAssumption

\* The store's account of the conversation and the session keep their types.
LEMMA TalkEdited ==
  ASSUME talk \in Talks
  PROVE  /\ \A status \in {"queued", "matched", "post_chat", "ended"} :
              /\ [talk EXCEPT !.status = status] \in Talks
              /\ [talk EXCEPT !.status = status].partner = talk.partner
              /\ [talk EXCEPT !.status = status, !.lines = Longer] \in Talks
              /\ [talk EXCEPT !.status = status, !.lines = Longer].partner = talk.partner
         /\ [talk EXCEPT !.lines = Longer] \in Talks
         /\ [talk EXCEPT !.lines = Longer].partner = talk.partner
         /\ talk.partner \in 0..MaxPartners
<1>1. Longer \in 0..MaxTalk
      BY ControlsConstants DEF Longer, Talks
<1> QED BY <1>1 DEF Talks

LEMMA SessEdited ==
  ASSUME sess \in Sessions
  PROVE  /\ \A at \in {"looking", "queued", "chat", "left", "over"} :
              /\ [sess EXCEPT !.at = at] \in Sessions
              /\ [sess EXCEPT !.at = at].partner = sess.partner
              /\ [sess EXCEPT !.at = at].at = at
              /\ sess.at = at => sess = [sess EXCEPT !.at = at]
         /\ sess.partner \in 0..MaxPartners /\ sess.kind \in PeerKinds
BY DEF Sessions

LEMMA ControlsGive == ControlsInv => ControlsTypeOK /\ NextForThisPartner
<1> SUFFICES ASSUME ControlsInv PROVE NextForThisPartner
    BY DEF ControlsInv
<1>1. ASSUME ~relieved, ~doubled, NEW k \in DOMAIN upFrames
      PROVE  upFrames[k].meant = sess.partner
  <2>1. Followed /\ upFrames \in Seq(Ups)
        BY <1>1 DEF ControlsInv, ControlsTypeOK
  <2>2. k = 1 /\ upFrames # <<>>
        BY <1>1, <2>1 DEF Followed
  <2> QED BY <2>1, <2>2 DEF Followed, SamePartner
<1> QED BY <1>1 DEF ControlsInv, NextForThisPartner

LEMMA ControlsStart == ControlsInit => ControlsInv
<1> SUFFICES ASSUME ControlsInit PROVE ControlsInv
    OBVIOUS
<1> USE ControlsConstants
<1>1. ControlsFlagsOK
      BY DEF ControlsInit, ControlsFlagsOK
<1>2. ControlsTypeOK
      BY <1>1 DEF ControlsInit, ControlsTypeOK, PeerKinds, Talks, Sessions
<1>3. Followed /\ nextArmed = 0
      BY DEF ControlsInit, Followed
<1> QED BY <1>2, <1>3 DEF ControlsInv

\* A frame more to the page, at the end.
LEMMA TellsGives ==
  ASSUME ControlsTypeOK, NEW type \in {"queued", "matched", "msg", "peer_left", "error"},
         NEW l, l.partner \in 0..MaxPartners, l.kind \in PeerKinds, Tells(type, l)
  PROVE  /\ downFrames' \in Seq(Downs) /\ Len(downFrames') <= DownCap
         /\ \A k \in DOMAIN downFrames' :
              \/ k \in DOMAIN downFrames /\ downFrames'[k] = downFrames[k]
              \/ /\ k = Len(downFrames) + 1 /\ downFrames'[k].type = type
                 /\ downFrames'[k].partner = l.partner
         /\ UNCHANGED <<ChatPage, Buttons, Widgets>>
<1> DEFINE f == [type |-> type, partner |-> l.partner, kind |-> l.kind]
<1>1. f \in Downs /\ downFrames \in Seq(Downs) /\ downFrames' = Append(downFrames, f)
      BY DEF Downs, ControlsTypeOK, Tells
<1>2. Len(downFrames') = Len(downFrames) + 1 /\ Len(downFrames) \in Nat
      BY <1>1
<1>3. Len(downFrames') <= DownCap
      BY <1>2, ControlsConstants DEF Tells
<1> HIDE DEF f
<1>4. /\ downFrames' \in Seq(Downs)
      /\ \A k \in DOMAIN downFrames' :
              \/ k \in DOMAIN downFrames /\ downFrames'[k] = downFrames[k]
              \/ k = Len(downFrames) + 1 /\ downFrames'[k] = f
      BY <1>1, Queued
<1> QED BY <1>3, <1>4 DEF f, Tells

\* A frame more to the session.
LEMMA AsksGives ==
  ASSUME ControlsInv, NEW type \in {"next", "report"}, Mounted, Asks(type)
  PROVE  /\ upFrames' \in Seq(Ups) /\ Len(upFrames') <= UpCap
         /\ askedOnce' \in BOOLEAN /\ doubled' \in BOOLEAN
         /\ ~relieved' /\ ~doubled' => Followed'
<1> DEFINE f == [type |-> type, meant |-> talk.partner]
<1>1. f \in Ups /\ upFrames \in Seq(Ups) /\ upFrames' = Append(upFrames, f)
      BY TalkEdited DEF Ups, ControlsInv, ControlsTypeOK, Asks
<1>2. Len(upFrames') = Len(upFrames) + 1 /\ Len(upFrames) \in Nat /\ upFrames' \in Seq(Ups)
      BY <1>1
<1>3. Len(upFrames') <= UpCap
      BY <1>2, ControlsConstants DEF Asks
<1>4. askedOnce' \in BOOLEAN /\ doubled' \in BOOLEAN
      BY DEF Asks, ControlsInv, ControlsTypeOK, ControlsFlagsOK
<1>5. ASSUME ~relieved', ~doubled' PROVE Followed'
  <2>1. ~relieved /\ ~doubled /\ ~askedOnce /\ Followed
        BY <1>5 DEF Asks, Loop, ControlsInv
  <2>2. SamePartner /\ upFrames = <<>>
        BY <2>1 DEF Followed, Mounted
  <2>3. SamePartner'
        BY <2>2 DEF SamePartner, InRoom, News, Asks, ChatPage, Loop
  <2>4. Len(upFrames') = 1 /\ upFrames'[1] = f
        BY <1>1, <2>2
  <2> QED BY <2>1, <2>2, <2>3, <2>4 DEF Followed, SamePartner, Asks, f, ChatPage
<1> QED BY <1>2, <1>3, <1>4, <1>5

\* The conversation is over.
LEMMA StoppedKeeps == ASSUME ControlsInv, Stopped PROVE ControlsInv'
<1> USE ControlsConstants
<1>1. ControlsFlagsOK'
      BY DEF ControlsInv, ControlsTypeOK, Stopped, Unmounted, ControlsFlagsOK
<1>2. ControlsTypeOK'
  <2>1. talk' \in Talks /\ sess' \in Sessions
        BY TalkEdited, SessEdited DEF ControlsInv, ControlsTypeOK, Stopped
  <2> QED BY <1>1, <2>1 DEF ControlsInv, ControlsTypeOK, Stopped, Unmounted
<1>3. Followed' /\ nextArmed' = 0
      BY DEF Stopped, Unmounted, Followed
<1> QED BY <1>2, <1>3 DEF ControlsInv

\* A step of the page alone.
LEMMA QuietPage ==
  ASSUME ControlsInv, UNCHANGED <<Asking, downFrames, Loop, cooling>>,
         talk' \in Talks,
         talk'.partner = talk.partner,
         chatPage' \in {"gone", "shown", "leaving", "away"},
         chatPage = "gone" => chatPage' = "gone",
         nextArmed' \in {0, talk.partner}, quitArmed' \in 0..MaxPartners,
         guard' \in 0..Countdown, report' \in {"closed", "form", "sent"},
         closeDue' \in BOOLEAN, waiting' \in BOOLEAN
  PROVE  ControlsInv'
<1>1. ControlsFlagsOK'
      BY DEF ControlsInv, ControlsTypeOK, ControlsFlagsOK, Asking, Loop
<1>2. nextArmed' \in 0..MaxPartners
      BY TalkEdited, ControlsConstants DEF ControlsInv, ControlsTypeOK
<1>3. ControlsTypeOK'
      BY <1>1, <1>2 DEF ControlsInv, ControlsTypeOK, Asking, Loop
<1>4. Followed => Followed'
      BY DEF Followed, SamePartner, InRoom, News, Asking, Loop
<1> QED BY <1>3, <1>4 DEF ControlsInv, Asking, Loop

\* A step of the session that sends no frame, or the given one.
LEMMA SessionKeeps ==
  ASSUME ControlsInv, UNCHANGED <<ChatPage, Buttons, Widgets>>,
         sess' \in Sessions,
         downFrames' \in Seq(Downs), Len(downFrames') <= DownCap,
         upFrames' \in Seq(Ups), Len(upFrames') <= UpCap,
         askedOnce' = askedOnce, doubled' = doubled, relieved' \in BOOLEAN,
         ~relieved' /\ ~doubled => Followed'
  PROVE  ControlsInv'
<1>1. ControlsFlagsOK'
      BY DEF ControlsInv, ControlsTypeOK, ControlsFlagsOK, Widgets, Buttons
<1>2. ControlsTypeOK'
      BY <1>1 DEF ControlsInv, ControlsTypeOK, ChatPage, Widgets, Buttons
<1> QED BY <1>2 DEF ControlsInv, ChatPage, Buttons

\* The session finds a partner, waits, is told what the partner does, gives up.
LEMMA SessionSteps ==
  ASSUME ControlsInv,
         \/ \E kind \in PeerKinds : Meet(kind)
         \/ Wait \/ PeerSays \/ PartnerLeaves \/ GiveUp
  PROVE  ControlsInv'
<1>t. ControlsTypeOK
      BY DEF ControlsInv
<1>1. ASSUME NEW kind \in PeerKinds, Meet(kind) PROVE ControlsInv'
  <2>1. sess' = [at |-> "chat", partner |-> sess.partner + 1, kind |-> kind]
        BY <1>1 DEF Meet
  <2>2. sess'.partner \in 0..MaxPartners /\ sess'.kind \in PeerKinds
        BY <1>t, <1>1, <2>1, SessEdited, ControlsConstants DEF Meet, ControlsTypeOK
  <2>3. Tells("matched", sess')
        BY <1>1 DEF Meet
  <2>4. /\ downFrames' \in Seq(Downs) /\ Len(downFrames') <= DownCap
        /\ \A k \in DOMAIN downFrames' :
              \/ k \in DOMAIN downFrames /\ downFrames'[k] = downFrames[k]
              \/ /\ k = Len(downFrames) + 1 /\ downFrames'[k].type = "matched"
                 /\ downFrames'[k].partner = sess'.partner
        /\ UNCHANGED <<ChatPage, Buttons, Widgets>>
        BY <1>t, <2>2, <2>3, TellsGives
  <2>5. ASSUME ~relieved', ~doubled PROVE Followed'
    <3>1. Followed /\ ~InRoom /\ InRoom'
          BY <1>1, <2>1, <2>5 DEF Meet, InRoom, ControlsInv
    <3>2. /\ upFrames = <<>> /\ (askedOnce \/ chatPage = "gone")
          /\ \A k \in DOMAIN downFrames : downFrames[k].type # "matched"
          BY <3>1 DEF Followed, SamePartner
    <3>3. \A k \in DOMAIN downFrames' :
             downFrames'[k].type = "matched" =>
               downFrames'[k].partner = sess'.partner /\ k = Len(downFrames) + 1
          BY <2>4, <3>2
    <3>4. \A j \in DOMAIN downFrames' : j <= Len(downFrames) + 1
      <4>1. downFrames \in Seq(Downs)
            BY <1>t DEF ControlsTypeOK
      <4> QED BY <2>4, <4>1
    <3>5. DOMAIN downFrames' \subseteq Nat /\ Len(downFrames) \in Nat
          BY <1>t, <2>4 DEF ControlsTypeOK
    <3> QED BY <1>1, <2>4, <3>1, <3>2, <3>3, <3>4, <3>5 DEF Followed, Meet, Asking, ChatPage
  <2>6. sess' \in Sessions
        BY <2>1, <2>2 DEF Sessions
  <2> QED BY <1>t, <1>1, <2>4, <2>5, <2>6, SessionKeeps
          DEF Meet, Asking, ControlsTypeOK, ControlsFlagsOK
<1>2. ASSUME NEW type \in {"queued", "msg", "peer_left", "error"}, Tells(type, sess),
             UNCHANGED <<Asking, relieved>>,
             \E at \in {"queued", "chat", "left", "over"} : sess' = [sess EXCEPT !.at = at],
             (~InRoom /\ ~InRoom') \/ (InRoom /\ InRoom' /\ type # "queued")
      PROVE  ControlsInv'
  <2>1. sess.partner \in 0..MaxPartners /\ sess.kind \in PeerKinds
        BY <1>t, SessEdited DEF ControlsTypeOK
  <2>2. /\ downFrames' \in Seq(Downs) /\ Len(downFrames') <= DownCap
        /\ \A k \in DOMAIN downFrames' :
              \/ k \in DOMAIN downFrames /\ downFrames'[k] = downFrames[k]
              \/ /\ k = Len(downFrames) + 1 /\ downFrames'[k].type = type
                 /\ downFrames'[k].partner = sess.partner
        /\ UNCHANGED <<ChatPage, Buttons, Widgets>>
        BY <1>t, <1>2, <2>1, TellsGives
  <2>3. /\ sess' \in Sessions
        /\ sess'.partner = sess.partner
        BY <1>t, <1>2, SessEdited DEF ControlsTypeOK
  <2>4. ASSUME ~relieved', ~doubled PROVE Followed'
    <3>1. Followed
          BY <1>2, <2>4 DEF ControlsInv
    <3>2. CASE ~InRoom /\ ~InRoom'
      <4>1. /\ upFrames = <<>> /\ (askedOnce \/ chatPage = "gone")
            /\ \A k \in DOMAIN downFrames : downFrames[k].type # "matched"
            BY <3>1, <3>2 DEF Followed, SamePartner
      <4>2. \A k \in DOMAIN downFrames' : downFrames'[k].type # "matched"
            BY <1>2, <2>2, <4>1
      <4> QED BY <1>2, <2>2, <4>1, <4>2 DEF Followed, Asking, ChatPage
    <3>3. CASE InRoom /\ InRoom' /\ type # "queued"
      <4>1. \A k \in DOMAIN downFrames' :
              News(downFrames'[k]) => k \in DOMAIN downFrames /\ downFrames'[k] = downFrames[k]
            BY <1>2, <2>2, <3>3 DEF News
      <4>2. SamePartner => SamePartner'
            BY <2>2, <2>3, <3>3, <4>1 DEF SamePartner, ChatPage
      <4>3. \A k \in DOMAIN downFrames' : downFrames'[k].type = "matched" =>
              /\ downFrames'[k].partner = sess'.partner
              /\ \A j \in DOMAIN downFrames' : j > k => ~News(downFrames'[j])
            BY <2>3, <3>1, <4>1 DEF Followed, News
      <4> QED BY <1>2, <2>2, <3>1, <3>3, <4>2, <4>3 DEF Followed, Asking, ChatPage
    <3> QED BY <1>2, <3>2, <3>3
  <2> QED BY <1>t, <1>2, <2>2, <2>3, <2>4, SessionKeeps
          DEF Asking, ControlsTypeOK, ControlsFlagsOK
<1>3. ASSUME Wait PROVE ControlsInv'
      BY <1>t, <1>2, <1>3 DEF Wait, InRoom, ControlsTypeOK
<1>4. ASSUME PeerSays PROVE ControlsInv'
  <2>1. sess' = [sess EXCEPT !.at = "chat"] /\ relieved' = relieved
        BY <1>t, <1>4, SessEdited DEF PeerSays, Loop, ControlsTypeOK
  <2> QED BY <1>2, <1>4, <2>1 DEF PeerSays, InRoom, Loop
<1>5. ASSUME PartnerLeaves PROVE ControlsInv'
      BY <1>t, <1>2, <1>5 DEF PartnerLeaves, InRoom, ControlsTypeOK
<1>6. ASSUME GiveUp PROVE ControlsInv'
      BY <1>t, <1>2, <1>6 DEF GiveUp, InRoom, ControlsTypeOK
<1> QED BY <1>1, <1>3, <1>4, <1>5, <1>6

\* A human comes while the AI fills the wait.
LEMMA TakeOverKeeps == ASSUME ControlsInv, TakeOver PROVE ControlsInv'
<1>t. ControlsTypeOK
      BY DEF ControlsInv
<1>0. relieved' = TRUE /\ UNCHANGED Asking
      BY DEF TakeOver
<1>u. upFrames' \in Seq(Ups) /\ Len(upFrames') <= UpCap
      BY <1>t, <1>0 DEF Asking, ControlsTypeOK
<1>1. CASE sess' = [sess EXCEPT !.at = "looking"] /\ UNCHANGED <<ChatPage, Buttons, Widgets, downFrames>>
      BY <1>t, <1>0, <1>u, <1>1, SessEdited, SessionKeeps DEF Asking, ControlsTypeOK
<1>2. CASE /\ sess.partner < MaxPartners
           /\ sess' = [at |-> "chat", partner |-> sess.partner + 1, kind |-> "human"]
           /\ Tells("matched", sess')
  <2>0. sess.partner \in 0..MaxPartners
        BY <1>t, SessEdited DEF ControlsTypeOK
  <2>1. sess'.partner \in 0..MaxPartners /\ sess'.kind \in PeerKinds
        BY <1>2, <2>0, ControlsConstants DEF PeerKinds
  <2>2. /\ downFrames' \in Seq(Downs) /\ Len(downFrames') <= DownCap
        /\ UNCHANGED <<ChatPage, Buttons, Widgets>>
        BY <1>t, <1>2, <2>1, TellsGives
  <2>3. sess' \in Sessions
        BY <1>2, <2>1 DEF Sessions
  <2> QED BY <1>0, <1>u, <2>2, <2>3, SessionKeeps DEF Asking
<1> QED BY <1>1, <1>2 DEF TakeOver

LEMMA ReadKeeps == ASSUME ControlsInv, ReadAsk PROVE ControlsInv'
<1>t. ControlsTypeOK /\ upFrames \in Seq(Ups) /\ downFrames \in Seq(Downs)
      BY DEF ControlsInv, ControlsTypeOK
<1>1. /\ upFrames' \in Seq(Ups) /\ Len(upFrames') = Len(upFrames) - 1
      /\ Len(upFrames) \in Nat \ {0}
      BY <1>t, Dequeued DEF ReadAsk
<1>2. Len(upFrames') <= UpCap
      BY <1>t, <1>1, ControlsConstants DEF ControlsTypeOK
<1>3. /\ sess' \in Sessions
      /\ sess'.partner = sess.partner
      /\ askedOnce' = askedOnce /\ doubled' = doubled /\ relieved' = relieved
      BY <1>t, SessEdited DEF ReadAsk, ControlsTypeOK
<1>4. ASSUME ~relieved, ~doubled
      PROVE  Followed /\ askedOnce /\ SamePartner /\ upFrames' = <<>>
      BY <1>1, <1>4 DEF Followed, ControlsInv, ReadAsk
<1>5. CASE UNCHANGED <<ChatPage, Buttons, Widgets, downFrames>>
  <2>1. ASSUME ~relieved', ~doubled PROVE Followed'
        BY <1>3, <1>4, <1>5, <2>1 DEF Followed, SamePartner, News
  <2> QED BY <1>t, <1>1, <1>2, <1>3, <1>5, <2>1, SessionKeeps DEF ControlsTypeOK, ControlsFlagsOK
<1>6. CASE UNCHANGED sess /\ Tells("error", sess)
  <2>1. sess.partner \in 0..MaxPartners /\ sess.kind \in PeerKinds
        BY <1>t, SessEdited DEF ControlsTypeOK
  <2>2. /\ downFrames' \in Seq(Downs) /\ Len(downFrames') <= DownCap
        /\ \A k \in DOMAIN downFrames' :
              \/ k \in DOMAIN downFrames /\ downFrames'[k] = downFrames[k]
              \/ k = Len(downFrames) + 1 /\ downFrames'[k].type = "error"
        /\ UNCHANGED <<ChatPage, Buttons, Widgets>>
        BY <1>t, <1>6, <2>1, TellsGives
  <2>3. ASSUME ~relieved', ~doubled PROVE Followed'
    <3>1. \A k \in DOMAIN downFrames' : ~News(downFrames'[k])
          BY <1>3, <1>4, <2>2, <2>3 DEF SamePartner, News
    <3> QED BY <1>3, <1>4, <2>3, <3>1 DEF Followed, News
  <2> QED BY <1>t, <1>1, <1>2, <1>3, <2>2, <2>3, SessionKeeps DEF ControlsTypeOK, ControlsFlagsOK
<1> QED BY <1>5, <1>6 DEF ReadAsk

\* What the frames say of the conversation.
LEMMA FrameKeeps == ASSUME ControlsInv, OnFrame PROVE ControlsInv'
<1>t. ControlsTypeOK /\ downFrames \in Seq(Downs) /\ ControlsFlagsOK
      BY DEF ControlsInv, ControlsTypeOK
<1> DEFINE f == Head(downFrames)
<1>1. /\ f \in Downs /\ downFrames' \in Seq(Downs) /\ Len(downFrames') = Len(downFrames) - 1
      /\ 1 \in DOMAIN downFrames /\ f = downFrames[1] /\ downFrames # <<>>
      /\ \A i \in DOMAIN downFrames' :
           i + 1 \in DOMAIN downFrames /\ downFrames'[i] = downFrames[i + 1]
      BY <1>t, Dequeued DEF OnFrame
<1>g. guard' \in 0..Countdown
      BY <1>t, ControlsConstants DEF OnFrame, GuardAgain, ControlsTypeOK
<1>2. /\ UNCHANGED <<upFrames, doubled, report, closeDue, Loop>> /\ waiting' \in BOOLEAN
      /\ guard' \in 0..Countdown
      BY <1>t, <1>g DEF OnFrame, ControlsFlagsOK
<1>3. Len(downFrames') <= DownCap
      BY <1>t, <1>1, ControlsConstants DEF ControlsTypeOK
<1>4. ASSUME talk' \in Talks,
             chatPage' \in {"gone", "shown", "leaving", "away"}, askedOnce' \in BOOLEAN,
             cooling' \in BOOLEAN, nextArmed' \in {0, talk'.partner},
             quitArmed' \in 0..MaxPartners, ~relieved /\ ~doubled => Followed'
      PROVE  ControlsInv'
  <2>1. ControlsFlagsOK'
        BY <1>t, <1>2, <1>4 DEF ControlsFlagsOK, Loop
  <2>2. nextArmed' \in 0..MaxPartners
    <3>1. talk'.partner \in 0..MaxPartners
          BY <1>4 DEF Talks
    <3> QED BY <1>4, <3>1, ControlsConstants
  <2>3. ControlsTypeOK'
        BY <1>t, <1>1, <1>2, <1>3, <1>4, <2>1, <2>2 DEF ControlsTypeOK, Loop
  <2> QED BY <1>2, <1>4, <2>3 DEF ControlsInv, Loop
<1> HIDE DEF f
<1>5. \A i \in DOMAIN downFrames' : i + 1 > 1
      BY <1>1
<1>6. CASE f.type = "matched" /\ Matched(f)
  <2>1. ASSUME ~relieved, ~doubled PROVE Followed'
    <3>1. Followed
          BY <2>1 DEF ControlsInv
    <3>2. InRoom /\ f.partner = sess.partner /\ \A i \in DOMAIN downFrames' : ~News(downFrames'[i])
          BY <1>1, <1>5, <1>6, <3>1 DEF Followed
    <3>3. upFrames = <<>>
          BY <1>1, <1>6, <3>1 DEF Followed, SamePartner, News
    <3>4. SamePartner'
          BY <1>2, <1>6, <3>2 DEF SamePartner, Matched, InRoom, News, Loop
    <3> QED BY <1>2, <1>6, <3>2, <3>3, <3>4 DEF Followed, Matched, News
  <2>2. /\ talk' \in Talks
        /\ chatPage' \in {"gone", "shown", "leaving", "away"} /\ askedOnce' \in BOOLEAN
        /\ cooling' \in BOOLEAN /\ nextArmed' = 0 /\ quitArmed' \in 0..MaxPartners
    <3>1. talk' \in Talks
      <4>1. f.partner \in 0..MaxPartners /\ f.kind \in PeerKinds
            BY <1>1 DEF Downs
      <4> QED BY <1>6, <4>1, ControlsConstants DEF Matched, Talks
    <3> QED BY <1>t, <1>6, <3>1 DEF Matched, ControlsTypeOK
  <2> QED BY <1>4, <2>1, <2>2
<1>7. ASSUME ~relieved, ~doubled, UNCHANGED askedOnce, talk'.partner = talk.partner,
             f.type # "matched", chatPage = "gone" => chatPage' = "gone"
      PROVE  Followed'
  <2>1. Followed
        BY <1>7 DEF ControlsInv
  <2>2. SamePartner => SamePartner'
        BY <1>1, <1>2, <1>7 DEF SamePartner, InRoom, Loop, News
  <2>3. \A k \in DOMAIN downFrames' : downFrames'[k].type = "matched" =>
           /\ InRoom' /\ downFrames'[k].partner = sess'.partner
           /\ \A j \in DOMAIN downFrames' : j > k => ~News(downFrames'[j])
    <3> SUFFICES ASSUME NEW k \in DOMAIN downFrames', downFrames'[k].type = "matched"
                 PROVE  /\ InRoom' /\ downFrames'[k].partner = sess'.partner
                        /\ \A j \in DOMAIN downFrames' : j > k => ~News(downFrames'[j])
        OBVIOUS
    <3>1. k + 1 \in DOMAIN downFrames /\ downFrames[k + 1] = downFrames'[k]
          BY <1>1
    <3>2. \A j \in DOMAIN downFrames' : j > k =>
             j + 1 \in DOMAIN downFrames /\ j + 1 > k + 1 /\ downFrames[j + 1] = downFrames'[j]
          BY <1>1
    <3> QED BY <1>2, <2>1, <3>1, <3>2 DEF Followed, InRoom, Loop
  <2> QED BY <1>2, <1>7, <2>1, <2>2, <2>3 DEF Followed
<1>8. ASSUME NEW status \in {"queued", "post_chat"}, f.type # "matched", NotMatched(status)
      PROVE  ControlsInv'
  <2>1. /\ talk' \in Talks
        /\ talk'.partner = talk.partner
    <3>1. talk' \in {[talk EXCEPT !.status = status], [talk EXCEPT !.status = status, !.lines = Longer]}
          BY <1>t, <1>8 DEF NotMatched, ControlsTypeOK, Talks
    <3> QED BY <1>t, <3>1, TalkEdited DEF ControlsTypeOK
  <2>2. /\ chatPage' \in {"gone", "shown", "leaving", "away"}
        /\ chatPage = "gone" => chatPage' = "gone"
        /\ UNCHANGED <<askedOnce, cooling>> /\ nextArmed' = 0 /\ quitArmed' = 0
        BY <1>t, <1>8 DEF NotMatched, ControlsTypeOK
  <2>3. ASSUME ~relieved, ~doubled PROVE Followed'
        BY <1>7, <1>8, <2>1, <2>2, <2>3
  <2> QED BY <1>t, <1>4, <2>1, <2>2, <2>3, ControlsConstants
          DEF ControlsFlagsOK
<1>9. CASE /\ f.type = "msg" /\ talk' = [talk EXCEPT !.lines = Longer]
           /\ UNCHANGED <<chatPage, Buttons, waiting, askedOnce>>
  <2>1. /\ talk' \in Talks
        /\ talk'.partner = talk.partner
        BY <1>t, <1>9, TalkEdited DEF ControlsTypeOK
  <2>2. ASSUME ~relieved, ~doubled PROVE Followed'
        BY <1>7, <1>9, <2>1, <2>2
  <2>3. nextArmed' \in {0, talk'.partner}
        BY <1>9, <2>1 DEF ControlsInv, Buttons
  <2> QED BY <1>t, <1>4, <1>9, <2>1, <2>2, <2>3 DEF ControlsTypeOK, ControlsFlagsOK, Buttons
<1> QED BY <1>6, <1>8, <1>9 DEF OnFrame, f

\* A frame is sent from the page.
LEMMA AskingKeeps ==
  ASSUME ControlsInv, Mounted, NEW type \in {"next", "report"}, Asks(type),
         UNCHANGED <<cooling, quitArmed, waiting>>, nextArmed' \in {0, talk.partner},
         guard' \in 0..Countdown, report' \in {"closed", "form", "sent"}, closeDue' \in BOOLEAN
  PROVE  ControlsInv'
<1>1. /\ upFrames' \in Seq(Ups) /\ Len(upFrames') <= UpCap
      /\ askedOnce' \in BOOLEAN /\ doubled' \in BOOLEAN
      /\ ~relieved' /\ ~doubled' => Followed'
      BY AsksGives
<1>2. UNCHANGED <<talk, chatPage, downFrames, sess, relieved>>
      BY DEF Asks, ChatPage, Loop
<1>3. ControlsFlagsOK'
      BY <1>1, <1>2 DEF ControlsInv, ControlsTypeOK, ControlsFlagsOK
<1>4. nextArmed' \in 0..MaxPartners
      BY TalkEdited, ControlsConstants DEF ControlsInv, ControlsTypeOK
<1>5. ControlsTypeOK'
      BY <1>1, <1>2, <1>3, <1>4 DEF ControlsInv, ControlsTypeOK
<1> QED BY <1>1, <1>2, <1>5 DEF ControlsInv

LEMMA ControlsKeep == ControlsInv /\ [ControlsNext]_controlVars => ControlsInv'
<1> SUFFICES ASSUME ControlsInv, [ControlsNext]_controlVars PROVE ControlsInv'
    OBVIOUS
<1>t. ControlsTypeOK /\ ControlsFlagsOK
      BY DEF ControlsInv, ControlsTypeOK
<1>g. GuardAgain => guard' \in 0..Countdown
      BY ControlsConstants DEF GuardAgain
<1>n. nextArmed \in {0, talk.partner} /\ talk.partner \in 0..MaxPartners
      BY <1>t, TalkEdited DEF ControlsInv, ControlsTypeOK
<1>1. ASSUME OnError PROVE ControlsInv'
      BY <1>1, StoppedKeeps DEF OnError
<1>2. ASSUME PageGone \/ ToFriends PROVE ControlsInv'
  <2>1. /\ chatPage' \in {"gone", "shown", "leaving", "away"}
        /\ chatPage = "gone" => chatPage' = "gone"
        BY <1>2 DEF PageGone, ToFriends
  <2>2. Unmounted /\ UNCHANGED <<talk, cooling, Asking, downFrames, Loop>>
        BY <1>2 DEF PageGone, ToFriends
  <2>3. /\ nextArmed' \in {0, talk.partner} /\ quitArmed' \in 0..MaxPartners
        /\ guard' \in 0..Countdown /\ report' \in {"closed", "form", "sent"}
        BY <2>2, ControlsConstants DEF Unmounted
  <2>4. closeDue' \in BOOLEAN /\ waiting' \in BOOLEAN
        BY <2>2 DEF Unmounted
  <2> QED BY <1>t, <2>1, <2>2, <2>3, <2>4, QuietPage DEF ControlsTypeOK
<1>3. ASSUME BackToChat PROVE ControlsInv'
      BY <1>t, <1>3, <1>n, QuietPage
         DEF BackToChat, ControlsTypeOK, ControlsFlagsOK, Buttons, Widgets
<1>4. ASSUME CooldownOver PROVE ControlsInv'
  <2>1. ControlsFlagsOK'
        BY <1>t, <1>4 DEF CooldownOver, ControlsFlagsOK, Asking, Loop
  <2>2. ControlsTypeOK'
        BY <1>t, <1>4, <1>g, <2>1 DEF CooldownOver, ControlsTypeOK, ChatPage, Asking, Loop
  <2>3. Followed => Followed'
        BY <1>4 DEF CooldownOver, Followed, SamePartner, InRoom, News, ChatPage, Asking, Loop
  <2> QED BY <1>4, <2>2, <2>3 DEF ControlsInv, CooldownOver, ChatPage, Asking, Loop
<1>5. ASSUME Say PROVE ControlsInv'
  <2>1. /\ talk' \in Talks
        /\ talk'.partner = talk.partner
        BY <1>t, <1>5, TalkEdited DEF Say, ControlsTypeOK
  <2> QED BY <1>t, <1>5, <1>g, <1>n, <2>1, QuietPage
          DEF Say, ControlsTypeOK, ControlsFlagsOK, Buttons
<1>6. ASSUME TapNext PROVE ControlsInv'
  <2>1. CASE Asks("next") /\ nextArmed' = 0
        BY <1>t, <1>6, <2>1, AskingKeeps
           DEF TapNext, NextShown, Widgets, ControlsTypeOK, ControlsFlagsOK
  <2>2. CASE nextArmed' = talk.partner /\ UNCHANGED <<ChatPage, Asking, downFrames, Loop>>
        BY <1>t, <1>6, <2>2, QuietPage
           DEF TapNext, ChatPage, Widgets, ControlsTypeOK, ControlsFlagsOK
  <2> QED BY <1>6, <2>1, <2>2 DEF TapNext
<1>7. ASSUME TapQuit PROVE ControlsInv'
  <2>1. CASE Stopped
        BY <2>1, StoppedKeeps
  <2>2. CASE /\ quitArmed' = talk.partner
             /\ UNCHANGED <<ChatPage, cooling, nextArmed, Widgets, Asking, downFrames, Loop>>
        BY <1>t, <1>n, <2>2, QuietPage DEF ChatPage, Widgets, ControlsTypeOK, ControlsFlagsOK
  <2> QED BY <1>7, <2>1, <2>2 DEF TapQuit
<1>8. ASSUME NextForgotten \/ QuitForgotten PROVE ControlsInv'
      BY <1>t, <1>n, <1>8, QuietPage, ControlsConstants
         DEF NextForgotten, QuitForgotten, ChatPage, Widgets, ControlsTypeOK, ControlsFlagsOK
<1>9. ASSUME ShortcutNext \/ PostChatNext \/ SwitchToHuman PROVE ControlsInv'
  <2>1. Mounted /\ Asks("next") /\ UNCHANGED <<Buttons, Widgets>>
        BY <1>9 DEF ShortcutNext, PostChatNext, SwitchToHuman, BotWatchShown, NextShown
  <2> QED BY <1>t, <1>n, <2>1, AskingKeeps DEF Buttons, Widgets, ControlsTypeOK, ControlsFlagsOK
<1>10. ASSUME PostChatQuit PROVE ControlsInv'
      BY <1>10, StoppedKeeps DEF PostChatQuit
<1>11. ASSUME NEW n \in BOOLEAN, PollQueue(n) PROVE ControlsInv'
      BY <1>t, <1>n, <1>11, QuietPage
         DEF PollQueue, ChatPage, Buttons, ControlsTypeOK, ControlsFlagsOK
<1>12. ASSUME NEW s \in 0..Countdown, ModalAt(s) PROVE ControlsInv'
      BY <1>t, <1>n, <1>12, QuietPage
         DEF ModalAt, ChatPage, Buttons, ControlsTypeOK, ControlsFlagsOK
<1>13. ASSUME BackPressed \/ CancelBack PROVE ControlsInv'
      BY <1>12, <1>13, ControlsConstants DEF BackPressed, CancelBack
<1>14. ASSUME GuardTick PROVE ControlsInv'
  <2>1. CASE Stopped
        BY <2>1, StoppedKeeps
  <2>2. CASE guard > 1 /\ ModalAt(guard - 1)
    <3>1. guard - 1 \in 0..Countdown
          BY <1>t, <2>2, ControlsConstants DEF ControlsTypeOK
    <3> QED BY <1>12, <2>2, <3>1
  <2> QED BY <1>14, <2>1, <2>2 DEF GuardTick
<1>15. ASSUME NEW s \in {"closed", "form", "sent"}, NEW due \in BOOLEAN, Sheet(s, due)
       PROVE  /\ Mounted /\ guard' \in 0..Countdown /\ report' = s /\ closeDue' = due
              /\ UNCHANGED <<ChatPage, Buttons, waiting, downFrames, Loop>>
      BY <1>t, <1>g, <1>15 DEF Sheet, ControlsTypeOK
<1>16. ASSUME OpenReport \/ CloseReport \/ ReportTimer PROVE ControlsInv'
  <2>1. PICK s \in {"closed", "form", "sent"}, due \in BOOLEAN : Sheet(s, due) /\ UNCHANGED Asking
        BY <1>t, <1>16 DEF OpenReport, CloseReport, ReportTimer, ControlsFlagsOK
  <2> QED BY <1>t, <1>n, <1>15, <2>1, QuietPage
          DEF ChatPage, Buttons, ControlsTypeOK, ControlsFlagsOK
<1>17. ASSUME SubmitReport PROVE ControlsInv'
  <2>1. Sheet("sent", TRUE) /\ Asks("report")
        BY <1>17 DEF SubmitReport
  <2> QED BY <1>n, <1>15, <2>1, AskingKeeps DEF Buttons
<1>18. CASE UNCHANGED controlVars
      BY <1>t, <1>n, <1>18, QuietPage
         DEF controlVars, ChatPage, Buttons, Widgets, ControlsTypeOK, ControlsFlagsOK
<1> QED BY <1>1, <1>2, <1>3, <1>4, <1>5, <1>6, <1>7, <1>8, <1>9, <1>10, <1>11, <1>13, <1>14,
           <1>16, <1>17, <1>18, SessionSteps, TakeOverKeeps, ReadKeeps, FrameKeeps
        DEF ControlsNext

\* The chat page, the session's place and the frames between them keep their types.
THEOREM ControlsTypes == ControlsSpec => []ControlsTypeOK
<1> QED BY ControlsStart, ControlsKeep, ControlsGive, PTL DEF ControlsSpec

\* ChatHeader.tsx, ws/chat.go: a Next tapped once is never confirmed on another partner,
\* and a Next or a report is read in the conversation it was meant for, whatever the
\* frames under way, save after a human has interrupted the AI or a second frame for one
\* partner; for any number of partners and of frames.
THEOREM NextForThisPartnerHolds == ControlsSpec => []NextForThisPartner
<1> QED BY ControlsStart, ControlsKeep, ControlsGive, PTL DEF ControlsSpec

-----------------------------------------------------------------------------
(* The composer *)

\* The confirmation that is asked for is about the text in the field, or a correction
\* has rewritten it since.
PendingWarned == piiPending => warnedFor = draft \/ rewritten

ComposerInv == ComposerTypeOK /\ PendingWarned /\ WarnedBeforePII

LEMMA WithoutType ==
  ASSUME NEW S, NEW s \in Seq(S), NEW x
  PROVE  /\ Without(s, x) \in Seq(S)
         /\ Len(Without(s, x)) <= Len(s)
<1>1. CASE \A i \in DOMAIN s : s[i] # x
      BY <1>1 DEF Without
<1>2. CASE \E i \in DOMAIN s : s[i] = x
  <2> DEFINE i == CHOOSE j \in DOMAIN s : s[j] = x
             before == SubSeq(s, 1, i - 1)
             after == SubSeq(s, i + 1, Len(s))
  <2>1. i \in 1..Len(s) /\ Len(s) \in Nat
    <3>1. i \in DOMAIN s
          BY <1>2
    <3> QED BY <3>1, LenProperties
  <2> HIDE DEF i
  <2>2. before \in Seq(S) /\ Len(before) = i - 1
        BY <2>1
  <2>3. after \in Seq(S) /\ Len(after) = Len(s) - i
        BY <2>1
  <2> HIDE DEF before, after
  <2>4. before \o after \in Seq(S) /\ Len(before \o after) = Len(s) - 1
    <3>1. /\ before \o after \in Seq(S)
          /\ Len(before \o after) = Len(before) + Len(after)
          BY <2>2, <2>3, ConcatProperties
    <3> QED BY <2>1, <2>2, <2>3, <3>1
  <2>5. Without(s, x) = before \o after
        BY <1>2 DEF Without, i, before, after
  <2> QED BY <2>1, <2>4, <2>5
<1> QED BY <1>1, <1>2

\* The cache takes a text and stays within its size.
LEMMA CachedType ==
  ASSUME cache \in Seq(Texts), Len(cache) <= CacheMax, NEW text \in Texts
  PROVE  Cached(text) \in Seq(Texts) /\ Len(Cached(text)) <= CacheMax
<1> DEFINE kept == Append(Without(cache, text), text)
<1>1. /\ kept \in Seq(Texts)
      /\ Len(kept) \in Nat \ {0}
      /\ Len(kept) <= Len(cache) + 1
      BY WithoutType, AppendProperties
<1>2. CASE Len(kept) > CacheMax
  <2>1. Tail(kept) \in Seq(Texts) /\ Len(Tail(kept)) = Len(kept) - 1
        BY <1>1, HeadTailProperties
  <2> QED BY <1>1, <1>2, <2>1, ComposerAssumption DEF Cached
<1>3. CASE ~(Len(kept) > CacheMax)
      BY <1>1, <1>3, ComposerAssumption DEF Cached
<1> QED BY <1>2, <1>3

LEMMA ComposerStart == ComposerInit => ComposerInv
<1> SUFFICES ASSUME ComposerInit PROVE ComposerInv
    OBVIOUS
<1>1. cache \in Seq(Texts) /\ Len(cache) <= CacheMax
      BY ComposerAssumption DEF ComposerInit
<1>2. ComposerFlagsOK
      BY DEF ComposerInit, ComposerFlagsOK
<1>3. ComposerTypeOK
      BY <1>1, <1>2 DEF ComposerInit, ComposerTypeOK, Maybe, NoCheck
<1>4. PendingWarned
      BY DEF ComposerInit, PendingWarned
<1>5. WarnedBeforePII
      BY ComposerAssumption DEF ComposerInit, WarnedBeforePII, ComposerAssumption
<1> QED BY <1>3, <1>4, <1>5 DEF ComposerInv

\* What leaves is never personal data nobody was warned about.
LEMMA SendKeeps ==
  ASSUME ComposerInv, NEW what \in Texts, what \in PII => what = warnedFor \/ rewritten,
         ReallySend(what)
  PROVE  ComposerInv'
<1>f. ComposerFlagsOK'
      BY DEF ComposerInv, ComposerTypeOK, ComposerFlagsOK, ReallySend
<1>s. sent' \in [text : Maybe, warned : BOOLEAN, rewritten : BOOLEAN]
  <2> DEFINE known == (what = warnedFor)
  <2>1. known \in BOOLEAN
        OBVIOUS
  <2>2. rewritten \in BOOLEAN
        BY DEF ComposerInv, ComposerTypeOK, ComposerFlagsOK
  <2>3. sent' = [text |-> what, warned |-> known, rewritten |-> rewritten]
        BY DEF ReallySend
  <2> HIDE DEF known
  <2> QED BY <2>1, <2>2, <2>3 DEF Maybe
<1>1. ComposerTypeOK'
      BY <1>f, <1>s DEF ComposerInv, ComposerTypeOK, ReallySend, Maybe
<1>2. PendingWarned' /\ WarnedBeforePII'
      BY DEF ReallySend, PendingWarned, WarnedBeforePII
<1> QED BY <1>1, <1>2 DEF ComposerInv

\* A step that sends nothing and asks for no confirmation.
LEMMA QuietKeeps ==
  ASSUME ComposerInv, ComposerTypeOK', piiPending' => piiPending,
         piiPending' => UNCHANGED <<draft, Warnings>>, UNCHANGED sent
  PROVE  ComposerInv'
BY DEF ComposerInv, PendingWarned, WarnedBeforePII, Warnings

LEMMA ComposerKeep == ComposerInv /\ [ComposerNext]_composerVars => ComposerInv'
<1> SUFFICES ASSUME ComposerInv, [ComposerNext]_composerVars PROVE ComposerInv'
    OBVIOUS
<1>t. ComposerTypeOK /\ ComposerFlagsOK
      BY DEF ComposerInv, ComposerTypeOK
<1>f. ComposerFlagsOK'
      BY <1>t DEF ComposerNext, composerVars, ComposerFlagsOK, Submit, SendAnyway, ReallySend,
                  Type, ThrottleOver, PeerTyping, PeerQuiet, RunCheck, CheckDone, CheckFails,
                  ApplyReplacement, ClosePopover, Warnings
<1>1. ASSUME Submit PROVE ComposerInv'
  <2>1. draft \in Texts
        BY <1>t, <1>f, <1>1 DEF Submit, ComposerTypeOK, Maybe
  <2>2. CASE ReallySend(draft)
        BY <1>1, <2>1, <2>2, SendKeeps DEF Submit, DetectPII, ComposerInv, PendingWarned,
                                           ReallySend
  <2>3. CASE ~ReallySend(draft)
    <3>1. ComposerTypeOK'
          BY <1>t, <1>f, <1>1, <2>1, <2>3 DEF Submit, ComposerTypeOK
    <3> QED BY <1>1, <2>3, <3>1 DEF Submit, ComposerInv, PendingWarned, WarnedBeforePII
  <2> QED BY <2>2, <2>3
<1>2. ASSUME SendAnyway PROVE ComposerInv'
      BY <1>t, <1>f, <1>2, SendKeeps DEF SendAnyway, ComposerTypeOK, Maybe, ComposerInv,
                                   PendingWarned
<1>3. ASSUME NEW text \in Maybe, Type(text) PROVE ComposerInv'
  <2>1. ComposerTypeOK'
        BY <1>t, <1>f, <1>3 DEF Warnings, Type, ComposerTypeOK, Maybe
  <2> QED BY <1>3, <2>1, QuietKeeps DEF Type, Warnings
<1>4. ASSUME ThrottleOver \/ PeerTyping \/ PeerQuiet PROVE ComposerInv'
  <2>1. ComposerTypeOK'
        BY <1>t, <1>f, <1>4 DEF Warnings, ThrottleOver, PeerTyping, PeerQuiet, ComposerTypeOK
  <2> QED BY <1>4, <2>1, QuietKeeps DEF Warnings, ThrottleOver, PeerTyping, PeerQuiet
<1>5. ASSUME RunCheck PROVE ComposerInv'
  <2>1. draft \in Texts
        BY <1>t, <1>f, <1>5 DEF RunCheck, CanCheck, ComposerTypeOK, Maybe
  <2>2. Cached(draft) \in Seq(Texts) /\ Len(Cached(draft)) <= CacheMax
        BY <1>t, <2>1, CachedType DEF ComposerTypeOK
  <2>3. ComposerTypeOK'
        BY <1>t, <1>f, <1>5, <2>1, <2>2 DEF Warnings, RunCheck, ComposerTypeOK, Maybe
  <2> QED BY <1>5, <2>3, QuietKeeps DEF Warnings, RunCheck
<1>6. ASSUME CheckDone PROVE ComposerInv'
  <2>1. check.text \in Texts
        BY <1>t, <1>f, <1>6 DEF CheckDone, ComposerTypeOK, Maybe
  <2>2. Cached(check.text) \in Seq(Texts) /\ Len(Cached(check.text)) <= CacheMax
        BY <1>t, <2>1, CachedType DEF ComposerTypeOK
  <2>3. ComposerTypeOK'
        BY <1>t, <1>f, <1>6, <2>1, <2>2 DEF CheckDone, Warnings, NoCheck, ComposerTypeOK, Maybe
  <2> QED BY <1>6, <2>3, QuietKeeps DEF Warnings, CheckDone
<1>7. ASSUME NEW transient \in BOOLEAN, CheckFails(transient) PROVE ComposerInv'
  <2>1. ComposerTypeOK'
        BY <1>t, <1>f, <1>7 DEF CheckFails, Warnings, NoCheck, ComposerTypeOK, Maybe
  <2> QED BY <1>7, <2>1, QuietKeeps DEF Warnings, CheckFails
<1>8. ASSUME ApplyReplacement PROVE ComposerInv'
  <2>1. Corrected[popover] \in Texts
        BY <1>8, ComposerAssumption DEF ApplyReplacement
  <2>2. ComposerTypeOK'
        BY <1>t, <1>f, <1>8, <2>1 DEF ApplyReplacement, ComposerTypeOK, Maybe
  <2>3. PendingWarned' /\ WarnedBeforePII'
        BY <1>8 DEF ApplyReplacement, ComposerInv, PendingWarned, WarnedBeforePII
  <2> QED BY <2>2, <2>3 DEF ComposerInv
<1>9. ASSUME ClosePopover PROVE ComposerInv'
  <2>1. ComposerTypeOK'
        BY <1>t, <1>f, <1>9 DEF Warnings, ClosePopover, ComposerTypeOK, Maybe
  <2> QED BY <1>9, <2>1, QuietKeeps DEF Warnings, ClosePopover
<1>10. CASE UNCHANGED composerVars
  <2>1. ComposerTypeOK'
        BY <1>t, <1>f, <1>10 DEF Warnings, composerVars, ComposerTypeOK
  <2> QED BY <1>10, <2>1, QuietKeeps DEF Warnings, composerVars
<1> QED BY <1>1, <1>2, <1>3, <1>4, <1>5, <1>6, <1>7, <1>8, <1>9, <1>10 DEF ComposerNext

\* The field and its checks keep their types; the cache stays within CacheMax.
THEOREM ComposerTypes == ComposerSpec => []ComposerTypeOK
<1>1. ComposerInv => ComposerTypeOK
      BY DEF ComposerInv
<1> QED BY ComposerStart, ComposerKeep, <1>1, PTL DEF ComposerSpec

\* MessageInput.tsx:26-27: whatever the texts and the answers of the check are, personal
\* data leaves only after a warning about this very text, or one that a correction taken
\* since has rewritten.
THEOREM WarnedBeforePIIHolds == ComposerSpec => []WarnedBeforePII
<1>1. ComposerInv => WarnedBeforePII
      BY DEF ComposerInv
<1> QED BY ComposerStart, ComposerKeep, <1>1, PTL DEF ComposerSpec

-----------------------------------------------------------------------------
(* The reading aids *)

\* What an instance of the list has queued or asked for, it has once; the one that is
\* mounted has reserved it, and a later one has nothing.
QueuedOnce ==
    \A i \in Mounts, n \in Msgs :
        /\ toTranslate[i][n] + tried[i][n] <= 1
        /\ toTranslate[i][n] + tried[i][n] > 0
             => i < mounted \/ (i = mounted /\ n \in reserved)

\* A translation that is shown is that of the word the tooltip shows, so it is the one
\* that is kept with it.
OwnTranslation ==
    /\ tooltip # 0 /\ body.state = "ok" => body.of = tooltip
    /\ \A w \in Selects : words[w].kept \in {0, w}

\* Where the tooltip says "saved", a word of its instance is in the notebook.
SavedInInstance ==
    tooltip # 0 /\ mark = "saved" =>
      \E w \in Selects : words[w].saved /\ words[w].inst = words[tooltip].inst

ImmersionInv ==
    /\ arrived \in 0..MaxMsgs /\ mounted \in Mounts
    /\ reserved \subseteq Msgs /\ lines \subseteq reserved
    /\ toTranslate \in [Mounts -> [Msgs -> Nat]] /\ tried \in [Mounts -> [Msgs -> Nat]]
    /\ QueuedOnce

Marks == {"idle", "saving", "saved", "error"}

Word == [inst : 0..MaxSelects, asked : BOOLEAN, saving : Nat, saved : BOOLEAN,
         kept : 0..MaxSelects]

TooltipTypes ==
    /\ selects \in 0..MaxSelects /\ tooltip \in 0..selects /\ words \in [Selects -> Word]
    /\ body \in [state : {"loading", "ok", "err"}, of : 0..selects] /\ mark \in Marks

TooltipInv == TooltipTypes /\ OwnTranslation /\ SavedInInstance

HintsInv ==
    /\ once \in [Once -> Flags]
    /\ counter \in [read : 0..MaxMsgs, asked : 0..MaxMsgs]

ReadingInv == ImmersionInv /\ immersion \in BOOLEAN /\ TooltipInv /\ HintsInv

LEMMA ReadingConstants ==
  MaxMsgs \in Nat \ {0} /\ MaxMounts \in Nat \ {0} /\ MaxSelects \in Nat \ {0}
BY ReadingAssumption DEF ReadingAssumption

LEMMA ReadingInvGives == ReadingInv => ReadingTypeOK /\ TranslatedOnce /\ SavedIsThisWord
<1> SUFFICES ASSUME ReadingInv PROVE ReadingTypeOK /\ TranslatedOnce /\ SavedIsThisWord
    OBVIOUS
<1>1. ReadingTypeOK
      BY DEF ReadingInv, ImmersionInv, TooltipInv, TooltipTypes, HintsInv, ReadingTypeOK,
             Word, Marks
<1>2. TranslatedOnce
      BY DEF ReadingInv, ImmersionInv, QueuedOnce, TranslatedOnce
<1>3. SavedIsThisWord
      BY DEF ReadingInv, TooltipInv, OwnTranslation, SavedInInstance, SavedIsThisWord
<1> QED BY <1>1, <1>2, <1>3

LEMMA ReadingStart == ReadingInit => ReadingInv
<1> SUFFICES ASSUME ReadingInit PROVE ReadingInv
    OBVIOUS
<1> USE ReadingConstants
<1>1. ImmersionInv
      BY DEF ReadingInit, ImmersionInv, QueuedOnce, Mounts
<1>2. immersion \in BOOLEAN
      BY DEF ReadingInit
<1>3. TooltipInv
  <2>1. TooltipTypes
        BY DEF ReadingInit, TooltipTypes, NoWord, Loading, Word, Marks
  <2> QED BY <2>1 DEF ReadingInit, TooltipInv, OwnTranslation, SavedInInstance, NoWord
<1>4. HintsInv
      BY DEF ReadingInit, HintsInv, Flags
<1> QED BY <1>1, <1>2, <1>3, <1>4 DEF ReadingInv

LEMMA QueueCounts ==
  ASSUME ImmersionInv, NEW i \in Mounts, NEW n \in Msgs
  PROVE  /\ toTranslate[i] \in [Msgs -> Nat] /\ tried[i] \in [Msgs -> Nat]
         /\ toTranslate[i][n] \in Nat /\ tried[i][n] \in Nat
<1>1. toTranslate[i] \in [Msgs -> Nat] /\ tried[i] \in [Msgs -> Nat]
      BY DEF ImmersionInv
<1> QED BY <1>1

\* A render queues each message that is not reserved once, and reserves it.
LEMMA EnqueueKeeps ==
  ASSUME ImmersionInv, NEW n \in 0..MaxMsgs, NEW on, Enqueue(n, on), arrived' = n,
         UNCHANGED <<mounted, tried, lines>>
  PROVE  ImmersionInv'
<1>m. mounted \in Mounts /\ reserved \subseteq Msgs /\ lines \subseteq reserved
      BY DEF ImmersionInv
<1>1. CASE ~on
      BY <1>1 DEF Enqueue, QueuedOnce, ImmersionInv
<1>2. CASE on
  <2> DEFINE queue == [i \in Msgs |-> IF i \in Fresh(n) THEN toTranslate[mounted][i] + 1
                                                        ELSE toTranslate[mounted][i]]
  <2>1. /\ reserved' = reserved \cup Fresh(n)
        /\ toTranslate' = [toTranslate EXCEPT ![mounted] = queue]
        BY <1>2 DEF Enqueue
  <2>2. Fresh(n) \subseteq Msgs /\ Fresh(n) \cap reserved = {}
        BY ReadingConstants DEF Fresh, Msgs
  <2>3. queue \in [Msgs -> Nat]
        BY <1>m, QueueCounts
  <2>q. \A m \in Msgs : queue[m] = IF m \in Fresh(n) THEN toTranslate[mounted][m] + 1
                                                     ELSE toTranslate[mounted][m]
        OBVIOUS
  <2> HIDE DEF queue
  <2>4. /\ toTranslate' \in [Mounts -> [Msgs -> Nat]]
        /\ toTranslate'[mounted] = queue
        /\ \A i \in Mounts \ {mounted} : toTranslate'[i] = toTranslate[i]
        BY <1>m, <2>1, <2>3 DEF ImmersionInv
  <2>5. ASSUME NEW i \in Mounts, NEW m \in Msgs
        PROVE  /\ toTranslate'[i][m] + tried'[i][m] <= 1
               /\ toTranslate'[i][m] + tried'[i][m] > 0
                    => i < mounted' \/ (i = mounted' /\ m \in reserved')
    <3>t. toTranslate[i][m] \in Nat /\ tried[i][m] \in Nat
          BY QueueCounts
    <3>o. /\ toTranslate[i][m] + tried[i][m] <= 1
          /\ toTranslate[i][m] + tried[i][m] > 0
               => i < mounted \/ (i = mounted /\ m \in reserved)
          BY DEF ImmersionInv, QueuedOnce
    <3>1. CASE i = mounted /\ m \in Fresh(n)
      <4>1. toTranslate[i][m] + tried[i][m] = 0
            BY <1>m, <2>2, <3>1, <3>t, <3>o DEF Mounts
      <4>2. toTranslate'[i][m] = toTranslate[i][m] + 1
            BY <2>4, <2>q, <3>1
      <4> QED BY <2>1, <3>1, <3>t, <4>1, <4>2
    <3>2. CASE ~(i = mounted /\ m \in Fresh(n))
      <4>1. toTranslate'[i][m] = toTranslate[i][m]
            BY <2>4, <2>q, <3>2
      <4> QED BY <2>1, <3>o, <4>1
    <3> QED BY <3>1, <3>2
  <2>6. reserved' \subseteq Msgs /\ lines' \subseteq reserved'
        BY <1>m, <2>1, <2>2
  <2> QED BY <2>4, <2>5, <2>6 DEF ImmersionInv, QueuedOnce
<1> QED BY <1>1, <1>2

LEMMA TranslateKeeps ==
  ASSUME ImmersionInv, NEW i \in Mounts, NEW n \in Msgs, NEW useful, Translate(i, n, useful)
  PROVE  ImmersionInv'
<1>t. \A j \in Mounts, m \in Msgs : toTranslate[j][m] \in Nat /\ tried[j][m] \in Nat
      BY QueueCounts
<1>0. /\ toTranslate' = [toTranslate EXCEPT ![i] = [@ EXCEPT ![n] = toTranslate[i][n] - 1]]
      /\ tried' = [tried EXCEPT ![i] = [@ EXCEPT ![n] = tried[i][n] + 1]]
      /\ toTranslate[i][n] > 0
      BY DEF Translate
<1>1. /\ toTranslate' \in [Mounts -> [Msgs -> Nat]]
      /\ tried' \in [Mounts -> [Msgs -> Nat]]
  <2>1. toTranslate[i][n] - 1 \in Nat /\ tried[i][n] + 1 \in Nat
        BY <1>t, <1>0
  <2>2. /\ [toTranslate[i] EXCEPT ![n] = toTranslate[i][n] - 1] \in [Msgs -> Nat]
        /\ [tried[i] EXCEPT ![n] = tried[i][n] + 1] \in [Msgs -> Nat]
        BY <2>1, QueueCounts
  <2> QED BY <1>0, <2>2 DEF ImmersionInv
<1>2. ASSUME NEW j \in Mounts, NEW m \in Msgs
      PROVE  toTranslate'[j][m] + tried'[j][m] = toTranslate[j][m] + tried[j][m]
  <2>1. toTranslate[j] \in [Msgs -> Nat] /\ tried[j] \in [Msgs -> Nat]
        BY QueueCounts
  <2>2. CASE j = i /\ m = n
    <3>1. /\ toTranslate'[j][m] = toTranslate[j][m] - 1
          /\ tried'[j][m] = tried[j][m] + 1
          BY <1>0, <2>1, <2>2 DEF ImmersionInv
    <3> QED BY <1>t, <3>1
  <2>3. CASE ~(j = i /\ m = n)
        BY <1>0, <2>1, <2>3 DEF ImmersionInv
  <2> QED BY <2>2, <2>3
<1>3. lines' \subseteq reserved
  <2>1. i = mounted => n \in reserved
        BY <1>t, <1>0 DEF ImmersionInv, QueuedOnce, Mounts
  <2> QED BY <2>1 DEF Translate, ImmersionInv
<1> QED BY <1>1, <1>2, <1>3 DEF ImmersionInv, Translate, QueuedOnce

LEMMA RemountKeeps ==
  ASSUME ImmersionInv, Remount
  PROVE  ImmersionInv'
<1> DEFINE queue == [n \in Msgs |-> IF immersion /\ n <= arrived THEN 1 ELSE 0]
<1>0. /\ toTranslate' = [toTranslate EXCEPT ![mounted + 1] = queue]
      /\ mounted' = mounted + 1 /\ tried' = tried /\ arrived' = arrived /\ lines' = {}
      /\ reserved' = IF immersion THEN 1..arrived ELSE {}
      BY DEF Remount
<1>1. mounted' \in Mounts /\ mounted \in Mounts /\ reserved' \subseteq Msgs
      BY <1>0, ReadingConstants DEF Remount, ImmersionInv, Mounts, Msgs
<1>2. /\ queue \in [Msgs -> Nat]
      /\ \A m \in Msgs : queue[m] = IF immersion /\ m <= arrived THEN 1 ELSE 0
      OBVIOUS
<1> HIDE DEF queue
<1>3. /\ toTranslate' \in [Mounts -> [Msgs -> Nat]]
      /\ toTranslate'[mounted'] = queue
      /\ \A i \in Mounts \ {mounted'} : toTranslate'[i] = toTranslate[i]
      BY <1>0, <1>1, <1>2 DEF ImmersionInv
<1>4. ASSUME NEW i \in Mounts, NEW m \in Msgs
      PROVE  /\ toTranslate'[i][m] + tried'[i][m] <= 1
             /\ toTranslate'[i][m] + tried'[i][m] > 0
                  => i < mounted' \/ (i = mounted' /\ m \in reserved')
  <2>t. toTranslate[i][m] \in Nat /\ tried[i][m] \in Nat
        BY QueueCounts
  <2>o. /\ toTranslate[i][m] + tried[i][m] <= 1
        /\ toTranslate[i][m] + tried[i][m] > 0
             => i < mounted \/ (i = mounted /\ m \in reserved)
        BY DEF ImmersionInv, QueuedOnce
  <2>1. CASE i = mounted'
    <3>1. tried'[i][m] = 0
          BY <1>0, <1>1, <2>1, <2>t, <2>o DEF Mounts
    <3>2. toTranslate'[i][m] = IF immersion /\ m <= arrived THEN 1 ELSE 0
          BY <1>2, <1>3, <2>1
    <3>3. immersion /\ m <= arrived => m \in reserved'
          BY <1>0 DEF ImmersionInv, Msgs
    <3> QED BY <2>1, <3>1, <3>2, <3>3
  <2>2. CASE i # mounted'
        BY <1>0, <1>1, <1>3, <2>2, <2>o DEF Mounts
  <2> QED BY <2>1, <2>2
<1> QED BY <1>0, <1>1, <1>3, <1>4 DEF ImmersionInv, QueuedOnce

\* The word a tooltip shows is one of those selected.
LEMMA ShownWord ==
  ASSUME TooltipTypes, tooltip # 0
  PROVE  tooltip \in Selects /\ words[tooltip] \in Word
<1>1. tooltip \in Selects
      BY ReadingConstants DEF TooltipTypes, Selects
<1> QED BY <1>1 DEF TooltipTypes

\* A new selection starts with no translation, nothing kept and nothing said.
LEMMA SelectKeeps == ASSUME TooltipInv, SelectWord PROVE TooltipInv'
<1> DEFINE inst == IF tooltip = 0 THEN selects + 1 ELSE words[tooltip].inst
           new == [NoWord EXCEPT !.asked = TRUE, !.inst = inst]
<1>t. TooltipTypes
      BY DEF TooltipInv
<1>1. /\ selects' = selects + 1 /\ tooltip' = selects + 1 /\ body' = Loading /\ mark' = "idle"
      /\ words' = [words EXCEPT ![selects + 1] = new]
      BY DEF SelectWord
<1>2. selects + 1 \in Selects /\ selects' \in 0..MaxSelects
      BY <1>t, <1>1, ReadingConstants DEF SelectWord, TooltipTypes, Selects
<1>3. inst \in 0..MaxSelects
  <2>1. CASE tooltip = 0
        BY <1>2, <2>1 DEF Selects
  <2>2. CASE tooltip # 0
        BY <1>t, <2>2, ShownWord DEF Word
  <2> QED BY <2>1, <2>2
<1>e. \A i \in 0..MaxSelects : /\ [NoWord EXCEPT !.asked = TRUE, !.inst = i] \in Word
                              /\ [NoWord EXCEPT !.asked = TRUE, !.inst = i].kept = 0
  <2>1. NoWord \in Word /\ NoWord.kept = 0
        BY ReadingConstants DEF NoWord, Word
  <2>2. \A e \in Word, i \in 0..MaxSelects :
           /\ [e EXCEPT !.asked = TRUE, !.inst = i] \in Word
           /\ [e EXCEPT !.asked = TRUE, !.inst = i].kept = e.kept
        BY DEF Word
  <2> QED BY <2>1, <2>2
<1>4. new \in Word /\ new.kept = 0
      BY <1>3, <1>e
<1> HIDE DEF new, inst
<1>5. TooltipTypes'
      BY <1>t, <1>1, <1>2, <1>4 DEF TooltipTypes, Loading, Marks
<1>6. OwnTranslation'
      BY <1>t, <1>1, <1>4 DEF TooltipInv, TooltipTypes, OwnTranslation, Loading
<1> QED BY <1>1, <1>5, <1>6 DEF TooltipInv, SavedInInstance

LEMMA AnswerKeeps ==
  ASSUME TooltipInv, NEW w \in Selects, NEW result \in {"ok", "err"}, WordAnswered(w, result)
  PROVE  TooltipInv'
<1>t. TooltipTypes
      BY DEF TooltipInv
<1>0. UNCHANGED <<selects, tooltip, mark>>
      BY DEF WordAnswered
<1>1. /\ words' \in [Selects -> Word]
      /\ \A v \in Selects : /\ words'[v].kept = words[v].kept /\ words'[v].saved = words[v].saved
                            /\ words'[v].inst = words[v].inst
      BY <1>t DEF TooltipTypes, WordAnswered, Word
<1>2. (body' = [state |-> result, of |-> w] /\ tooltip = w) \/ body' = body
      BY DEF WordAnswered
<1>3. TooltipTypes'
      BY <1>t, <1>0, <1>1, <1>2 DEF TooltipTypes
<1>4. OwnTranslation'
      BY <1>0, <1>1, <1>2 DEF TooltipInv, OwnTranslation
<1>5. SavedInInstance'
  <2>1. SUFFICES ASSUME tooltip # 0, mark = "saved"
                 PROVE  \E v \in Selects : words'[v].saved /\ words'[v].inst = words'[tooltip].inst
        BY <1>0 DEF SavedInInstance
  <2>2. PICK v \in Selects : words[v].saved /\ words[v].inst = words[tooltip].inst
        BY <2>1 DEF TooltipInv, SavedInInstance
  <2> QED BY <1>t, <1>1, <2>1, <2>2, ShownWord
<1> QED BY <1>3, <1>4, <1>5 DEF TooltipInv

LEMMA SaveKeeps == ASSUME TooltipInv, SaveSelection PROVE TooltipInv'
<1>t. TooltipTypes
      BY DEF TooltipInv
<1>0. UNCHANGED <<selects, tooltip, body>> /\ tooltip # 0 /\ mark' = "saving"
      BY DEF SaveSelection
<1>1. tooltip \in Selects /\ words[tooltip] \in Word /\ tooltip \in 0..MaxSelects
      BY <1>t, <1>0, ShownWord DEF Selects
<1>2. body.of = tooltip
      BY <1>0 DEF SaveSelection, TooltipInv, OwnTranslation
<1>3. words' = [words EXCEPT ![tooltip] =
                  [@ EXCEPT !.saving = words[tooltip].saving + 1, !.kept = tooltip]]
      BY <1>t, <1>1, <1>2 DEF SaveSelection, TooltipTypes
<1>4. [words[tooltip] EXCEPT !.saving = words[tooltip].saving + 1, !.kept = tooltip] \in Word
  <2>1. \A e \in Word : e.saving + 1 \in Nat
        BY DEF Word
  <2>2. \A e \in Word, n \in Nat, k \in 0..MaxSelects :
           [e EXCEPT !.saving = n, !.kept = k] \in Word
        BY DEF Word
  <2> QED BY <1>1, <2>1, <2>2
<1>5. words' \in [Selects -> Word] /\ \A v \in Selects : words'[v].kept \in {0, v}
  <2>1. words' \in [Selects -> Word]
        BY <1>t, <1>3, <1>4 DEF TooltipTypes
  <2>2. ASSUME NEW v \in Selects PROVE words'[v].kept \in {0, v}
    <3>1. CASE v = tooltip
          BY <1>t, <1>1, <1>3, <3>1 DEF TooltipTypes, Word
    <3>2. CASE v # tooltip
          BY <1>t, <1>3, <3>2 DEF TooltipInv, TooltipTypes, OwnTranslation
    <3> QED BY <3>1, <3>2
  <2> QED BY <2>1, <2>2
<1>6. TooltipTypes'
      BY <1>t, <1>0, <1>5 DEF TooltipTypes, Marks
<1> QED BY <1>0, <1>2, <1>5, <1>6 DEF TooltipInv, OwnTranslation, SavedInInstance

LEMMA SavedKeeps ==
  ASSUME TooltipInv, NEW w \in Selects, NEW ok \in BOOLEAN, SaveAnswered(w, ok)
  PROVE  TooltipInv'
<1>t. TooltipTypes
      BY DEF TooltipInv
<1>0. UNCHANGED <<selects, tooltip, body>>
      BY DEF SaveAnswered
<1>1. /\ words' \in [Selects -> Word]
      /\ \A v \in Selects : /\ words'[v].kept = words[v].kept /\ words'[v].inst = words[v].inst
                            /\ words[v].saved => words'[v].saved
      /\ ok => words'[w].saved
  <2>1. words[w] \in Word /\ words[w].saving > 0
        BY <1>t DEF TooltipTypes, SaveAnswered
  <2> DEFINE new == [words[w] EXCEPT !.saving = words[w].saving - 1,
                                     !.saved = words[w].saved \/ ok]
  <2>2. words[w].saving - 1 \in Nat /\ (words[w].saved \/ ok) \in BOOLEAN
        BY <2>1 DEF Word
  <2>3. new \in Word /\ new.kept = words[w].kept /\ new.inst = words[w].inst
        BY <2>1, <2>2 DEF Word
  <2>4. new.saved = (words[w].saved \/ ok)
        BY <2>1 DEF Word
  <2>5. words' = [words EXCEPT ![w] = new]
        BY <1>t DEF SaveAnswered, TooltipTypes
  <2> HIDE DEF new
  <2>6. words' \in [Selects -> Word] /\ words'[w] = new
        /\ \A v \in Selects \ {w} : words'[v] = words[v]
        BY <1>t, <2>3, <2>5 DEF TooltipTypes
  <2> QED BY <2>3, <2>4, <2>6
<1>2. mark' = mark \/ (mark' = "saved" /\ Marked(w) /\ ok) \/ mark' = "error"
      BY DEF SaveAnswered
<1>3. TooltipTypes'
      BY <1>t, <1>0, <1>1, <1>2 DEF TooltipTypes, Marks
<1>4. OwnTranslation'
      BY <1>0, <1>1 DEF TooltipInv, OwnTranslation
<1>5. SavedInInstance'
  <2>1. SUFFICES ASSUME tooltip # 0, mark' = "saved"
                 PROVE  \E v \in Selects : words'[v].saved /\ words'[v].inst = words'[tooltip].inst
        BY <1>0 DEF SavedInInstance
  <2>2. \E v \in Selects : words'[v].saved /\ words[v].inst = words[tooltip].inst
    <3>1. CASE mark' = mark
          BY <1>1, <2>1, <3>1 DEF TooltipInv, SavedInInstance
    <3>2. CASE Marked(w) /\ ok
          BY <1>1, <3>2 DEF Marked
    <3> QED BY <1>2, <2>1, <3>1, <3>2
  <2> QED BY <1>t, <1>1, <2>1, <2>2, ShownWord
<1> QED BY <1>3, <1>4, <1>5 DEF TooltipInv

\* A step of one of the three parts leaves the others as they are.
LEMMA ImmersionRests ==
  ASSUME ImmersionInv, UNCHANGED <<arrived, mounted, reserved, toTranslate, tried, lines>>
  PROVE  ImmersionInv'
BY DEF ImmersionInv, QueuedOnce

LEMMA TooltipRests == ASSUME TooltipInv, UNCHANGED Tooltip PROVE TooltipInv'
BY DEF TooltipInv, TooltipTypes, OwnTranslation, SavedInInstance, Tooltip

LEMMA ReadingKeep == ReadingInv /\ [ReadingNext]_readingVars => ReadingInv'
<1> SUFFICES ASSUME ReadingInv, [ReadingNext]_readingVars PROVE ReadingInv'
    OBVIOUS
<1> USE ReadingConstants
<1>i. ImmersionInv /\ immersion \in BOOLEAN /\ TooltipInv /\ HintsInv
      BY DEF ReadingInv
<1>1. ASSUME MessageArrives PROVE ReadingInv'
  <2>1. arrived + 1 \in 0..MaxMsgs
        BY <1>i, <1>1 DEF MessageArrives, ImmersionInv
  <2>2. ImmersionInv'
        BY <1>i, <1>1, <2>1, EnqueueKeeps DEF MessageArrives
  <2>3. HintsInv'
        BY <1>i, <1>1, <2>1 DEF MessageArrives, HintsInv, Flags
  <2> QED BY <1>i, <1>1, <2>2, <2>3, TooltipRests DEF MessageArrives, ReadingInv
<1>2. ASSUME ToggleImmersion PROVE ReadingInv'
  <2>1. arrived \in 0..MaxMsgs
        BY <1>i DEF ImmersionInv
  <2>2. ImmersionInv'
        BY <1>i, <1>2, <2>1, EnqueueKeeps DEF ToggleImmersion
  <2>3. HintsInv' /\ immersion' \in BOOLEAN
        BY <1>i, <1>2 DEF ToggleImmersion, HintsInv
  <2> QED BY <1>i, <1>2, <2>2, <2>3, TooltipRests DEF ToggleImmersion, ReadingInv
<1>3. ASSUME NEW b \in BOOLEAN, NEW i \in Mounts, NEW n \in Msgs, Translate(i, n, b)
      PROVE  ReadingInv'
  <2>1. HintsInv' /\ immersion' \in BOOLEAN
        BY <1>i, <1>3 DEF Translate, HintsInv
  <2> QED BY <1>i, <1>3, <2>1, TranslateKeeps, TooltipRests DEF Translate, ReadingInv
<1>4. ASSUME Remount PROVE ReadingInv'
  <2>1. HintsInv' /\ immersion' \in BOOLEAN
        BY <1>i, <1>4 DEF Remount, HintsInv
  <2>2. TooltipInv'
        BY <1>i, <1>4 DEF Remount, TooltipInv, TooltipTypes, OwnTranslation, SavedInInstance
  <2> QED BY <1>i, <1>4, <2>1, <2>2, RemountKeeps DEF ReadingInv
<1>5. ASSUME TooltipInv', UNCHANGED <<arrived, Immersion>>, HintsInv' PROVE ReadingInv'
      BY <1>i, <1>5, ImmersionRests DEF Immersion, ReadingInv
<1>6. ASSUME CloseTooltip PROVE ReadingInv'
  <2>1. TooltipInv'
        BY <1>i, <1>6
        DEF CloseTooltip, TooltipInv, TooltipTypes, OwnTranslation, SavedInInstance
  <2> QED BY <1>i, <1>5, <1>6, <2>1 DEF CloseTooltip, HintsInv
<1>7. ASSUME SelectWord PROVE ReadingInv'
  <2>1. HintsInv'
        BY <1>i, <1>7 DEF SelectWord, HintsInv, Once, Flags
  <2> QED BY <1>i, <1>5, <1>7, <2>1, SelectKeeps DEF SelectWord
<1>8. ASSUME NEW w \in Selects, NEW result \in {"ok", "err"}, WordAnswered(w, result)
      PROVE  ReadingInv'
      BY <1>i, <1>5, <1>8, AnswerKeeps DEF WordAnswered, HintsInv
<1>9. ASSUME SaveSelection PROVE ReadingInv'
      BY <1>i, <1>5, <1>9, SaveKeeps DEF SaveSelection, HintsInv
<1>10. ASSUME NEW w \in Selects, NEW b \in BOOLEAN, SaveAnswered(w, b) PROVE ReadingInv'
       BY <1>i, <1>5, <1>10, SavedKeeps DEF SaveAnswered, HintsInv
<1>11. ASSUME HintOver \/ IntroOver \/ QuotaRead PROVE ReadingInv'
  <2>1. HintsInv'
        BY <1>i, <1>11 DEF HintOver, IntroOver, QuotaRead, HintsInv, Once, Flags
  <2>2. TooltipInv'
        BY <1>i, <1>11, TooltipRests DEF HintOver, IntroOver, QuotaRead
  <2> QED BY <1>5, <1>11, <2>1, <2>2 DEF HintOver, IntroOver, QuotaRead
<1>12. CASE UNCHANGED readingVars
       BY <1>i, <1>5, <1>12, TooltipRests DEF readingVars, Tooltip, Immersion, HintsInv
<1> QED BY <1>1, <1>2, <1>3, <1>4, <1>6, <1>7, <1>8, <1>9, <1>10, <1>11, <1>12
        DEF ReadingNext

\* Every variable of the reading aids keeps its type.
THEOREM ReadingTypes == ReadingSpec => []ReadingTypeOK
BY ReadingStart, ReadingKeep, ReadingInvGives, PTL DEF ReadingSpec

\* autoTranslate.ts:30-31: one instance of the list asks at most once for a message,
\* for any number of messages and of instances.
THEOREM TranslatedOnceHolds == ReadingSpec => []TranslatedOnce
BY ReadingStart, ReadingKeep, ReadingInvGives, PTL DEF ReadingSpec

\* TranslationPopover.tsx: a word is kept with its own translation, and a tooltip that
\* says "saved" shows a word that is in the notebook, or one that replaced such a word in
\* the same instance, for any number of selections that replace each other.
THEOREM SavedIsThisWordHolds == ReadingSpec => []SavedIsThisWord
BY ReadingStart, ReadingKeep, ReadingInvGives, PTL DEF ReadingSpec

-----------------------------------------------------------------------------
(* The friend panel *)

\* The streak runs or it was lost, never both; the restorations that were used are the
\* losses so far, and the one the conversation opened on, less the loss still there.
TokensCounted ==
    /\ server.streak + server.lost = Days
    /\ MaxTokens - server.tokens + (IF server.lost = 0 THEN 0 ELSE 1) <= server.losses + 1

\* A timer that will close the dialog belongs to a restoration that was answered.
ClosersCounted == closers + Len(answers) <= server.asked

LEMMA PanelConstants ==
  Days \in Nat /\ Days > 1 /\ MaxTokens \in Nat /\ MaxLosses \in Nat /\ MaxAsked \in Nat
BY FriendPanelAssumption DEF FriendPanelAssumption

\* The types of what the panel shows, of the server and of the requests under way.
ShownOK ==
    /\ live \in Streaks /\ profile \in Streaks /\ asked \in Streaks
    /\ sheet \in {"none", "menu", "report", "remove", "profile", "restore"}
    /\ restore \in {"initial", "loading", "done", "error"}
    /\ sign \in [typing : BOOLEAN, seen : BOOLEAN, mine : BOOLEAN] /\ left \in BOOLEAN

ServerOK ==
    /\ server \in [streak : {0, Days}, lost : {0, Days}, tokens : 0..MaxTokens,
                   losses : 0..MaxLosses, asked : 0..MaxAsked]
    /\ events \in Seq({0, Days})
    /\ TokensCounted

TimersOK ==
    /\ answers \in Seq(Results) /\ closers \in 0..MaxAsked
    /\ ClosersCounted

FriendPanelInv == ShownOK /\ ServerOK /\ TimersOK

LEMMA PanelInvGives == FriendPanelInv => FriendPanelTypeOK /\ OneTokenPerLoss
<1> SUFFICES ASSUME FriendPanelInv PROVE FriendPanelTypeOK /\ OneTokenPerLoss
    OBVIOUS
<1>1. FriendPanelTypeOK
      BY DEF FriendPanelInv, FriendPanelTypeOK, ShownOK, ServerOK, TimersOK
<1>2. server.tokens \in Int /\ server.losses \in Int /\ TokensCounted
      BY PanelConstants DEF FriendPanelInv, ServerOK
<1>3. OneTokenPerLoss
      BY <1>2, PanelConstants DEF TokensCounted, OneTokenPerLoss
<1> QED BY <1>1, <1>3

LEMMA StreakType == ASSUME NEW s \in {0, Days}, NEW l \in {0, Days} PROVE Streak(s, l) \in Streaks
BY DEF Streaks

LEMMA PanelStart == FriendPanelInit => FriendPanelInv
<1> SUFFICES ASSUME FriendPanelInit PROVE FriendPanelInv
    OBVIOUS
<1>1. PICK s \in {0, Days} :
        server = [streak |-> s, lost |-> Days - s, tokens |-> MaxTokens, losses |-> 0,
                  asked |-> 0]
      BY DEF FriendPanelInit
<1>2. Days - s \in {0, Days} /\ s + (Days - s) = Days
      BY PanelConstants
<1>3. ServerOK
  <2>1. /\ server \in [streak : {0, Days}, lost : {0, Days}, tokens : 0..MaxTokens,
                       losses : 0..MaxLosses, asked : 0..MaxAsked]
        /\ TokensCounted
        BY <1>1, <1>2, PanelConstants DEF TokensCounted
  <2>2. events \in Seq({0, Days})
        BY DEF FriendPanelInit
  <2> QED BY <2>1, <2>2 DEF ServerOK
<1>4. ShownOK
  <2>1. server.streak \in {0, Days} /\ server.lost \in {0, Days} /\ 0 \in {0, Days}
        BY <1>1, <1>2
  <2>2. asked \in Streaks /\ live \in Streaks /\ profile \in Streaks
        BY <2>1, StreakType DEF FriendPanelInit, Streaks
  <2>3. left \in BOOLEAN
        BY DEF FriendPanelInit
  <2>4. sign \in [typing : BOOLEAN, seen : BOOLEAN, mine : BOOLEAN]
        BY DEF FriendPanelInit
  <2> QED BY <2>2, <2>3, <2>4 DEF FriendPanelInit, ShownOK
<1>5. TimersOK
  <2>1. answers \in Seq(Results) /\ Len(answers) = 0 /\ closers = 0 /\ server.asked = 0
        BY <1>1 DEF FriendPanelInit
  <2> QED BY <2>1, PanelConstants DEF TimersOK, ClosersCounted
<1> QED BY <1>3, <1>4, <1>5 DEF FriendPanelInv

\* A restoration takes one token and ends the loss it is for.
LEMMA RelitCounts ==
  ASSUME ServerOK, Restorable, NEW n \in 0..MaxAsked
  PROVE  LET next == [Relit EXCEPT !.asked = n]
         IN /\ next \in [streak : {0, Days}, lost : {0, Days}, tokens : 0..MaxTokens,
                         losses : 0..MaxLosses, asked : 0..MaxAsked]
            /\ next.streak + next.lost = Days
            /\ MaxTokens - next.tokens + (IF next.lost = 0 THEN 0 ELSE 1) <= next.losses + 1
            /\ next.asked = n /\ Relit.streak = Days
<1>1. server.lost = Days
      BY PanelConstants DEF ServerOK, Restorable
<1> DEFINE next == [Relit EXCEPT !.asked = n]
<1>2. /\ server.tokens \in 1..MaxTokens /\ server.losses \in 0..MaxLosses
      /\ MaxTokens - server.tokens + 1 <= server.losses + 1
      BY <1>1, PanelConstants DEF ServerOK, TokensCounted, Restorable
<1>3. /\ next \in [streak : {0, Days}, lost : {0, Days}, tokens : 0..MaxTokens,
                   losses : 0..MaxLosses, asked : 0..MaxAsked]
      /\ next.streak = Days /\ next.lost = 0 /\ next.tokens = server.tokens - 1
      /\ next.losses = server.losses /\ next.asked = n /\ Relit.streak = Days
  <2> DEFINE R == [server EXCEPT !.streak = Days, !.lost = 0, !.tokens = server.tokens - 1]
  <2>1. Relit = R
        BY <1>1 DEF Relit
  <2>2. /\ R \in [streak : {0, Days}, lost : {0, Days}, tokens : 0..MaxTokens,
                  losses : 0..MaxLosses, asked : 0..MaxAsked]
        /\ R.streak = Days /\ R.lost = 0 /\ R.tokens = server.tokens - 1
        /\ R.losses = server.losses
    <3>1. server.tokens - 1 \in 0..MaxTokens /\ 0 \in {0, Days} /\ Days \in {0, Days}
          BY <1>2, PanelConstants
    <3>2. server \in [streak : {0, Days}, lost : {0, Days}, tokens : 0..MaxTokens,
                      losses : 0..MaxLosses, asked : 0..MaxAsked]
          BY DEF ServerOK
    <3> QED BY <3>1, <3>2
  <2> HIDE DEF R
  <2> QED BY <2>1, <2>2
<1> QED BY <1>2, <1>3, PanelConstants

LEMMA ServerRests == ASSUME ServerOK, UNCHANGED <<server, events>> PROVE ServerOK'
BY DEF ServerOK, TokensCounted

LEMMA TimersRest ==
  ASSUME TimersOK, UNCHANGED <<answers, closers>>, server'.asked = server.asked
  PROVE  TimersOK'
BY DEF TimersOK, ClosersCounted

LEMMA ShownRest ==
  ASSUME ShownOK, UNCHANGED <<live, profile, asked, sheet, restore, sign, left>>
  PROVE  ShownOK'
BY DEF ShownOK

LEMMA ServerKeeps ==
  ASSUME FriendPanelInv, LoseStreak \/ PeerRestores
  PROVE  FriendPanelInv'
<1>0. ShownOK /\ ServerOK /\ TimersOK
      BY DEF FriendPanelInv
<1>1. ServerOK'
  <2>1. CASE LoseStreak
    <3>1. /\ server.streak = Days /\ server.lost = 0
          /\ server.lost + server.streak = Days
          BY <1>0, <2>1, PanelConstants DEF LoseStreak, ServerOK, TokensCounted
    <3>2. /\ server' \in [streak : {0, Days}, lost : {0, Days}, tokens : 0..MaxTokens,
                          losses : 0..MaxLosses, asked : 0..MaxAsked]
          /\ server'.streak = 0 /\ server'.lost = Days /\ server'.tokens = server.tokens
          /\ server'.losses = server.losses + 1
      <4>1. server.losses + 1 \in 0..MaxLosses
            BY <1>0, <2>1, PanelConstants DEF LoseStreak, ServerOK
      <4>2. server' = [server EXCEPT !.streak = 0, !.lost = Days, !.losses = server.losses + 1]
            BY <2>1, <3>1 DEF LoseStreak
      <4> QED BY <1>0, <4>1, <4>2 DEF ServerOK
    <3>3. events' \in Seq({0, Days})
          BY <1>0, <2>1, AppendProperties DEF LoseStreak, ServerOK
    <3>4. TokensCounted'
      <4>0. server.tokens \in 0..MaxTokens /\ server.losses \in 0..MaxLosses
            BY <1>0 DEF ServerOK
      <4>5. MaxTokens - server.tokens + 0 <= server.losses + 1
            BY <1>0, <3>1 DEF ServerOK, TokensCounted
      <4>1. /\ MaxTokens - server.tokens <= server.losses + 1
            /\ server.tokens \in Int /\ server.losses \in Int
            BY <4>0, <4>5, PanelConstants
      <4>2. server'.streak + server'.lost = Days
            BY <3>2, PanelConstants
      <4>3. MaxTokens - server'.tokens + 1 <= server'.losses + 1
            BY <3>2, <4>1, PanelConstants
      <4> QED BY <3>2, <4>2, <4>3, PanelConstants DEF TokensCounted
    <3> QED BY <3>2, <3>3, <3>4 DEF ServerOK
  <2>2. CASE PeerRestores
    <3>1. server.asked \in 0..MaxAsked /\ server' = [Relit EXCEPT !.asked = server.asked]
          BY <1>0, <2>2 DEF PeerRestores, Relit, ServerOK
    <3>2. Relit.streak = Days
          BY <1>0, <2>2, <3>1, RelitCounts DEF PeerRestores
    <3>3. events' \in Seq({0, Days})
          BY <1>0, <2>2, <3>2, AppendProperties DEF PeerRestores, ServerOK
    <3>4. Restorable
          BY <2>2 DEF PeerRestores
    <3>5. /\ server' \in [streak : {0, Days}, lost : {0, Days}, tokens : 0..MaxTokens,
                          losses : 0..MaxLosses, asked : 0..MaxAsked]
          /\ TokensCounted'
          BY <1>0, <3>1, <3>4, RelitCounts DEF TokensCounted
    <3> QED BY <3>3, <3>5 DEF ServerOK
  <2> QED BY <2>1, <2>2
<1>2. server'.asked = server.asked
      BY <1>0 DEF LoseStreak, PeerRestores, Relit, ServerOK
<1>3. UNCHANGED <<live, profile, asked, answers, sheet, restore, closers, sign, left>>
      BY DEF LoseStreak, PeerRestores
<1>4. ShownOK' /\ TimersOK'
      BY <1>0, <1>2, <1>3, ShownRest, TimersRest
<1> QED BY <1>1, <1>4 DEF FriendPanelInv

LEMMA ConfirmKeeps ==
  ASSUME FriendPanelInv, NEW fate \in Fates, Confirm(fate)
  PROVE  FriendPanelInv'
<1>0. ShownOK /\ ServerOK /\ TimersOK
      BY DEF FriendPanelInv
<1> DEFINE taken == fate # "undelivered" /\ Restorable
           r == IF fate # "answered" THEN "failed"
                ELSE IF taken THEN "restored" ELSE "refused"
<1>1. server.asked + 1 \in 0..MaxAsked
      BY <1>0, PanelConstants DEF Confirm, ServerOK
<1>2. r \in Results /\ answers' = Append(answers, r)
      BY DEF Confirm, Results
<1>3. ServerOK' /\ server'.asked = server.asked + 1
  <2>1. CASE taken
    <3>1. Restorable
          BY <2>1
    <3>2. /\ server' = [Relit EXCEPT !.asked = server.asked + 1]
          /\ events' = Append(events, Relit.streak)
          BY <1>0, <2>1 DEF Confirm, Relit, ServerOK
    <3>3. Relit.streak = Days
          BY <1>0, <1>1, <3>1, RelitCounts
    <3>4. events' \in Seq({0, Days})
          BY <1>0, <3>2, <3>3, AppendProperties DEF ServerOK
    <3> QED BY <1>0, <1>1, <3>1, <3>2, <3>4, RelitCounts DEF ServerOK, TokensCounted
  <2>2. CASE ~taken
    <3>1. server' = [server EXCEPT !.asked = @ + 1] /\ events' = events
          BY <2>2 DEF Confirm
    <3> QED BY <1>0, <1>1, <3>1 DEF ServerOK, TokensCounted
  <2> QED BY <2>1, <2>2
<1>4. TimersOK'
  <2>1. answers' \in Seq(Results) /\ Len(answers') = Len(answers) + 1 /\ Len(answers) \in Nat
        BY <1>0, <1>2, AppendProperties, LenProperties DEF TimersOK
  <2>2. closers' = closers
        BY DEF Confirm
  <2> QED BY <1>0, <1>3, <2>1, <2>2 DEF TimersOK, ClosersCounted, ServerOK
<1>5. ShownOK'
  <2>1. restore' = "loading" /\ UNCHANGED <<live, profile, asked, sheet, sign, left>>
        BY DEF Confirm
  <2> QED BY <1>0, <2>1 DEF ShownOK
<1> QED BY <1>3, <1>4, <1>5 DEF FriendPanelInv

LEMMA RestoreAnsweredKeeps ==
  ASSUME FriendPanelInv, RestoreAnswered
  PROVE  FriendPanelInv'
<1>0. ShownOK /\ ServerOK /\ TimersOK
      BY DEF FriendPanelInv
<1>1. /\ answers' \in Seq(Results) /\ Len(answers') = Len(answers) - 1
      /\ Len(answers) \in Nat \ {0}
      BY <1>0, HeadTailProperties, EmptySeq, LenProperties DEF RestoreAnswered, TimersOK
<1>2. closers' \in 0..MaxAsked /\ closers' <= closers + 1
      BY <1>0, <1>1, PanelConstants
      DEF RestoreAnswered, TimersOK, ClosersCounted, ServerOK
<1>3. TimersOK'
      BY <1>0, <1>1, <1>2, PanelConstants
      DEF RestoreAnswered, TimersOK, ClosersCounted, ServerOK
<1>4. ShownOK'
      BY <1>0, StreakType DEF RestoreAnswered, ShownOK
<1>5. ServerOK'
  <2>1. UNCHANGED <<server, events>>
        BY DEF RestoreAnswered
  <2> QED BY <1>0, <2>1, ServerRests
<1> QED BY <1>3, <1>4, <1>5 DEF FriendPanelInv

LEMMA ArrivalKeeps ==
  ASSUME FriendPanelInv, StreakArrives \/ \E ok \in BOOLEAN : ProfileArrives(ok)
  PROVE  FriendPanelInv'
<1>0. ShownOK /\ ServerOK /\ TimersOK
      BY DEF FriendPanelInv
<1>z. 0 \in {0, Days}
      OBVIOUS
<1>1. CASE StreakArrives
  <2>1. events' \in Seq({0, Days}) /\ Head(events) \in {0, Days}
        BY <1>0, <1>1, HeadTailProperties, EmptySeq DEF StreakArrives, ServerOK
  <2>2. live' \in Streaks
        BY <1>1, <2>1, <1>z, StreakType DEF StreakArrives
  <2>3. profile' \in Streaks
    <3>1. CASE profile.none
          BY <1>0, <1>1, <3>1 DEF StreakArrives, ShownOK
    <3>2. CASE ~profile.none
      <4>1. PICK s \in {0, Days}, l \in {0, Days} : profile = Streak(s, l)
            BY <1>0, <3>2 DEF ShownOK, Streaks, None
      <4>2. profile' = Streak(Head(events), l)
            BY <1>1, <3>2, <4>1 DEF StreakArrives, Streak
      <4> QED BY <2>1, <4>1, <4>2, StreakType
    <3> QED BY <3>1, <3>2
  <2>4. ShownOK'
        BY <1>0, <1>1, <2>2, <2>3 DEF StreakArrives, ShownOK
  <2>5. UNCHANGED <<server, answers, closers>>
        BY <1>1 DEF StreakArrives
  <2>6. ServerOK' /\ TimersOK'
        BY <1>0, <2>1, <2>5, TimersRest DEF ServerOK, TokensCounted
  <2> QED BY <2>4, <2>6 DEF FriendPanelInv
<1>2. ASSUME NEW ok \in BOOLEAN, ProfileArrives(ok) PROVE FriendPanelInv'
  <2>1. PICK s \in {0, Days}, l \in {0, Days} : asked = Streak(s, l)
        BY <1>0, <1>2 DEF ProfileArrives, ShownOK, Streaks, None
  <2>2. asked.streak = s
        BY <2>1 DEF Streak
  <2>3. live' \in Streaks
        BY <1>0, <1>2, <2>1, <2>2, <1>z, StreakType DEF ProfileArrives, ShownOK
  <2>4. profile' \in Streaks /\ asked' \in Streaks
        BY <1>0, <1>2 DEF ProfileArrives, ShownOK, Streaks
  <2>5. ShownOK'
        BY <1>0, <1>2, <2>3, <2>4 DEF ProfileArrives, ShownOK
  <2>6. UNCHANGED <<server, events, answers, closers>>
        BY <1>2 DEF ProfileArrives
  <2>7. ServerOK' /\ TimersOK'
        BY <1>0, <2>6, ServerRests, TimersRest
  <2> QED BY <2>5, <2>7 DEF FriendPanelInv
<1> QED BY <1>1, <1>2

LEMMA FriendPanelKeep == FriendPanelInv /\ [FriendPanelNext]_panelVars => FriendPanelInv'
<1> SUFFICES ASSUME FriendPanelInv, [FriendPanelNext]_panelVars PROVE FriendPanelInv'
    OBVIOUS
<1>0. ShownOK /\ ServerOK /\ TimersOK
      BY DEF FriendPanelInv
<1>1. ASSUME UNCHANGED <<server, events, live, profile, asked, answers>>,
             sheet' \in {"none", "menu", "report", "remove", "profile", "restore"},
             restore' \in {"initial", "loading", "done", "error"},
             closers' \in 0..closers, left' \in BOOLEAN,
             sign' \in [typing : BOOLEAN, seen : BOOLEAN, mine : BOOLEAN]
      PROVE  FriendPanelInv'
  <2>1. ShownOK' /\ ServerOK'
        BY <1>0, <1>1, ServerRests DEF ShownOK
  <2>2. TimersOK'
    <3>1. Len(answers) \in Nat /\ Len(answers') = Len(answers) /\ server'.asked = server.asked
          BY <1>0, <1>1, LenProperties DEF TimersOK
    <3>2. closers \in 0..MaxAsked /\ closers' \in 0..closers /\ server.asked \in Nat
          BY <1>0, <1>1, PanelConstants DEF TimersOK, ServerOK
    <3> QED BY <1>0, <1>1, <3>1, <3>2, PanelConstants DEF TimersOK, ClosersCounted
  <2> QED BY <2>1, <2>2 DEF FriendPanelInv
<1>2. closers \in 0..closers /\ closers \in Nat
      BY <1>0, PanelConstants DEF TimersOK
<1>3. ASSUME OpenRestore PROVE FriendPanelInv'
      BY <1>0, <1>1, <1>2, <1>3 DEF OpenRestore, ShownOK
<1>4. ASSUME RestoreCloses PROVE FriendPanelInv'
  <2>1. closers' \in 0..closers
        BY <1>2, <1>4 DEF RestoreCloses
  <2> QED BY <1>0, <1>1, <1>4, <2>1 DEF RestoreCloses, ShownOK
<1>5. ASSUME OpenMenu \/ PickEntry \/ OpenProfile \/ CloseDialog PROVE FriendPanelInv'
      BY <1>0, <1>1, <1>2, <1>5
         DEF OpenMenu, PickEntry, OpenProfile, CloseDialog, ShowDialog, ShownOK
<1>6. ASSUME RemoveFriend PROVE FriendPanelInv'
      BY <1>0, <1>1, <1>2, <1>6 DEF RemoveFriend, ShownOK
<1>7. ASSUME Signs PROVE FriendPanelInv'
  <2>1. sign' \in [typing : BOOLEAN, seen : BOOLEAN, mine : BOOLEAN]
    <3>1. /\ sign \in [typing : BOOLEAN, seen : BOOLEAN, mine : BOOLEAN]
          /\ sign.typing \in BOOLEAN /\ sign.seen \in BOOLEAN
          BY <1>0 DEF ShownOK
    <3>2. CASE sign' = [typing |-> sign.typing, seen |-> FALSE, mine |-> TRUE]
          BY <3>1, <3>2
    <3>3. CASE sign' = [typing |-> FALSE, seen |-> sign.seen, mine |-> FALSE]
          BY <3>1, <3>3
    <3>4. ASSUME NEW b \in BOOLEAN, sign' = [sign EXCEPT !.typing = b]
          PROVE  sign' \in [typing : BOOLEAN, seen : BOOLEAN, mine : BOOLEAN]
          BY <3>1, <3>4
    <3>5. CASE sign' = [sign EXCEPT !.seen = TRUE]
          BY <3>1, <3>5
    <3> QED BY <1>7, <3>2, <3>3, <3>4, <3>5 DEF Signs
  <2> QED BY <1>0, <1>1, <1>2, <1>7, <2>1 DEF Signs, ShownOK
<1>8. CASE UNCHANGED panelVars
      BY <1>0, <1>1, <1>2, <1>8 DEF panelVars, ShownOK
<1> QED BY <1>3, <1>4, <1>5, <1>6, <1>7, <1>8, ServerKeeps, ConfirmKeeps,
           RestoreAnsweredKeeps, ArrivalKeeps DEF FriendPanelNext

\* Every variable of the panel keeps its type.
THEOREM FriendPanelTypes == FriendPanelSpec => []FriendPanelTypeOK
BY PanelStart, FriendPanelKeep, PanelInvGives, PTL DEF FriendPanelSpec

\* StreakRestoreModal.tsx:7-9: a loss costs one restoration at most, for any number of
\* losses, of restorations and of times the dialog is confirmed.
THEOREM OneTokenPerLossHolds == FriendPanelSpec => []OneTokenPerLoss
BY PanelStart, FriendPanelKeep, PanelInvGives, PTL DEF FriendPanelSpec

-----------------------------------------------------------------------------
(* The tandem session *)

\* What a leg holds: a frame of one type, at its head only, at most one of each type, all
\* those of one type with one language.
Holds(q, type) == \E i \in DOMAIN q : q[i].type = type
Leads(q, type) == Holds(q, type) => q[1].type = type
EachOnce(q) == \A i, j \in DOMAIN q : q[i].type = q[j].type => i = j
OneLang(q, type, l) == \A i \in DOMAIN q : q[i].type = type => q[i].lang = l

\* While both are in the room nobody has seen the other leave.
Present ==
    \A u \in Sides :
        /\ ~loop[u].peerGone /\ strip[u].kind # "gone"
        /\ ~Holds(stripRoom[u], "left") /\ ~Holds(stripDown[u], "peer_left")
        /\ strip[u].kind = "active" \/ strip[u].lang = NullLang

Ending(u) == Holds(stripRoom[u], "end")

\* Where the proposal of a side is: on its way to its loop, in the room, on its way to the
\* partner's browser, on the screen, as an acceptance on its way back; or lost.
Places == {"none", "up", "room", "prompt", "prompted", "accepting", "accepted", "spent"}

ProposalAt(u, p) ==
    /\ p \in Places
    /\ p = "up" <=> Holds(stripUp[u], "tandem_propose")
    /\ p = "room" <=> Holds(stripRoom[Other(u)], "propose")
    /\ p = "prompt" <=> Holds(stripDown[Other(u)], "tandem_prompt")
    /\ p = "prompted" <=> strip[Other(u)].kind = "prompted"
    /\ p = "accepting" <=> Holds(stripUp[Other(u)], "tandem_accept")
    /\ p = "accepted" <=> Holds(stripRoom[u], "accept")
    /\ p # "none" => strip[u].kind = "proposed"
    /\ p \notin {"none", "up"} => loop[u].proposed
    /\ loop[u].proposed /\ ~Ending(u) => p \notin {"none", "up"}
    /\ p \in {"accepting", "accepted"} => strip[Other(u)].kind # "active"

\* A side that has accepted proposes after it only.
Follow(p, q) == /\ p = "accepting" => q \in {"none", "up"}
                /\ p = "accepted" => q \in {"none", "up", "room"}

\* Outside a session: the end of the one before is the first thing a side reads.
Over(u) ==
    /\ ~Holds(stripRoom[u], "switch") /\ ~Holds(stripDown[u], "tandem_switch")
    /\ Leads(stripDown[u], "tandem_end") /\ Leads(stripRoom[u], "end")
    /\ Ending(u) => /\ stripUp[u] = <<>> /\ stripDown[u] = <<>>
                    /\ stripRoom[Other(u)] = <<>> /\ strip[u].kind = "active"
    /\ strip[u].kind = "active" <=> Ending(u) \/ Holds(stripDown[u], "tandem_end")

Tidy(u) ==
    /\ ~loop[u].active
    /\ EachOnce(stripUp[u]) /\ EachOnce(stripRoom[u]) /\ EachOnce(stripDown[u])
    /\ Leads(stripUp[u], "tandem_accept") /\ Leads(stripRoom[u], "accept")

\* Outside a session, seen from u: its proposal is at p and the other one at q.
Aside(u, p, q) ==
    /\ Tidy(u) /\ Over(u) /\ ProposalAt(u, p) /\ Follow(p, q)
    /\ Tidy(Other(u)) /\ Over(Other(u)) /\ ProposalAt(Other(u), q) /\ Follow(q, p)

Between == \E p, q \in Places : Aside("a", p, q)

\* Inside a session: language l is on its way to the strip of u, or imposed there.
Imposed(u, l) ==
    /\ OneLang(stripRoom[u], "switch", l) /\ OneLang(stripDown[u], "tandem_switch", l)
    /\ ~Ending(u) /\ ~Holds(stripDown[u], "tandem_end")
    /\ \/ Holds(stripRoom[u], "switch") \/ Holds(stripDown[u], "tandem_switch")
       \/ strip[u] = [kind |-> "active", lang |-> l]

\* The loop of w owns the clock and nothing will make the other one start.
Running(w) ==
    /\ loop[w].active /\ loop[w].timer /\ loop[w].phase \in 1..2 /\ ~loop[Other(w)].active
    /\ \A u \in Sides : Imposed(u, PhaseLang(w, loop[w].phase))
    /\ ~Holds(stripRoom[w], "switch") /\ ~Holds(stripRoom[Other(w)], "accept")
    /\ SmallerID(Other(w)) => ~Holds(stripRoom[Other(w)], "propose")

TandemInv ==
    /\ TandemTypeOK
    /\ BothHere => Present /\ (Between \/ \E w \in Sides : Running(w))

-----------------------------------------------------------------------------
LEMMA TwoSides ==
  /\ \A u \in Sides : Other(u) \in Sides /\ Other(u) # u /\ Other(Other(u)) = u
  /\ \A u, v \in Sides : v = u \/ v = Other(u)
BY DEF Sides, Other

\* What a frame adds to a queue.
LEMMA FrameAdded ==
  ASSUME NEW S, NEW q \in Seq(S), NEW m \in S
  PROVE  /\ Append(q, m) \in Seq(S) /\ Append(q, m) # <<>>
         /\ \A t : Holds(Append(q, m), t) <=> Holds(q, t) \/ m.type = t
         /\ EachOnce(q) /\ ~Holds(q, m.type) => EachOnce(Append(q, m))
         /\ \A t : Leads(q, t) /\ (m.type # t \/ q = <<>>) => Leads(Append(q, m), t)
         /\ \A t, l : OneLang(q, t, l) /\ (m.type = t => m.lang = l)
                        => OneLang(Append(q, m), t, l)
<1> DEFINE r == Append(q, m)
<1>1. /\ r \in Seq(S) /\ Len(r) = Len(q) + 1 /\ DOMAIN r = 1..(Len(q) + 1)
      /\ DOMAIN q = 1..Len(q) /\ Len(q) \in Nat
      /\ \A i \in DOMAIN q : r[i] = q[i]
      /\ r[Len(q) + 1] = m
      OBVIOUS
<1>2. r # <<>>
      BY <1>1
<1>3. \A i \in DOMAIN r : i \in DOMAIN q \/ i = Len(q) + 1
      BY <1>1
<1>4. DOMAIN q \subseteq DOMAIN r /\ Len(q) + 1 \in DOMAIN r /\ Len(q) + 1 \notin DOMAIN q
      BY <1>1
<1>5. q # <<>> => 1 \in DOMAIN q
      BY <1>1
<1>6. ASSUME NEW t PROVE Holds(r, t) <=> Holds(q, t) \/ m.type = t
      BY <1>1, <1>3, <1>4 DEF Holds
<1>7. EachOnce(q) /\ ~Holds(q, m.type) => EachOnce(r)
      BY <1>1, <1>3, <1>4 DEF Holds, EachOnce
<1>8. ASSUME NEW t, Leads(q, t), m.type # t \/ q = <<>> PROVE Leads(r, t)
  <2>1. CASE q = <<>>
        BY <1>1, <1>3, <2>1, <1>6 DEF Leads, Holds
  <2>2. CASE q # <<>>
        BY <1>1, <1>5, <1>6, <1>8, <2>2 DEF Leads
  <2> QED BY <2>1, <2>2
<1>9. ASSUME NEW t, NEW l, OneLang(q, t, l), m.type = t => m.lang = l PROVE OneLang(r, t, l)
      BY <1>1, <1>3, <1>9 DEF OneLang
<1> QED BY <1>1, <1>2, <1>6, <1>7, <1>8, <1>9

\* What is left of a queue without its first frame.
LEMMA FrameTaken ==
  ASSUME NEW S, NEW q \in Seq(S), q # <<>>
  PROVE  /\ Head(q) \in S /\ Tail(q) \in Seq(S)
         /\ \A t : Holds(q, t) <=> Head(q).type = t \/ Holds(Tail(q), t)
         /\ EachOnce(q) => EachOnce(Tail(q)) /\ ~Holds(Tail(q), Head(q).type)
         /\ \A t : Leads(q, t) /\ Head(q).type # t => ~Holds(q, t)
         /\ \A t : Leads(q, t) /\ EachOnce(q) => Leads(Tail(q), t)
         /\ \A t, l : OneLang(q, t, l)
                        => OneLang(Tail(q), t, l) /\ (Head(q).type = t => Head(q).lang = l)
<1> DEFINE r == Tail(q)
<1>1. /\ Head(q) \in S /\ r \in Seq(S) /\ Head(q) = q[1] /\ 1 \in DOMAIN q
      /\ \A i \in DOMAIN r : i + 1 \in DOMAIN q /\ r[i] = q[i + 1] /\ i + 1 # 1
      /\ \A i \in DOMAIN q : i = 1 \/ (i - 1 \in DOMAIN r /\ r[i - 1] = q[i])
      OBVIOUS
<1>7. ASSUME NEW i \in DOMAIN r, NEW j \in DOMAIN r, i + 1 = j + 1 PROVE i = j
  <2>1. DOMAIN r = 1..Len(r)
        BY <1>1
  <2>2. i \in Int /\ j \in Int
        BY <2>1
  <2> QED BY <2>2, <1>7
<1>2. ASSUME NEW t PROVE Holds(q, t) <=> Head(q).type = t \/ Holds(r, t)
  <2>1. ASSUME NEW i \in DOMAIN q, q[i].type = t
        PROVE  Head(q).type = t \/ \E j \in DOMAIN r : r[j].type = t
    <3>1. CASE i = 1
          BY <1>1, <2>1, <3>1
    <3>2. CASE i # 1
          BY <1>1, <2>1, <3>2
    <3> QED BY <3>1, <3>2
  <2>2. ASSUME Head(q).type = t PROVE \E i \in DOMAIN q : q[i].type = t
        BY <1>1, <2>2
  <2>3. ASSUME NEW j \in DOMAIN r, r[j].type = t PROVE \E i \in DOMAIN q : q[i].type = t
        BY <1>1, <2>3
  <2> HIDE DEF r
  <2> QED BY <2>1, <2>2, <2>3, Zenon DEF Holds
<1>3. ASSUME EachOnce(q) PROVE EachOnce(r) /\ ~Holds(r, Head(q).type)
      BY <1>1, <1>7, <1>3 DEF Holds, EachOnce
<1>4. ASSUME NEW t, Leads(q, t), Head(q).type # t PROVE ~Holds(q, t)
      BY <1>1, <1>4 DEF Leads
<1>5. ASSUME NEW t, Leads(q, t), EachOnce(q) PROVE Leads(r, t)
      BY <1>2, <1>3, <1>4, <1>5 DEF Leads
<1>6. ASSUME NEW t, NEW l, OneLang(q, t, l)
      PROVE  OneLang(r, t, l) /\ (Head(q).type = t => Head(q).lang = l)
      BY <1>1, <1>6 DEF OneLang
<1> QED BY <1>1, <1>2, <1>3, <1>4, <1>5, <1>6

\* An empty queue.
LEMMA EmptyLeg ==
  /\ \A t : ~Holds(<<>>, t) /\ Leads(<<>>, t) /\ \A l : OneLang(<<>>, t, l)
  /\ EachOnce(<<>>)
BY DEF Holds, Leads, OneLang, EachOnce

\* A frame by itself.
LEMMA OneFrame ==
  ASSUME NEW m
  PROVE  /\ \A t : Holds(<<m>>, t) <=> m.type = t
         /\ \A t : Leads(<<m>>, t)
         /\ EachOnce(<<m>>)
         /\ \A t, l : (m.type = t => m.lang = l) => OneLang(<<m>>, t, l)
         /\ Append(<<>>, m) = <<m>>
BY DEF Holds, Leads, OneLang, EachOnce

-----------------------------------------------------------------------------
(* The types *)

StripKinds == {"null", "proposed", "prompted", "active", "gone"}

LEMMA TandemMsgTypes ==
  /\ TandemMsg("tandem_propose", NullLang) \in BrowserFrame
  /\ TandemMsg("tandem_accept", NullLang) \in BrowserFrame
  /\ \A t \in {"propose", "accept", "end", "left"} : TandemMsg(t, NullLang) \in RoomEvent
  /\ \A t \in {"tandem_prompt", "tandem_end", "peer_left"} :
        TandemMsg(t, NullLang) \in LoopFrame
  /\ \A l \in StripLangs : TandemMsg("switch", l) \in RoomEvent
                          /\ TandemMsg("tandem_switch", l) \in LoopFrame
  /\ \A u \in Sides : \A n : PhaseLang(u, n) \in StripLangs
BY TwoSides DEF TandemMsg, BrowserFrame, RoomEvent, LoopFrame, StripLangs, PhaseLang

LEMMA TandemTypesStart == TandemInit => TandemTypeOK
BY TandemAssumption DEF TandemInit, TandemTypeOK, TandemAssumption, NoWish, StripLangs

Loops == [proposed : BOOLEAN, active : BOOLEAN, phase : 0..2, timer : BOOLEAN,
          peerGone : BOOLEAN, here : BOOLEAN]

\* What each variable holds.
StripsOK == /\ strip \in [Sides -> [kind : StripKinds, lang : StripLangs]]
            /\ dismissed \in [Sides -> BOOLEAN] /\ loop \in [Sides -> Loops]

LegsOK == /\ stripUp \in [Sides -> Seq(BrowserFrame)] /\ stripRoom \in [Sides -> Seq(RoomEvent)]
          /\ stripDown \in [Sides -> Seq(LoopFrame)]

ShortOK == \A u \in Sides : Len(stripUp[u]) <= QueueCap

LEMMA TandemTypes == TandemTypeOK <=> StripsOK /\ LegsOK /\ ShortOK
BY DEF TandemTypeOK, StripsOK, LegsOK, ShortOK, StripKinds, Loops

\* What the start of a phase, the end of a session and one assignment leave of a loop.
LEMMA PhaseFields ==
  ASSUME NEW l \in Loops, NEW n \in 0..2
  PROVE  /\ InPhase(l, n) \in Loops
         /\ InPhase(l, n).active /\ InPhase(l, n).phase = n /\ InPhase(l, n).timer
         /\ InPhase(l, n).peerGone = l.peerGone /\ InPhase(l, n).here = l.here
<1> DEFINE a == [l EXCEPT !.active = TRUE]
           b == [a EXCEPT !.phase = n]
           c == [b EXCEPT !.timer = TRUE]
<1>1. a \in Loops /\ a.active /\ a.peerGone = l.peerGone /\ a.here = l.here
      BY DEF Loops
<1> HIDE DEF a
<1>2. b \in Loops /\ b.active /\ b.phase = n /\ b.peerGone = l.peerGone /\ b.here = l.here
      BY <1>1 DEF Loops
<1> HIDE DEF b
<1>3. /\ c \in Loops /\ c.active /\ c.phase = n /\ c.timer
      /\ c.peerGone = l.peerGone /\ c.here = l.here
      BY <1>2 DEF Loops
<1>4. c = InPhase(l, n)
      BY DEF InPhase, b, a
<1> QED BY <1>3, <1>4

LEMMA EndedFields ==
  ASSUME NEW l \in Loops
  PROVE  /\ Ended(l) \in Loops
         /\ ~Ended(l).active /\ ~Ended(l).timer /\ ~Ended(l).proposed
         /\ Ended(l).peerGone = l.peerGone /\ Ended(l).here = l.here
<1> DEFINE a == [l EXCEPT !.active = FALSE]
           b == [a EXCEPT !.phase = 0]
           c == [b EXCEPT !.proposed = FALSE]
           d == [c EXCEPT !.timer = FALSE]
<1>1. a \in Loops /\ ~a.active /\ a.peerGone = l.peerGone /\ a.here = l.here
      BY DEF Loops
<1> HIDE DEF a
<1>2. b \in Loops /\ ~b.active /\ b.peerGone = l.peerGone /\ b.here = l.here
      BY <1>1 DEF Loops
<1> HIDE DEF b
<1>3. /\ c \in Loops /\ ~c.active /\ ~c.proposed
      /\ c.peerGone = l.peerGone /\ c.here = l.here
      BY <1>2 DEF Loops
<1> HIDE DEF c
<1>4. /\ d \in Loops /\ ~d.active /\ ~d.proposed /\ ~d.timer
      /\ d.peerGone = l.peerGone /\ d.here = l.here
      BY <1>3 DEF Loops
<1>5. d = Ended(l)
      BY DEF Ended, c, b, a
<1> QED BY <1>4, <1>5

LEMMA LoopSet ==
  \A l \in Loops :
      /\ [l EXCEPT !.proposed = TRUE] \in Loops /\ [l EXCEPT !.peerGone = TRUE] \in Loops
      /\ [l EXCEPT !.timer = FALSE] \in Loops /\ [l EXCEPT !.here = FALSE] \in Loops
BY DEF Loops

LEMMA StripsKept == StripsOK /\ LegsOK /\ [TandemNext]_tandemVars => StripsOK'
<1> SUFFICES ASSUME StripsOK, LegsOK, [TandemNext]_tandemVars PROVE StripsOK'
    OBVIOUS
<1>1. ASSUME NEW u \in Sides, Propose(u) \/ AcceptPrompt(u) PROVE StripsOK'
      BY <1>1 DEF StripsOK, Propose, AcceptPrompt, NoWish, StripLangs, StripKinds
<1>2. ASSUME NEW u \in Sides, Dismiss(u) PROVE StripsOK'
      BY <1>2 DEF StripsOK, Dismiss
<1>3. ASSUME NEW u \in Sides, OnTandemFrame(u) PROVE StripsOK'
  <2>1. Head(stripDown[u]) \in LoopFrame
        BY <1>3, Dequeued DEF LegsOK, OnTandemFrame
  <2>2. Head(stripDown[u]).lang \in StripLangs
        BY <2>1 DEF LoopFrame
  <2> QED BY <1>3, <2>2 DEF StripsOK, OnTandemFrame, NoWish, NullLang, StripLangs, StripKinds
<1>4. ASSUME NEW u \in Sides, FromBrowser(u) PROVE StripsOK'
  <2>1. loop' = loop \/ loop' = [loop EXCEPT ![u] = [loop[u] EXCEPT !.proposed = TRUE]]
        BY <1>4 DEF FromBrowser
  <2>2. loop \in [Sides -> Loops] /\ loop[u] \in Loops
        BY <1>4 DEF StripsOK
  <2>3. loop' \in [Sides -> Loops]
        BY <2>1, <2>2, LoopSet
  <2>4. UNCHANGED <<strip, dismissed>>
        BY <1>4 DEF FromBrowser
  <2> QED BY <2>3, <2>4 DEF StripsOK
<1>5. ASSUME NEW u \in Sides, FromRoom(u) PROVE StripsOK'
  <2>1. \/ loop' = loop
        \/ loop' = [loop EXCEPT ![u] = InPhase(loop[u], 1)]
        \/ loop' = [loop EXCEPT ![u] = Ended(loop[u])]
        \/ loop' = [loop EXCEPT ![u] = [loop[u] EXCEPT !.peerGone = TRUE]]
        BY <1>5 DEF FromRoom, PhaseStarted
  <2>2. loop[u] \in Loops /\ InPhase(loop[u], 1) \in Loops /\ InPhase(loop[u], 2) \in Loops
        BY PhaseFields DEF StripsOK
  <2>3. /\ Ended(loop[u]) \in Loops /\ [Ended(loop[u]) EXCEPT !.here = FALSE] \in Loops
        /\ [loop[u] EXCEPT !.peerGone = TRUE] \in Loops
        /\ [loop[u] EXCEPT !.timer = FALSE] \in Loops
        BY <2>2, EndedFields, LoopSet
  <2>4. loop' \in [Sides -> Loops]
        BY <2>1, <2>2, <2>3 DEF StripsOK
  <2> QED BY <1>5, <2>4 DEF StripsOK, FromRoom
<1>6. ASSUME NEW u \in Sides, PhaseOver(u) PROVE StripsOK'
  <2>1. \/ loop' = [loop EXCEPT ![u] = [loop[u] EXCEPT !.timer = FALSE]]
        \/ loop' = [loop EXCEPT ![u] = InPhase(loop[u], 2)]
        \/ loop' = [loop EXCEPT ![u] = Ended(loop[u])]
        BY <1>6 DEF PhaseOver, PhaseStarted
  <2>2. loop[u] \in Loops /\ InPhase(loop[u], 1) \in Loops /\ InPhase(loop[u], 2) \in Loops
        BY PhaseFields DEF StripsOK
  <2>3. /\ Ended(loop[u]) \in Loops /\ [Ended(loop[u]) EXCEPT !.here = FALSE] \in Loops
        /\ [loop[u] EXCEPT !.peerGone = TRUE] \in Loops
        /\ [loop[u] EXCEPT !.timer = FALSE] \in Loops
        BY <2>2, EndedFields, LoopSet
  <2>4. loop' \in [Sides -> Loops]
        BY <2>1, <2>2, <2>3 DEF StripsOK
  <2> QED BY <1>6, <2>4 DEF StripsOK, PhaseOver
<1>7. ASSUME NEW u \in Sides, LeaveRoom(u) PROVE StripsOK'
  <2>1. loop' = [loop EXCEPT ![u] = [Ended(loop[u]) EXCEPT !.here = FALSE]]
        BY <1>7 DEF LeaveRoom
  <2>2. loop[u] \in Loops /\ InPhase(loop[u], 1) \in Loops /\ InPhase(loop[u], 2) \in Loops
        BY PhaseFields DEF StripsOK
  <2>3. /\ Ended(loop[u]) \in Loops /\ [Ended(loop[u]) EXCEPT !.here = FALSE] \in Loops
        /\ [loop[u] EXCEPT !.peerGone = TRUE] \in Loops
        /\ [loop[u] EXCEPT !.timer = FALSE] \in Loops
        BY <2>2, EndedFields, LoopSet
  <2>4. loop' \in [Sides -> Loops]
        BY <2>1, <2>2, <2>3 DEF StripsOK
  <2> QED BY <1>7, <2>4 DEF StripsOK, LeaveRoom
<1>8. CASE UNCHANGED tandemVars
      BY <1>8 DEF StripsOK, tandemVars
<1> QED BY <1>1, <1>2, <1>3, <1>4, <1>5, <1>6, <1>7, <1>8 DEF TandemNext

LEMMA LegsKept == StripsOK /\ LegsOK /\ [TandemNext]_tandemVars => LegsOK'
<1> SUFFICES ASSUME StripsOK, LegsOK, [TandemNext]_tandemVars PROVE LegsOK'
    OBVIOUS
<1>1. ASSUME NEW u \in Sides, NEW m \in BrowserFrame, stripUp' = Enqueued(stripUp, u, m)
      PROVE  stripUp' \in [Sides -> Seq(BrowserFrame)]
      BY <1>1, Queued DEF Enqueued, LegsOK
<1>2. ASSUME NEW u \in Sides, NEW m \in LoopFrame, stripDown' = Enqueued(stripDown, u, m)
      PROVE  stripDown' \in [Sides -> Seq(LoopFrame)]
      BY <1>2, Queued DEF Enqueued, LegsOK
<1>3. ASSUME NEW r \in [Sides -> Seq(RoomEvent)], NEW u \in Sides, NEW m \in RoomEvent,
             stripRoom' = Enqueued(r, u, m)
      PROVE  stripRoom' \in [Sides -> Seq(RoomEvent)]
      BY <1>3, Queued DEF Enqueued
<1>4. ASSUME NEW u \in Sides, Propose(u) \/ AcceptPrompt(u) PROVE LegsOK'
  <2>1. \/ stripUp' = Enqueued(stripUp, u, TandemMsg("tandem_propose", NullLang))
        \/ stripUp' = Enqueued(stripUp, u, TandemMsg("tandem_accept", NullLang))
        BY <1>4 DEF Propose, AcceptPrompt
  <2>2. stripUp' \in [Sides -> Seq(BrowserFrame)]
        BY <2>1, <1>1, TandemMsgTypes
  <2> QED BY <1>4, <2>2 DEF Propose, AcceptPrompt, LegsOK
<1>5. ASSUME NEW u \in Sides, OnTandemFrame(u) PROVE LegsOK'
  <2>1. stripDown' \in [Sides -> Seq(LoopFrame)]
        BY <1>5, Dequeued DEF OnTandemFrame, LegsOK
  <2> QED BY <1>5, <2>1 DEF OnTandemFrame, LegsOK
<1>6. ASSUME NEW u \in Sides, FromBrowser(u) PROVE LegsOK'
  <2>1. stripUp' \in [Sides -> Seq(BrowserFrame)]
        BY <1>6, Dequeued DEF FromBrowser, LegsOK
  <2>2. \/ stripRoom' = stripRoom
        \/ stripRoom' = Enqueued(stripRoom, Other(u), TandemMsg("propose", NullLang))
        \/ stripRoom' = Enqueued(stripRoom, Other(u), TandemMsg("accept", NullLang))
        BY <1>6 DEF FromBrowser
  <2>3. stripRoom' \in [Sides -> Seq(RoomEvent)]
        BY <2>2, <1>3, TandemMsgTypes, TwoSides DEF LegsOK
  <2> QED BY <1>6, <2>1, <2>3 DEF FromBrowser, LegsOK
<1>7. ASSUME NEW u \in Sides, FromRoom(u) PROVE LegsOK'
  <2> DEFINE rest == [stripRoom EXCEPT ![u] = Tail(@)]
             m == Head(stripRoom[u])
  <2>1. rest \in [Sides -> Seq(RoomEvent)] /\ m \in RoomEvent
        BY <1>7, Dequeued DEF FromRoom, LegsOK
  <2>2. m.lang \in StripLangs
        BY <2>1 DEF RoomEvent
  <2>3. \/ stripRoom' = rest
        \/ stripRoom' = Enqueued(rest, Other(u), TandemMsg("switch", PhaseLang(u, 1)))
        BY <1>7 DEF FromRoom
  <2>4. stripRoom' \in [Sides -> Seq(RoomEvent)]
        BY <2>1, <2>3, <1>3, TandemMsgTypes, TwoSides
  <2>5. \/ stripDown' = stripDown
        \/ stripDown' = Enqueued(stripDown, u, TandemMsg("tandem_prompt", NullLang))
        \/ stripDown' = Enqueued(stripDown, u, TandemMsg("tandem_end", NullLang))
        \/ stripDown' = Enqueued(stripDown, u, TandemMsg("peer_left", NullLang))
        \/ stripDown' = Enqueued(stripDown, u, TandemMsg("tandem_switch", m.lang))
        \/ stripDown' = Enqueued(stripDown, u, TandemMsg("tandem_switch", PhaseLang(u, 1)))
        BY <1>7 DEF FromRoom, PhaseStarted
  <2>6. stripDown' \in [Sides -> Seq(LoopFrame)]
        BY <2>2, <2>5, <1>2, TandemMsgTypes DEF LegsOK
  <2> QED BY <1>7, <2>4, <2>6 DEF FromRoom, LegsOK
<1>8. ASSUME NEW u \in Sides, PhaseOver(u) PROVE LegsOK'
  <2>1. \/ stripRoom' = stripRoom
        \/ stripRoom' = Enqueued(stripRoom, Other(u), TandemMsg("switch", PhaseLang(u, 2)))
        \/ stripRoom' = Enqueued(stripRoom, Other(u), TandemMsg("end", NullLang))
        BY <1>8 DEF PhaseOver
  <2>2. stripRoom' \in [Sides -> Seq(RoomEvent)]
        BY <2>1, <1>3, TandemMsgTypes, TwoSides DEF LegsOK
  <2>3. \/ stripDown' = stripDown
        \/ stripDown' = Enqueued(stripDown, u, TandemMsg("tandem_switch", PhaseLang(u, 2)))
        \/ stripDown' = Enqueued(stripDown, u, TandemMsg("tandem_end", NullLang))
        BY <1>8 DEF PhaseOver, PhaseStarted
  <2>4. stripDown' \in [Sides -> Seq(LoopFrame)]
        BY <2>3, <1>2, TandemMsgTypes DEF LegsOK
  <2> QED BY <1>8, <2>2, <2>4 DEF PhaseOver, LegsOK
<1>9. ASSUME NEW u \in Sides, LeaveRoom(u) PROVE LegsOK'
  <2>1. stripRoom' = Enqueued(stripRoom, Other(u), TandemMsg("left", NullLang))
        BY <1>9 DEF LeaveRoom
  <2>2. stripRoom' \in [Sides -> Seq(RoomEvent)]
        BY <2>1, <1>3, TandemMsgTypes, TwoSides DEF LegsOK
  <2> QED BY <1>9, <2>2 DEF LeaveRoom, LegsOK
<1>10. CASE UNCHANGED tandemVars \/ \E u \in Sides : Dismiss(u)
       BY <1>10 DEF LegsOK, tandemVars, Dismiss
<1> QED BY <1>4, <1>5, <1>6, <1>7, <1>8, <1>9, <1>10 DEF TandemNext

LEMMA ShortKept == LegsOK /\ ShortOK /\ [TandemNext]_tandemVars => ShortOK'
<1> SUFFICES ASSUME LegsOK, ShortOK, [TandemNext]_tandemVars, NEW v \in Sides
             PROVE  Len(stripUp'[v]) <= QueueCap
    BY DEF ShortOK
<1>1. /\ stripUp[v] \in Seq(BrowserFrame) /\ Len(stripUp[v]) \in Nat
      /\ Len(stripUp[v]) <= QueueCap /\ QueueCap \in Nat
      BY TandemAssumption DEF LegsOK, ShortOK, TandemAssumption
<1>2. \/ stripUp'[v] = stripUp[v]
      \/ stripUp[v] # <<>> /\ stripUp'[v] = Tail(stripUp[v])
      \/ /\ Len(stripUp[v]) < QueueCap
         /\ \E m \in BrowserFrame : stripUp'[v] = Append(stripUp[v], m)
  <2>1. ASSUME NEW u \in Sides, Propose(u) \/ AcceptPrompt(u)
        PROVE  \/ stripUp'[v] = stripUp[v]
               \/ /\ Len(stripUp[v]) < QueueCap
                  /\ \E m \in BrowserFrame : stripUp'[v] = Append(stripUp[v], m)
    <3>1. /\ Len(stripUp[u]) < QueueCap
          /\ \/ stripUp' = Enqueued(stripUp, u, TandemMsg("tandem_propose", NullLang))
             \/ stripUp' = Enqueued(stripUp, u, TandemMsg("tandem_accept", NullLang))
          BY <2>1 DEF Propose, AcceptPrompt
    <3> QED BY <3>1, TandemMsgTypes DEF LegsOK, Enqueued
  <2>2. ASSUME NEW u \in Sides, FromBrowser(u)
        PROVE  stripUp'[v] = stripUp[v] \/ (stripUp[v] # <<>> /\ stripUp'[v] = Tail(stripUp[v]))
    <3>1. stripUp[u] # <<>> /\ stripUp' = [stripUp EXCEPT ![u] = Tail(@)]
          BY <2>2 DEF FromBrowser
    <3> QED BY <3>1 DEF LegsOK
  <2>3. ASSUME NEW u \in Sides,
               Dismiss(u) \/ OnTandemFrame(u) \/ FromRoom(u) \/ PhaseOver(u) \/ LeaveRoom(u)
        PROVE  stripUp' = stripUp
        BY <2>3 DEF Dismiss, OnTandemFrame, FromRoom, PhaseOver, LeaveRoom
  <2> QED BY <2>1, <2>2, <2>3 DEF TandemNext, tandemVars
<1>3. CASE stripUp'[v] = stripUp[v]
      BY <1>1, <1>3
<1>4. CASE stripUp[v] # <<>> /\ stripUp'[v] = Tail(stripUp[v])
  <2>1. Len(stripUp'[v]) = Len(stripUp[v]) - 1
        BY <1>1, <1>4, Dequeued
  <2> QED BY <1>1, <2>1
<1>5. CASE /\ Len(stripUp[v]) < QueueCap
           /\ \E m \in BrowserFrame : stripUp'[v] = Append(stripUp[v], m)
  <2>1. Len(stripUp'[v]) = Len(stripUp[v]) + 1
        BY <1>1, <1>5, Queued
  <2> QED BY <1>1, <1>5, <2>1
<1> QED BY <1>2, <1>3, <1>4, <1>5

-----------------------------------------------------------------------------
(* Outside a session *)

\* The view of either side is as good.
LEMMA AsideOf ==
  ASSUME Between, NEW u \in Sides
  PROVE  \E p, q \in Places : Aside(u, p, q)
BY DEF Between, Aside, Sides, Other

LEMMA BetweenFrom ==
  ASSUME NEW u \in Sides, NEW p, NEW q, Aside(u, p, q)'
  PROVE  Between'
BY DEF Between, Aside, ProposalAt, Sides, Other

\* The strip's button: the proposal sets out.
LEMMA AsidePropose ==
  ASSUME StripsOK, LegsOK, Present, NEW u \in Sides, NEW p, NEW q, Aside(u, p, q), Propose(u)
  PROVE  Aside(u, "up", q)'
<1> DEFINE o == Other(u)
           m == TandemMsg("tandem_propose", NullLang)
<1>0. o \in Sides /\ o # u /\ Other(o) = u
      BY TwoSides
<1>1. /\ UNCHANGED <<loop, stripRoom, stripDown>>
      /\ stripUp'[u] = Append(stripUp[u], m) /\ stripUp'[o] = stripUp[o]
      /\ strip[u].kind = "null" /\ strip'[u].kind = "proposed" /\ strip'[o] = strip[o]
      BY <1>0 DEF Propose, CanPropose, StripsOK, LegsOK, Enqueued
<1>2. m.type = "tandem_propose" /\ m \in BrowserFrame /\ stripUp[u] \in Seq(BrowserFrame)
      BY TandemMsgTypes DEF TandemMsg, LegsOK
<1>3. p = "none" /\ ~Ending(u)
      BY <1>1 DEF Aside, ProposalAt, Over
<1>4. /\ \A t : Holds(stripUp'[u], t) <=> Holds(stripUp[u], t) \/ t = "tandem_propose"
      /\ EachOnce(stripUp'[u]) /\ Leads(stripUp'[u], "tandem_accept")
      BY <1>1, <1>2, <1>3, FrameAdded DEF Aside, ProposalAt, Tidy
<1> HIDE DEF o, m
<1>5. Tidy(u)' /\ Tidy(o)'
      BY <1>1, <1>4 DEF Aside, Tidy, o
<1>6. Over(u)' /\ Over(o)'
      BY <1>0, <1>1, <1>3 DEF Aside, Over, Ending, o
<1>7. ProposalAt(u, "up")'
      BY <1>0, <1>1, <1>3, <1>4 DEF Aside, ProposalAt, Places, Ending, o
<1>8. ProposalAt(o, q)'
      BY <1>0, <1>1, <1>3, <1>4 DEF Aside, ProposalAt, Places, Ending, o
<1> QED BY <1>3, <1>5, <1>6, <1>7, <1>8 DEF Aside, Follow, o

\* The prompt's button: the partner's proposal comes back as an acceptance.
LEMMA AsideAccept ==
  ASSUME StripsOK, LegsOK, Present, NEW u \in Sides, NEW p, NEW q, Aside(u, p, q),
         AcceptPrompt(u)
  PROVE  Aside(u, "none", "accepting")'
<1> DEFINE o == Other(u)
           m == TandemMsg("tandem_accept", NullLang)
<1>0. o \in Sides /\ o # u /\ Other(o) = u
      BY TwoSides
<1>1. /\ UNCHANGED <<loop, stripRoom, stripDown>>
      /\ stripUp'[u] = Append(stripUp[u], m) /\ stripUp'[o] = stripUp[o]
      /\ strip[u].kind = "prompted" /\ strip'[u].kind = "null" /\ strip'[o] = strip[o]
      BY <1>0 DEF AcceptPrompt, PromptShown, StripsOK, LegsOK, Enqueued, NoWish
<1>2. m.type = "tandem_accept" /\ m \in BrowserFrame /\ stripUp[u] \in Seq(BrowserFrame)
      BY TandemMsgTypes DEF TandemMsg, LegsOK
<1>3. p = "none" /\ q = "prompted" /\ ~Ending(u)
      BY <1>0, <1>1 DEF Aside, ProposalAt, Over
<1>4. stripUp[u] = <<>>
  <2>1. /\ ~Holds(stripUp[u], "tandem_propose") /\ ~Holds(stripUp[u], "tandem_accept")
        BY <1>0, <1>3 DEF Aside, ProposalAt
  <2>2. stripUp[u] # <<>> => /\ Holds(stripUp[u], Head(stripUp[u]).type)
                             /\ Head(stripUp[u]) \in BrowserFrame
        BY <1>2, FrameTaken
  <2> QED BY <2>1, <2>2 DEF BrowserFrame
<1>5. /\ \A t : Holds(stripUp'[u], t) <=> t = "tandem_accept"
      /\ EachOnce(stripUp'[u]) /\ Leads(stripUp'[u], "tandem_accept")
  <2>1. stripUp'[u] = <<m>>
        BY <1>1, <1>4, OneFrame
  <2> QED BY <1>2, <2>1, OneFrame
<1> HIDE DEF o, m
<1>6. Tidy(u)' /\ Tidy(o)'
      BY <1>1, <1>5 DEF Aside, Tidy, o
<1>7. Over(u)' /\ Over(o)'
      BY <1>0, <1>1, <1>3 DEF Aside, Over, Ending, o
<1>8. ProposalAt(u, "none")'
      BY <1>0, <1>1, <1>3, <1>5 DEF Aside, ProposalAt, Places, Ending, o
<1>9. ProposalAt(o, "accepting")'
      BY <1>0, <1>1, <1>3, <1>4, <1>5, EmptyLeg DEF Aside, ProposalAt, Places, Ending, o
<1> QED BY <1>3, <1>6, <1>7, <1>8, <1>9 DEF Aside, Follow, o

\* A prompt is shown or falls beside another wish; the end of the last session is shown.
\* A strip shows the prompt, or drops it when something is under way on this side, and
\* forgets the session that has ended.
LEMMA AsideFrame ==
  ASSUME StripsOK, LegsOK, Present, NEW u \in Sides, NEW p, NEW q, Aside(u, p, q),
         OnTandemFrame(u)
  PROVE  \E r \in Places : Aside(u, p, r)'
<1> DEFINE o == Other(u)
           f == Head(stripDown[u])
<1>0. o \in Sides /\ o # u /\ Other(o) = u
      BY TwoSides
<1>1. /\ UNCHANGED <<loop, stripRoom, stripUp>> /\ strip'[o] = strip[o]
      /\ stripDown[u] # <<>> /\ stripDown'[u] = Tail(stripDown[u])
      /\ stripDown'[o] = stripDown[o]
      BY <1>0 DEF OnTandemFrame, StripsOK, LegsOK
<1>2. stripDown[u] \in Seq(LoopFrame) /\ f \in LoopFrame
      BY <1>1, Dequeued DEF LegsOK
<1>3. /\ \A t : Holds(stripDown[u], t) <=> f.type = t \/ Holds(stripDown'[u], t)
      /\ EachOnce(stripDown'[u]) /\ ~Holds(stripDown'[u], f.type)
      /\ Leads(stripDown'[u], "tandem_end")
      BY <1>1, <1>2, FrameTaken DEF Aside, Tidy, Over
<1>4. ~Ending(u) /\ f.type \in {"tandem_prompt", "tandem_end"}
  <2>1. ~Ending(u)
        BY <1>1 DEF Aside, Over
  <2>2. f.type # "tandem_switch" /\ f.type # "peer_left"
        BY <1>3 DEF Aside, Over, Present
  <2> QED BY <1>2, <2>1, <2>2 DEF LoopFrame
<1>5. Tidy(u)' /\ Tidy(o)'
      BY <1>0, <1>1, <1>3 DEF Aside, Tidy
<1>6. CASE f.type = "tandem_prompt" /\ strip[u] = NoWish
  <2>1. strip'[u].kind = "prompted" /\ strip[u].kind = "null"
        BY <1>1, <1>6 DEF OnTandemFrame, StripsOK, NoWish
  <2>2. q = "prompt"
        BY <1>0, <1>3, <1>6 DEF Aside, ProposalAt
  <2> HIDE DEF o, f
  <2>3. Over(u)' /\ Over(o)'
        BY <1>0, <1>1, <1>3, <1>4, <1>6, <2>1 DEF Aside, Over, Ending, o
  <2>4. ProposalAt(u, p)'
        BY <1>0, <1>1, <1>3, <1>6, <2>1 DEF Aside, ProposalAt, Places, Ending, o
  <2>5. ProposalAt(o, "prompted")'
        BY <1>0, <1>1, <1>3, <1>6, <2>1, <2>2 DEF Aside, ProposalAt, Places, Ending, o
  <2> QED BY <1>5, <2>1, <2>2, <2>3, <2>4, <2>5 DEF Aside, Follow, o, Places, ProposalAt
<1>7. CASE f.type = "tandem_prompt" /\ strip[u] # NoWish
  <2>1. strip'[u] = strip[u]
        BY <1>1, <1>7 DEF OnTandemFrame, StripsOK
  <2>2. q = "prompt"
        BY <1>0, <1>3, <1>7 DEF Aside, ProposalAt
  <2> HIDE DEF o, f
  <2>3. Over(u)' /\ Over(o)'
        BY <1>0, <1>1, <1>3, <1>4, <1>7, <2>1 DEF Aside, Over, Ending, o
  <2>4. ProposalAt(u, p)'
        BY <1>0, <1>1, <1>3, <1>7, <2>1 DEF Aside, ProposalAt, Places, Ending, o
  <2>5. ProposalAt(o, "spent")'
        BY <1>0, <1>1, <1>3, <1>7, <2>1, <2>2 DEF Aside, ProposalAt, Places, Ending, o
  <2> QED BY <1>5, <2>1, <2>2, <2>3, <2>4, <2>5 DEF Aside, Follow, o, Places, ProposalAt
<1>8. CASE f.type = "tandem_end"
  <2>1. strip'[u].kind = "null" /\ strip[u].kind = "active"
        BY <1>1, <1>3, <1>8 DEF OnTandemFrame, StripsOK, NoWish, Aside, Over
  <2> HIDE DEF o, f
  <2>2. Over(u)' /\ Over(o)'
        BY <1>0, <1>1, <1>3, <1>4, <1>8, <2>1 DEF Aside, Over, Ending, o
  <2>3. ProposalAt(u, p)'
        BY <1>0, <1>1, <1>3, <1>8, <2>1 DEF Aside, ProposalAt, Places, Ending, o
  <2>4. ProposalAt(o, q)'
        BY <1>0, <1>1, <1>3, <1>8, <2>1 DEF Aside, ProposalAt, Places, Ending, o
  <2> QED BY <1>5, <2>1, <2>2, <2>3, <2>4 DEF Aside, Follow, o, ProposalAt
<1> QED BY <1>4, <1>6, <1>7, <1>8

\* A browser's proposal or acceptance reaches its loop, and the room unless the loop has
\* proposed already.
LEMMA AsideBrowser ==
  ASSUME StripsOK, LegsOK, Present, NEW u \in Sides, NEW p, NEW q, Aside(u, p, q),
         FromBrowser(u)
  PROVE  \E r, s \in Places : Aside(u, r, s)'
<1> DEFINE o == Other(u)
           m == Head(stripUp[u])
           e == TandemMsg("propose", NullLang)
           f == TandemMsg("accept", NullLang)
<1>0. o \in Sides /\ o # u /\ Other(o) = u
      BY TwoSides
<1>1. /\ UNCHANGED <<strip, stripDown>> /\ stripRoom'[u] = stripRoom[u] /\ loop'[o] = loop[o]
      /\ stripUp[u] # <<>> /\ stripUp'[u] = Tail(stripUp[u]) /\ stripUp'[o] = stripUp[o]
      BY <1>0 DEF FromBrowser, StripsOK, LegsOK, Enqueued
<1>2. stripUp[u] \in Seq(BrowserFrame) /\ m \in BrowserFrame /\ stripRoom[o] \in Seq(RoomEvent)
      BY <1>0, <1>1, Dequeued DEF LegsOK
<1>3. /\ \A t : Holds(stripUp[u], t) <=> m.type = t \/ Holds(stripUp'[u], t)
      /\ EachOnce(stripUp'[u]) /\ ~Holds(stripUp'[u], m.type)
      /\ Leads(stripUp'[u], "tandem_accept")
      /\ m.type # "tandem_accept" => ~Holds(stripUp[u], "tandem_accept")
      BY <1>1, <1>2, FrameTaken DEF Aside, Tidy, Over
<1>4. ~Ending(u) /\ m.type \in {"tandem_propose", "tandem_accept"} /\ ~loop[u].active
      BY <1>1, <1>2 DEF Aside, Over, Tidy, BrowserFrame
<1>5. CASE loop[u].proposed
  <2>1. loop' = loop /\ stripRoom' = stripRoom
        BY <1>1, <1>5 DEF FromBrowser
  <2>2. m.type = "tandem_accept" /\ q = "accepting"
    <3>1. m.type # "tandem_propose"
          BY <1>3, <1>4, <1>5 DEF Aside, ProposalAt
    <3> QED BY <3>1, <1>0, <1>3, <1>4 DEF Aside, ProposalAt
  <2> HIDE DEF o, m
  <2>3. Tidy(u)' /\ Tidy(o)' /\ Over(u)' /\ Over(o)'
        BY <1>0, <1>1, <1>3, <1>4, <2>1 DEF Aside, Tidy, Over, Ending, o
  <2>4. ProposalAt(u, p)'
        BY <1>0, <1>1, <1>3, <2>1, <2>2 DEF Aside, ProposalAt, Places, Ending, o
  <2>5. ProposalAt(o, "spent")'
        BY <1>0, <1>1, <1>3, <2>1, <2>2 DEF Aside, ProposalAt, Places, Ending, o
  <2>6. Follow(p, "spent") /\ Follow("spent", p)
        BY <1>4, <1>5, <2>2 DEF Aside, Follow, ProposalAt
  <2> QED BY <2>3, <2>4, <2>5, <2>6 DEF Aside, o, ProposalAt
<1>6. CASE ~loop[u].proposed /\ m.type = "tandem_propose"
  <2>1. /\ loop'[u].proposed /\ ~loop'[u].active
        /\ stripRoom'[o] = Append(stripRoom[o], e)
    <3>1. /\ loop' = [loop EXCEPT ![u].proposed = TRUE]
          /\ stripRoom' = Enqueued(stripRoom, o, e)
          BY <1>4, <1>6 DEF FromBrowser, Present
    <3>2. loop'[u].proposed /\ ~loop'[u].active
          BY <1>0, <1>4, <3>1 DEF StripsOK, Loops
    <3>3. stripRoom'[o] = Append(stripRoom[o], e)
          BY <1>0, <3>1 DEF LegsOK, Enqueued
    <3> QED BY <3>2, <3>3
  <2>2. p = "up" /\ e.type = "propose" /\ e \in RoomEvent
        BY <1>3, <1>6, TandemMsgTypes DEF Aside, ProposalAt, TandemMsg
  <2>3. /\ \A t : Holds(stripRoom'[o], t) <=> Holds(stripRoom[o], t) \/ t = "propose"
        /\ EachOnce(stripRoom'[o])
        /\ Leads(stripRoom'[o], "accept") /\ Leads(stripRoom'[o], "end")
        BY <1>2, <2>1, <2>2, FrameAdded DEF Aside, ProposalAt, Tidy, Over
  <2>4. q # "accepting"
        BY <1>0, <1>3, <1>6 DEF Aside, ProposalAt
  <2> HIDE DEF o, m, e
  <2>5. Tidy(u)' /\ Tidy(o)'
        BY <1>1, <1>3, <2>1, <2>3 DEF Aside, Tidy, o
  <2>6. Over(u)' /\ Over(o)'
        BY <1>0, <1>1, <1>3, <1>4, <2>3 DEF Aside, Over, Ending, o
  <2>7. ProposalAt(u, "room")'
        BY <1>0, <1>1, <1>3, <1>6, <2>1, <2>2, <2>3 DEF Aside, ProposalAt, Places, Ending, o
  <2>8. ProposalAt(o, q)'
        BY <1>0, <1>1, <1>3, <1>6, <2>2, <2>3 DEF Aside, ProposalAt, Places, Ending, o
  <2> QED BY <2>2, <2>4, <2>5, <2>6, <2>7, <2>8 DEF Aside, Follow, o, ProposalAt
<1>7. CASE ~loop[u].proposed /\ m.type = "tandem_accept"
  <2>1. loop' = loop /\ stripRoom'[o] = Append(stripRoom[o], f)
        BY <1>0, <1>1, <1>4, <1>7 DEF FromBrowser, Present, Enqueued, LegsOK
  <2>2. q = "accepting" /\ f.type = "accept" /\ f \in RoomEvent
        BY <1>0, <1>3, <1>7, TandemMsgTypes DEF Aside, ProposalAt, TandemMsg
  <2>3. p \in {"none", "up"}
        BY <2>2 DEF Aside, Follow
  <2>4. ~Ending(o)
        BY <1>0, <2>2 DEF Aside, Over, ProposalAt
  <2>5. stripRoom[o] = <<>>
    <3>1. /\ ~Holds(stripRoom[o], "propose") /\ ~Holds(stripRoom[o], "accept")
          /\ ~Holds(stripRoom[o], "switch") /\ ~Holds(stripRoom[o], "end")
          /\ ~Holds(stripRoom[o], "left")
          BY <1>0, <2>2, <2>3, <2>4 DEF Aside, ProposalAt, Over, Ending, Present
    <3>2. stripRoom[o] # <<>> => /\ Holds(stripRoom[o], Head(stripRoom[o]).type)
                                 /\ Head(stripRoom[o]) \in RoomEvent
          BY <1>2, FrameTaken
    <3> QED BY <3>1, <3>2 DEF RoomEvent
  <2>6. \A t : ~Holds(stripRoom[o], t)
        BY <2>5, EmptyLeg
  <2>7. /\ \A t : Holds(stripRoom'[o], t) <=> t = "accept"
        /\ EachOnce(stripRoom'[o])
        /\ Leads(stripRoom'[o], "accept") /\ Leads(stripRoom'[o], "end")
    <3>1. stripRoom'[o] = <<f>>
          BY <2>1, <2>5, OneFrame
    <3> QED BY <2>2, <3>1, OneFrame
  <2> HIDE DEF o, m, f
  <2>8. Tidy(u)' /\ Tidy(o)'
        BY <1>1, <1>3, <2>1, <2>7 DEF Aside, Tidy, o
  <2>9. Over(u)' /\ Over(o)'
        BY <1>0, <1>1, <1>3, <1>4, <2>4, <2>6, <2>7 DEF Aside, Over, Ending, o
  <2>10. ProposalAt(u, p)'
        BY <1>0, <1>1, <1>3, <1>7, <2>1, <2>2, <2>3, <2>6, <2>7
           DEF Aside, ProposalAt, Places, Ending, o
  <2>11. ProposalAt(o, "accepted")'
        BY <1>0, <1>1, <1>3, <1>7, <2>1, <2>2, <2>6, <2>7
           DEF Aside, ProposalAt, Places, Ending, o
  <2> QED BY <2>2, <2>3, <2>8, <2>9, <2>10, <2>11 DEF Aside, Follow, o, ProposalAt
<1> QED BY <1>4, <1>5, <1>6, <1>7

\* What the head of the room is, between two sessions.
LEMMA AsideHead ==
  ASSUME StripsOK, LegsOK, Present, NEW u \in Sides, NEW p, NEW q, Aside(u, p, q),
         stripRoom[u] # <<>>, stripRoom'[u] = Tail(stripRoom[u])
  PROVE  /\ Head(stripRoom[u]).type \in {"propose", "accept", "end"}
         /\ ~Ending(Other(u)) /\ (Ending(u) <=> Head(stripRoom[u]).type = "end")
         /\ \A t : Holds(stripRoom[u], t)
                     <=> Head(stripRoom[u]).type = t \/ Holds(stripRoom'[u], t)
         /\ EachOnce(stripRoom'[u]) /\ ~Holds(stripRoom'[u], Head(stripRoom[u]).type)
         /\ Leads(stripRoom'[u], "accept") /\ Leads(stripRoom'[u], "end")
         /\ Head(stripRoom[u]).type # "accept" => ~Holds(stripRoom[u], "accept")
<1> DEFINE o == Other(u)
           m == Head(stripRoom[u])
<1>0. o \in Sides /\ o # u /\ Other(o) = u
      BY TwoSides
<1>1. stripRoom[u] \in Seq(RoomEvent) /\ m \in RoomEvent
      BY Dequeued DEF LegsOK
<1>2. /\ \A t : Holds(stripRoom[u], t) <=> m.type = t \/ Holds(stripRoom'[u], t)
      /\ EachOnce(stripRoom'[u]) /\ ~Holds(stripRoom'[u], m.type)
      /\ Leads(stripRoom'[u], "accept") /\ Leads(stripRoom'[u], "end")
      /\ m.type # "accept" => ~Holds(stripRoom[u], "accept")
      /\ m.type # "end" => ~Holds(stripRoom[u], "end")
      BY <1>1, FrameTaken DEF Aside, Tidy, Over
<1>3. m.type # "switch" /\ m.type # "left"
      BY <1>2 DEF Aside, Over, Present
<1>4. m.type \in {"propose", "accept", "end"}
      BY <1>1, <1>3 DEF RoomEvent
<1>5. ~Ending(o)
      BY <1>0 DEF Aside, Over
<1> QED BY <1>2, <1>4, <1>5 DEF Ending

\* The room, when its envelope does not start a session: a prompt, a proposal that falls
\* beside this side's own, the end of the last session.
LEMMA AsideRoom ==
  ASSUME StripsOK, LegsOK, Present, NEW u \in Sides, NEW p, NEW q, Aside(u, p, q), FromRoom(u),
         ~Starts(u, Head(stripRoom[u]))
  PROVE  \E s \in Places : Aside(u, p, s)'
<1> DEFINE o == Other(u)
           m == Head(stripRoom[u])
           e == TandemMsg("tandem_prompt", NullLang)
           f == TandemMsg("tandem_end", NullLang)
<1>0. o \in Sides /\ o # u /\ Other(o) = u
      BY TwoSides
<1>1. /\ UNCHANGED <<strip, stripUp>> /\ loop'[o] = loop[o]
      /\ stripRoom[u] # <<>> /\ stripRoom'[u] = Tail(stripRoom[u])
      /\ stripRoom'[o] = stripRoom[o]
      /\ stripDown'[o] = stripDown[o]
      BY <1>0 DEF FromRoom, StripsOK, LegsOK, Enqueued
<1>2. /\ m.type \in {"propose", "accept", "end"}
      /\ ~Ending(o) /\ (Ending(u) <=> m.type = "end")
      /\ \A t : Holds(stripRoom[u], t) <=> m.type = t \/ Holds(stripRoom'[u], t)
      /\ EachOnce(stripRoom'[u]) /\ ~Holds(stripRoom'[u], m.type)
      /\ Leads(stripRoom'[u], "accept") /\ Leads(stripRoom'[u], "end")
      /\ m.type # "accept" => ~Holds(stripRoom[u], "accept")
      BY <1>1, AsideHead
<1>3. ~loop[u].active /\ stripDown[u] \in Seq(LoopFrame)
      BY DEF Aside, Tidy, LegsOK
<1>4. m.type # "accept"
  <2>1. ASSUME m.type = "accept" PROVE FALSE
    <3>1. Holds(stripRoom[u], "accept")
          BY <1>2, <2>1
    <3>2. loop[u].proposed
          BY <3>1 DEF Aside, ProposalAt
    <3> QED BY <1>3, <2>1, <3>2 DEF Starts
  <2> QED BY <2>1
<1>5. CASE m.type = "propose" /\ ~loop[u].proposed
  <2>1. loop' = loop /\ stripDown'[u] = Append(stripDown[u], e)
        BY <1>1, <1>3, <1>5 DEF FromRoom, Enqueued, LegsOK
  <2>2. q = "room" /\ e.type = "tandem_prompt" /\ e \in LoopFrame
        BY <1>0, <1>2, <1>5, TandemMsgTypes DEF Aside, ProposalAt, TandemMsg
  <2>3. /\ \A t : Holds(stripDown'[u], t) <=> Holds(stripDown[u], t) \/ t = "tandem_prompt"
        /\ EachOnce(stripDown'[u]) /\ Leads(stripDown'[u], "tandem_end")
        BY <1>0, <1>3, <2>1, <2>2, FrameAdded DEF Aside, ProposalAt, Tidy, Over
  <2>4. p \in {"none", "up"}
        BY <1>2, <1>5 DEF Aside, ProposalAt
  <2> HIDE DEF o, m, e, f
  <2>5. Tidy(u)' /\ Tidy(o)'
        BY <1>0, <1>1, <1>2, <2>1, <2>3 DEF Aside, Tidy, o
  <2>6. Over(u)' /\ Over(o)'
        BY <1>0, <1>1, <1>2, <1>5, <2>3 DEF Aside, Over, Ending, o
  <2>7. ProposalAt(u, p)'
        BY <1>0, <1>1, <1>2, <1>5, <2>1, <2>3 DEF Aside, ProposalAt, Places, Ending, o
  <2>8. ProposalAt(o, "prompt")'
        BY <1>0, <1>1, <1>2, <1>5, <2>1, <2>2, <2>3 DEF Aside, ProposalAt, Places, Ending, o
  <2> QED BY <2>4, <2>5, <2>6, <2>7, <2>8 DEF Aside, Follow, o, ProposalAt
<1>6. CASE m.type = "propose" /\ loop[u].proposed
  <2>1. loop' = loop /\ stripDown' = stripDown
        BY <1>1, <1>3, <1>6 DEF FromRoom
  <2>2. q = "room" /\ p \notin {"accepting", "accepted"}
        BY <1>0, <1>2, <1>6 DEF Aside, ProposalAt, Follow
  <2> HIDE DEF o, m, e, f
  <2>3. Tidy(u)' /\ Tidy(o)'
        BY <1>0, <1>1, <1>2, <2>1 DEF Aside, Tidy, o
  <2>4. Over(u)' /\ Over(o)'
        BY <1>0, <1>1, <1>2, <1>6, <2>1 DEF Aside, Over, Ending, o
  <2>5. ProposalAt(u, p)'
        BY <1>0, <1>1, <1>2, <1>6, <2>1 DEF Aside, ProposalAt, Places, Ending, o
  <2>6. ProposalAt(o, "spent")'
        BY <1>0, <1>1, <1>2, <1>6, <2>1, <2>2 DEF Aside, ProposalAt, Places, Ending, o
  <2> QED BY <2>2, <2>3, <2>4, <2>5, <2>6 DEF Aside, Follow, o, ProposalAt
<1>7. CASE m.type = "end"
  <2>1. loop'[u] = Ended(loop[u]) /\ stripDown'[u] = Append(stripDown[u], f)
        BY <1>1, <1>7 DEF FromRoom, Enqueued, LegsOK, StripsOK
  <2>2. ~loop'[u].active /\ ~loop'[u].proposed
        BY <2>1, EndedFields DEF StripsOK
  <2>3. /\ f.type = "tandem_end" /\ p = "none" /\ strip[u].kind = "active"
        /\ stripDown[u] = <<>> /\ \A t : ~Holds(stripDown[u], t)
        BY <1>2, <1>7, EmptyLeg DEF Aside, ProposalAt, TandemMsg, Over
  <2>4. /\ \A t : Holds(stripDown'[u], t) <=> t = "tandem_end"
        /\ EachOnce(stripDown'[u]) /\ Leads(stripDown'[u], "tandem_end")
    <3>1. stripDown'[u] = <<f>>
          BY <2>1, <2>3, OneFrame
    <3> QED BY <2>3, <3>1, OneFrame
  <2> HIDE DEF o, m, e, f
  <2>5. Tidy(u)' /\ Tidy(o)'
        BY <1>0, <1>1, <1>2, <2>2, <2>4 DEF Aside, Tidy, o
  <2>6. Over(u)' /\ Over(o)'
        BY <1>0, <1>1, <1>2, <1>7, <2>3, <2>4 DEF Aside, Over, Ending, o
  <2>7. ProposalAt(u, p)'
        BY <1>0, <1>1, <1>2, <1>7, <2>2, <2>3, <2>4 DEF Aside, ProposalAt, Places, Ending, o
  <2>8. ProposalAt(o, q)'
        BY <1>0, <1>1, <1>2, <1>7, <2>2, <2>3, <2>4 DEF Aside, ProposalAt, Places, Ending, o
  <2> QED BY <2>5, <2>6, <2>7, <2>8 DEF Aside, o, ProposalAt
<1> QED BY <1>2, <1>4, <1>5, <1>6, <1>7

\* An acceptance, or a proposal that crosses this side's own, makes it the owner.
LEMMA AsideStarts ==
  ASSUME StripsOK, LegsOK, Present, NEW u \in Sides, NEW p, NEW q, Aside(u, p, q), FromRoom(u),
         Starts(u, Head(stripRoom[u]))
  PROVE  Running(u)'
<1> DEFINE o == Other(u)
           m == Head(stripRoom[u])
           l == PhaseLang(u, 1)
           e == TandemMsg("tandem_switch", l)
           f == TandemMsg("switch", l)
<1>0. o \in Sides /\ o # u /\ Other(o) = u
      BY TwoSides
<1>1. /\ loop'[o] = loop[o] /\ loop'[u] = InPhase(loop[u], 1)
      /\ stripRoom[u] # <<>> /\ stripRoom'[u] = Tail(stripRoom[u])
      /\ stripRoom'[o] = Append(stripRoom[o], f)
      /\ stripDown'[o] = stripDown[o] /\ stripDown'[u] = Append(stripDown[u], e)
      BY <1>0 DEF FromRoom, StripsOK, LegsOK, Enqueued, PhaseStarted
<1>2. /\ loop'[u].active /\ loop'[u].timer /\ loop'[u].phase = 1 /\ ~loop'[o].active
      BY <1>0, <1>1, PhaseFields DEF StripsOK, Aside, Tidy
<1>3. /\ ~Ending(o) /\ (Ending(u) <=> m.type = "end")
      /\ \A t : Holds(stripRoom[u], t) <=> m.type = t \/ Holds(stripRoom'[u], t)
      BY <1>1, AsideHead
<1>4. loop[u].proposed /\ (m.type = "accept" \/ (m.type = "propose" /\ SmallerID(u)))
      BY DEF Starts
<1>5. /\ stripRoom[o] \in Seq(RoomEvent) /\ stripDown[u] \in Seq(LoopFrame)
      /\ e \in LoopFrame /\ f \in RoomEvent
      /\ e.type = "tandem_switch" /\ e.lang = l /\ f.type = "switch" /\ f.lang = l
      BY <1>0, TandemMsgTypes DEF LegsOK, TandemMsg
<1>6. /\ \A t : Holds(stripRoom'[o], t) <=> Holds(stripRoom[o], t) \/ t = "switch"
      /\ OneLang(stripRoom[o], "switch", l) => OneLang(stripRoom'[o], "switch", l)
      BY <1>1, <1>5, FrameAdded
<1>7. /\ \A t : Holds(stripDown'[u], t) <=> Holds(stripDown[u], t) \/ t = "tandem_switch"
      /\ OneLang(stripDown[u], "tandem_switch", l) => OneLang(stripDown'[u], "tandem_switch", l)
      BY <1>1, <1>5, FrameAdded
<1>8. ~Holds(stripRoom[o], "switch") /\ ~Holds(stripDown[o], "tandem_switch")
      /\ ~Holds(stripRoom[u], "switch") /\ ~Holds(stripDown[u], "tandem_switch")
      BY DEF Aside, Over
<1>9. /\ OneLang(stripRoom[o], "switch", l) /\ OneLang(stripDown[o], "tandem_switch", l)
      /\ OneLang(stripRoom'[u], "switch", l) /\ OneLang(stripDown[u], "tandem_switch", l)
      BY <1>3, <1>8 DEF OneLang, Holds
<1>10. ~Ending(u) /\ p # "none" /\ strip[u].kind = "proposed"
       BY <1>3, <1>4 DEF Aside, ProposalAt
<1>11. strip[o].kind # "active"
  <2>1. CASE m.type = "accept"
        BY <1>3, <2>1 DEF Aside, ProposalAt
  <2>2. CASE m.type = "propose"
        BY <1>0, <1>3, <2>2 DEF Aside, ProposalAt
  <2> QED BY <1>4, <2>1, <2>2
<1>12. ~Holds(stripDown[u], "tandem_end") /\ ~Holds(stripDown[o], "tandem_end")
       BY <1>10, <1>11 DEF Aside, Over
<1>13. ~Holds(stripRoom[o], "accept") /\ (SmallerID(o) => ~Holds(stripRoom[o], "propose"))
  <2>1. CASE m.type = "accept"
        BY <1>0, <1>3, <2>1 DEF Aside, ProposalAt, Follow
  <2>2. CASE m.type = "propose" /\ SmallerID(u)
        BY <1>0, <1>3, <2>2 DEF Aside, ProposalAt, SmallerID
  <2> QED BY <1>4, <2>1, <2>2
<1> HIDE DEF m, l, e, f
<1>14. Imposed(u, l)' /\ Imposed(o, l)'
       BY <1>0, <1>1, <1>3, <1>6, <1>7, <1>9, <1>10, <1>12 DEF Imposed, Ending
<1>15. \A v \in Sides : Imposed(v, l)'
       BY <1>14, TwoSides
<1> QED BY <1>2, <1>3, <1>6, <1>8, <1>13, <1>15, <1>0 DEF Running, l


\* A prompt that is ignored stays where it is.
LEMMA AsideDismiss ==
  ASSUME NEW u \in Sides, NEW p, NEW q, Aside(u, p, q),
         UNCHANGED <<strip, loop, stripUp, stripRoom, stripDown>>
  PROVE  Aside(u, p, q)'
BY DEF Aside, Tidy, Over, ProposalAt, Ending

\* The clock of a side that is not in a session only stops.
LEMMA AsideClock ==
  ASSUME StripsOK, NEW u \in Sides, NEW p, NEW q, Aside(u, p, q), PhaseOver(u)
  PROVE  Aside(u, p, q)'
<1> DEFINE o == Other(u)
<1>0. o \in Sides /\ o # u /\ Other(o) = u
      BY TwoSides
<1>1. /\ UNCHANGED <<strip, stripUp, stripRoom, stripDown>> /\ loop'[o] = loop[o]
      /\ loop'[u].active = loop[u].active /\ loop'[u].proposed = loop[u].proposed
      BY <1>0 DEF PhaseOver, StripsOK, Loops, Aside, Tidy
<1> HIDE DEF o
<1> QED BY <1>0, <1>1 DEF Aside, Tidy, Over, ProposalAt, Ending, o

-----------------------------------------------------------------------------
(* Inside a session *)

\* Nothing moves but a strip that is not imposed yet.
LEMMA RunningStrip ==
  ASSUME NEW w \in Sides, Running(w), UNCHANGED <<loop, stripRoom, stripDown>>,
         \A u \in Sides : strip'[u] = strip[u] \/ strip[u].kind # "active"
  PROVE  Running(w)'
BY DEF Running, Imposed, Ending

LEMMA RunningCard ==
  ASSUME StripsOK, NEW w \in Sides, Running(w), NEW u \in Sides,
         Propose(u) \/ AcceptPrompt(u) \/ Dismiss(u)
  PROVE  Running(w)'
<1>1. /\ UNCHANGED <<loop, stripRoom, stripDown>>
      /\ strip'[Other(u)] = strip[Other(u)]
      /\ strip'[u] = strip[u] \/ strip[u].kind # "active"
      BY TwoSides DEF Propose, AcceptPrompt, Dismiss, CanPropose, PromptShown, StripsOK
<1> QED BY <1>1, TwoSides, RunningStrip

\* A strip reads the language under way to it; a prompt changes nothing that is imposed.
LEMMA RunningFrame ==
  ASSUME StripsOK, LegsOK, Present, NEW w \in Sides, Running(w), NEW u \in Sides,
         OnTandemFrame(u)
  PROVE  Running(w)'
<1> DEFINE o == Other(u)
           f == Head(stripDown[u])
<1>l. PICK l \in StripLangs : l = PhaseLang(w, loop[w].phase)
      BY TandemMsgTypes
<1>0. o \in Sides /\ o # u /\ Other(o) = u
      BY TwoSides
<1>1. /\ UNCHANGED <<loop, stripRoom, stripUp>> /\ strip'[o] = strip[o]
      /\ stripDown[u] # <<>> /\ stripDown'[u] = Tail(stripDown[u])
      /\ stripDown'[o] = stripDown[o]
      BY <1>0 DEF OnTandemFrame, StripsOK, LegsOK
<1>2. stripDown[u] \in Seq(LoopFrame) /\ f \in LoopFrame
      BY <1>1, Dequeued DEF LegsOK
<1>3. Imposed(u, l) /\ Imposed(o, l)
      BY <1>0, <1>l DEF Running
<1>4. /\ \A t : Holds(stripDown[u], t) <=> f.type = t \/ Holds(stripDown'[u], t)
      /\ OneLang(stripDown'[u], "tandem_switch", l)
      /\ f.type = "tandem_switch" => f.lang = l
      BY <1>1, <1>2, <1>3, FrameTaken DEF Imposed
<1>5. f.type \in {"tandem_prompt", "tandem_switch"}
      BY <1>2, <1>3, <1>4 DEF Imposed, Present, LoopFrame
<1>6. f.type = "tandem_switch" => strip'[u] = [kind |-> "active", lang |-> l]
      BY <1>4 DEF OnTandemFrame, StripsOK
<1>7. f.type = "tandem_prompt" => strip'[u] = strip[u] \/ strip[u].kind # "active"
      BY DEF OnTandemFrame, StripsOK, NoWish
<1> HIDE DEF o, f
<1>8. Imposed(u, l)' /\ Imposed(o, l)'
  <2>1. Imposed(o, l)'
        BY <1>0, <1>1, <1>3 DEF Imposed, Ending
  <2>2. CASE f.type = "tandem_switch"
        BY <1>0, <1>1, <1>3, <1>4, <1>6, <2>2 DEF Imposed, Ending
  <2>3. CASE f.type = "tandem_prompt"
        BY <1>0, <1>1, <1>3, <1>4, <1>7, <2>3 DEF Imposed, Ending
  <2> QED BY <1>5, <2>1, <2>2, <2>3
<1>9. \A v \in Sides : Imposed(v, l)'
      BY <1>8, TwoSides DEF o
<1> QED BY <1>1, <1>9, <1>l DEF Running

\* The owner refuses what its browser proposes; the other side still sends it on.
LEMMA RunningFromBrowser ==
  ASSUME StripsOK, LegsOK, Present, NEW w \in Sides, Running(w), NEW u \in Sides, FromBrowser(u)
  PROVE  Running(w)'
<1> DEFINE o == Other(w)
<1>l. PICK l \in StripLangs : l = PhaseLang(w, loop[w].phase)
      BY TandemMsgTypes
<1>0. o \in Sides /\ o # w /\ Other(o) = w /\ (u = w \/ u = o)
      BY TwoSides
<1>1. UNCHANGED <<strip, stripDown>>
      BY DEF FromBrowser
<1>2. CASE u = w
  <2>1. loop' = loop /\ stripRoom' = stripRoom
        BY <1>2 DEF FromBrowser, Running
  <2> QED BY <1>1, <2>1, RunningStrip
<1>3. CASE u = o
  <2>1. /\ loop' = loop \/ loop' = [loop EXCEPT ![o].proposed = TRUE]
        /\ stripRoom' = stripRoom \/ \E e : stripRoom' = Enqueued(stripRoom, w, e)
        BY <1>0, <1>3 DEF FromBrowser
  <2>8. /\ loop'[w] = loop[w] /\ loop'[o].active = loop[o].active
        /\ stripRoom'[o] = stripRoom[o]
        BY <1>0, <2>1 DEF StripsOK, Loops, LegsOK, Enqueued
  <2>9. ~loop'[o].active
        BY <2>8 DEF Running
  <2>2. PICK t0 \in {"propose", "accept"} :
          \/ stripRoom'[w] = stripRoom[w]
          \/ stripRoom'[w] = Append(stripRoom[w], TandemMsg(t0, NullLang))
        BY <1>0, <1>3 DEF FromBrowser, LegsOK, Enqueued
  <2>3. /\ stripRoom[w] \in Seq(RoomEvent) /\ TandemMsg(t0, NullLang) \in RoomEvent
        /\ TandemMsg(t0, NullLang).type = t0
        BY TandemMsgTypes DEF LegsOK, TandemMsg
  <2>4. Imposed(w, l) /\ Imposed(o, l)
        BY <1>0, <1>l DEF Running
  <2>5. /\ Holds(stripRoom'[w], "switch") <=> Holds(stripRoom[w], "switch")
        /\ Holds(stripRoom'[w], "end") <=> Holds(stripRoom[w], "end")
        /\ OneLang(stripRoom'[w], "switch", l)
    <3>1. CASE stripRoom'[w] = stripRoom[w]
          BY <2>4, <3>1 DEF Imposed
    <3>2. CASE stripRoom'[w] = Append(stripRoom[w], TandemMsg(t0, NullLang))
      <4>1. OneLang(stripRoom[w], "switch", l)
            BY <2>4 DEF Imposed
      <4>2. t0 # "switch" /\ t0 # "end"
            OBVIOUS
            <4> QED BY <2>3, <3>2, <4>1, <4>2, FrameAdded
    <3> QED BY <2>2, <3>1, <3>2
  <2> HIDE DEF o
  <2>6. Imposed(w, l)' /\ Imposed(o, l)'
        BY <1>0, <1>1, <2>8, <2>4, <2>5 DEF Imposed, Ending
  <2>7. \A v \in Sides : Imposed(v, l)'
        BY <2>6, TwoSides DEF o
  <2> QED BY <1>0, <1>l, <2>5, <2>7, <2>8, <2>9 DEF Running, o
<1> QED BY <1>0, <1>2, <1>3

\* The owner ignores proposals and acceptances, the other side passes on what it is told.
LEMMA RunningRoom ==
  ASSUME StripsOK, LegsOK, Present, NEW w \in Sides, Running(w), NEW u \in Sides, FromRoom(u)
  PROVE  Running(w)'
<1> DEFINE o == Other(w)
           x == Other(u)
           m == Head(stripRoom[u])
<1>l. PICK l \in StripLangs : l = PhaseLang(w, loop[w].phase)
      BY TandemMsgTypes
<1>0. o \in Sides /\ o # w /\ Other(o) = w /\ (u = w \/ u = o) /\ x \in Sides /\ x # u
      BY TwoSides
<1>1. UNCHANGED <<strip, stripUp>> /\ stripRoom[u] # <<>>
      BY DEF FromRoom
<1>2. stripRoom[u] \in Seq(RoomEvent) /\ m \in RoomEvent
      BY <1>1, Dequeued DEF LegsOK
<1>3. Imposed(w, l) /\ Imposed(o, l)
      BY <1>0, <1>l DEF Running
<1>4. /\ \A t : Holds(stripRoom[u], t) <=> m.type = t \/ Holds(Tail(stripRoom[u]), t)
      /\ OneLang(Tail(stripRoom[u]), "switch", l)
      /\ m.type = "switch" => m.lang = l
      BY <1>0, <1>1, <1>2, <1>3, FrameTaken DEF Imposed
<1>5. m.type \in {"propose", "accept", "switch"}
      BY <1>0, <1>2, <1>3, <1>4 DEF RoomEvent, Imposed, Ending, Present
<1>6. ~Starts(u, m)
      BY <1>0, <1>4 DEF Starts, Running
<1>7. /\ stripRoom'[u] = Tail(stripRoom[u]) /\ stripRoom'[x] = stripRoom[x]
      /\ loop' = loop
      BY <1>0, <1>5, <1>6 DEF FromRoom, LegsOK
<1>8. \/ stripDown' = stripDown /\ m.type # "switch"
      \/ /\ stripDown' = Enqueued(stripDown, u, TandemMsg("tandem_prompt", NullLang))
         /\ m.type # "switch"
      \/ stripDown' = Enqueued(stripDown, u, TandemMsg("tandem_switch", m.lang))
      BY <1>5, <1>6 DEF FromRoom
<1>9. /\ stripDown[u] \in Seq(LoopFrame) /\ OneLang(stripDown[u], "tandem_switch", l)
      /\ stripDown'[x] = stripDown[x]
      BY <1>0, <1>3, <1>8 DEF LegsOK, Imposed, Enqueued
<1>10. /\ OneLang(stripDown'[u], "tandem_switch", l)
       /\ Holds(stripDown'[u], "tandem_end") <=> Holds(stripDown[u], "tandem_end")
       /\ Holds(stripDown[u], "tandem_switch") \/ m.type = "switch"
            => Holds(stripDown'[u], "tandem_switch")
  <2>1. CASE stripDown' = stripDown /\ m.type # "switch"
        BY <1>9, <2>1
  <2>2. CASE /\ stripDown' = Enqueued(stripDown, u, TandemMsg("tandem_prompt", NullLang))
             /\ m.type # "switch"
    <3> DEFINE e == TandemMsg("tandem_prompt", NullLang)
    <3>1. e \in LoopFrame /\ e.type = "tandem_prompt" /\ stripDown'[u] = Append(stripDown[u], e)
          BY <2>2, TandemMsgTypes DEF TandemMsg, LegsOK, Enqueued
    <3> HIDE DEF e, m
    <3>2. /\ \A t : Holds(stripDown'[u], t) <=> Holds(stripDown[u], t) \/ e.type = t
          /\ OneLang(stripDown'[u], "tandem_switch", l)
          BY <1>9, <3>1, FrameAdded
    <3> QED BY <2>2, <3>1, <3>2
  <2>3. CASE stripDown' = Enqueued(stripDown, u, TandemMsg("tandem_switch", m.lang))
    <3> DEFINE e == TandemMsg("tandem_switch", m.lang)
    <3>1. e \in LoopFrame /\ e.type = "tandem_switch" /\ e.lang = m.lang
          BY <1>2, TandemMsgTypes DEF TandemMsg, RoomEvent
    <3>2. stripDown'[u] = Append(stripDown[u], e)
          BY <2>3 DEF LegsOK, Enqueued
    <3>3. m.lang = l
      <4>1. m.type = "switch"
            BY <1>5, <1>6, <2>3 DEF FromRoom, TandemMsg, LegsOK, Enqueued
      <4> QED BY <4>1, <1>4
    <3> HIDE DEF e, m
    <3> QED BY <1>9, <3>1, <3>2, <3>3, FrameAdded
  <2> QED BY <1>8, <2>1, <2>2, <2>3
<1> HIDE DEF o, x, m
<1>11. Imposed(u, l)' /\ Imposed(x, l)'
       BY <1>0, <1>1, <1>3, <1>4, <1>7, <1>9, <1>10, TwoSides DEF Imposed, Ending, o, x
<1>12. \A v \in Sides : Imposed(v, l)'
       BY <1>11, TwoSides DEF x
<1>13. \A v \in Sides : \A t : Holds(stripRoom'[v], t) => Holds(stripRoom[v], t)
       BY <1>4, <1>7, TwoSides DEF x
<1> QED BY <1>0, <1>l, <1>7, <1>12, <1>13 DEF Running, o


\* When a phase is over everything sent during it has arrived.
LEMMA QuietHolds ==
  Quiet => \A u \in Sides : \A t : /\ ~Holds(stripUp[u], t) /\ ~Holds(stripRoom[u], t)
                                   /\ ~Holds(stripDown[u], t)
BY EmptyLeg DEF Quiet

\* The second phase imposes the other language on both sides.
LEMMA RunningSecond ==
  ASSUME StripsOK, LegsOK, Present, NEW w \in Sides, Running(w), PhaseOver(w), loop[w].phase = 1
  PROVE  Running(w)'
<1> DEFINE o == Other(w)
           e == TandemMsg("tandem_switch", PhaseLang(w, 2))
           f == TandemMsg("switch", PhaseLang(w, 2))
<1>l. PICK l \in StripLangs : l = PhaseLang(w, 2)
      BY TandemMsgTypes
<1>0. o \in Sides /\ o # w /\ Other(o) = w
      BY TwoSides
<1>1. /\ strip' = strip /\ loop'[o] = loop[o] /\ loop'[w] = InPhase(loop[w], 2)
      /\ stripRoom'[o] = Append(stripRoom[o], f) /\ stripRoom'[w] = stripRoom[w]
      /\ stripDown'[w] = Append(stripDown[w], e) /\ stripDown'[o] = stripDown[o]
      BY <1>0 DEF PhaseOver, PhaseStarted, Running, Present, StripsOK, LegsOK, Enqueued
<1>2. /\ loop'[w].active /\ loop'[w].timer /\ loop'[w].phase = 2 /\ ~loop'[o].active
      BY <1>0, <1>1, PhaseFields DEF StripsOK, Running
<1>3. /\ stripRoom'[o] = <<f>> /\ stripRoom'[w] = <<>>
      /\ stripDown'[w] = <<e>> /\ stripDown'[o] = <<>>
  <2>1. /\ stripRoom[o] = <<>> /\ stripRoom[w] = <<>>
        /\ stripDown[w] = <<>> /\ stripDown[o] = <<>>
        BY <1>0 DEF PhaseOver, Quiet
  <2> HIDE DEF e, f
  <2> QED BY <1>1, <2>1, OneFrame
<1>4. e.type = "tandem_switch" /\ e.lang = l /\ f.type = "switch" /\ f.lang = l
      BY <1>l DEF TandemMsg
<1> HIDE DEF o, e, f
<1>5. /\ \A t : ~Holds(stripRoom'[w], t) /\ ~Holds(stripDown'[o], t)
      /\ \A t : Holds(stripRoom'[o], t) <=> t = "switch"
      /\ \A t : Holds(stripDown'[w], t) <=> t = "tandem_switch"
      /\ OneLang(stripRoom'[o], "switch", l) /\ OneLang(stripDown'[w], "tandem_switch", l)
      /\ OneLang(stripRoom'[w], "switch", l) /\ OneLang(stripDown'[o], "tandem_switch", l)
      BY <1>3, <1>4, OneFrame, EmptyLeg
<1>6. Imposed(w, l)' /\ Imposed(o, l)'
      BY <1>5 DEF Imposed, Ending
<1>7. \A v \in Sides : Imposed(v, l)'
      BY <1>6, TwoSides DEF o
<1> QED BY <1>0, <1>l, <1>2, <1>5, <1>7 DEF Running, o

\* The end of the session: both strips are active until they read it.
LEMMA RunningLast ==
  ASSUME StripsOK, LegsOK, Present, NEW w \in Sides, Running(w), PhaseOver(w), loop[w].phase = 2
  PROVE  Aside(w, "none", "none")'
<1> DEFINE o == Other(w)
           e == TandemMsg("tandem_end", NullLang)
           f == TandemMsg("end", NullLang)
<1>0. o \in Sides /\ o # w /\ Other(o) = w
      BY TwoSides
<1>1. /\ UNCHANGED <<strip, stripUp>> /\ loop'[o] = loop[o] /\ loop'[w] = Ended(loop[w])
      /\ stripRoom'[o] = Append(stripRoom[o], f) /\ stripRoom'[w] = stripRoom[w]
      /\ stripDown'[w] = Append(stripDown[w], e) /\ stripDown'[o] = stripDown[o]
      BY <1>0 DEF PhaseOver, Running, Present, StripsOK, LegsOK, Enqueued
<1>2. /\ ~loop'[w].active /\ ~loop'[w].proposed /\ ~loop'[o].active
      BY <1>0, <1>1, EndedFields DEF StripsOK, Running
<1>3. /\ stripRoom'[o] = <<f>> /\ stripRoom'[w] = <<>>
      /\ stripDown'[w] = <<e>> /\ stripDown'[o] = <<>>
      /\ stripUp'[w] = <<>> /\ stripUp'[o] = <<>>
  <2>1. /\ stripRoom[o] = <<>> /\ stripRoom[w] = <<>>
        /\ stripDown[w] = <<>> /\ stripDown[o] = <<>>
        /\ stripUp[w] = <<>> /\ stripUp[o] = <<>>
        BY <1>0 DEF PhaseOver, Quiet
  <2> HIDE DEF e, f
  <2> QED BY <1>1, <2>1, OneFrame
<1>4. e.type = "tandem_end" /\ f.type = "end"
      BY DEF TandemMsg
<1>5. strip[w].kind = "active" /\ strip[o].kind = "active"
      BY <1>0, QuietHolds DEF PhaseOver, Running, Imposed
<1> HIDE DEF o, e, f
<1>6. /\ \A t : /\ ~Holds(stripRoom'[w], t) /\ ~Holds(stripDown'[o], t)
                /\ ~Holds(stripUp'[w], t) /\ ~Holds(stripUp'[o], t)
      /\ \A t : Holds(stripRoom'[o], t) <=> t = "end"
      /\ \A t : Holds(stripDown'[w], t) <=> t = "tandem_end"
      /\ EachOnce(stripRoom'[w]) /\ EachOnce(stripRoom'[o])
      /\ EachOnce(stripDown'[w]) /\ EachOnce(stripDown'[o])
      /\ EachOnce(stripUp'[w]) /\ EachOnce(stripUp'[o])
      /\ \A t : /\ Leads(stripRoom'[w], t) /\ Leads(stripRoom'[o], t) /\ Leads(stripDown'[w], t)
                /\ Leads(stripDown'[o], t) /\ Leads(stripUp'[w], t) /\ Leads(stripUp'[o], t)
      BY <1>3, <1>4, OneFrame, EmptyLeg
<1>7. Tidy(w)' /\ Tidy(o)'
      BY <1>2, <1>6 DEF Tidy
<1>8. Over(w)' /\ Over(o)'
      BY <1>0, <1>1, <1>3, <1>5, <1>6 DEF Over, Ending
<1>9. ProposalAt(w, "none")' /\ ProposalAt(o, "none")'
      BY <1>0, <1>1, <1>2, <1>5, <1>6 DEF ProposalAt, Places, Ending, o
<1> QED BY <1>7, <1>8, <1>9 DEF Aside, Follow, o

\* The clock of the owner; that of the other side, if it still runs, only stops.
LEMMA RunningClock ==
  ASSUME StripsOK, LegsOK, Present, NEW w \in Sides, Running(w), NEW u \in Sides, PhaseOver(u)
  PROVE  Running(w)' \/ Between'
<1>1. CASE u = w
      BY <1>1, RunningSecond, RunningLast, BetweenFrom DEF Running
<1>2. CASE u = Other(w)
  <2>1. /\ UNCHANGED <<strip, stripRoom, stripDown>> /\ loop'[w] = loop[w]
        /\ loop'[u].active = loop[u].active
        BY <1>2, TwoSides DEF PhaseOver, StripsOK, Loops, Running
  <2> QED BY <1>2, <2>1 DEF Running, Imposed, Ending
<1> QED BY <1>1, <1>2, TwoSides

-----------------------------------------------------------------------------
(* The invariant *)

\* As long as nobody leaves nobody is told so.
LEMMA PresentKept ==
  ASSUME StripsOK, LegsOK, Present, NEW u \in Sides,
         Propose(u) \/ AcceptPrompt(u) \/ Dismiss(u) \/ OnTandemFrame(u)
         \/ FromBrowser(u) \/ FromRoom(u) \/ PhaseOver(u)
  PROVE  Present'
<1> DEFINE o == Other(u)
<1>0. o \in Sides /\ o # u /\ \A v \in Sides : v = u \/ v = o
      BY TwoSides
<1>1. CASE Propose(u) \/ AcceptPrompt(u) \/ Dismiss(u)
  <2>1. /\ UNCHANGED <<loop, stripRoom, stripDown>> /\ strip'[o] = strip[o]
        /\ \/ strip'[u] = strip[u]
           \/ strip'[u] = NoWish
           \/ strip'[u].kind = "proposed" /\ strip'[u].lang = strip[u].lang
              /\ strip[u].kind # "active"
        BY <1>0, <1>1 DEF Propose, AcceptPrompt, Dismiss, CanPropose, PromptShown, StripsOK
  <2> QED BY <1>0, <2>1 DEF Present, NoWish
<1>2. CASE OnTandemFrame(u)
  <2> DEFINE f == Head(stripDown[u])
  <2>1. /\ UNCHANGED <<loop, stripRoom>> /\ strip'[o] = strip[o]
        /\ stripDown[u] # <<>> /\ stripDown'[u] = Tail(stripDown[u])
        /\ stripDown'[o] = stripDown[o]
        BY <1>0, <1>2 DEF OnTandemFrame, StripsOK, LegsOK
  <2>2. stripDown[u] \in Seq(LoopFrame)
        BY DEF LegsOK
  <2>3. \A t : Holds(stripDown[u], t) <=> f.type = t \/ Holds(stripDown'[u], t)
        BY <2>1, <2>2, FrameTaken
  <2>4. f.type # "peer_left"
        BY <2>3 DEF Present
  <2>5. \/ strip'[u] = strip[u]
        \/ strip'[u].kind \in {"null", "prompted"} /\ strip'[u].lang = NullLang
        \/ strip'[u].kind = "active"
        BY <1>2, <2>4 DEF OnTandemFrame, StripsOK, NoWish
  <2> HIDE DEF f, o
  <2> QED BY <1>0, <2>1, <2>3, <2>5 DEF Present
<1>3. CASE FromBrowser(u)
  <2>1. /\ UNCHANGED <<strip, stripDown>> /\ stripRoom'[u] = stripRoom[u]
        /\ loop'[o] = loop[o] /\ loop'[u].peerGone = loop[u].peerGone
        BY <1>0, <1>3 DEF FromBrowser, StripsOK, Loops, LegsOK, Enqueued
  <2>2. PICK t0 \in {"propose", "accept"} :
          \/ stripRoom'[o] = stripRoom[o]
          \/ stripRoom'[o] = Append(stripRoom[o], TandemMsg(t0, NullLang))
        BY <1>0, <1>3 DEF FromBrowser, LegsOK, Enqueued
  <2>3. /\ stripRoom[o] \in Seq(RoomEvent) /\ TandemMsg(t0, NullLang) \in RoomEvent
        /\ TandemMsg(t0, NullLang).type = t0
        BY <1>0, TandemMsgTypes DEF LegsOK, TandemMsg
  <2>4. ~Holds(stripRoom[o], "left")
        BY <1>0 DEF Present
  <2> HIDE DEF o
  <2>5. ~Holds(stripRoom'[o], "left")
    <3>1. ASSUME NEW e \in RoomEvent, e.type # "left", NEW q \in Seq(RoomEvent),
                 ~Holds(q, "left")
          PROVE  ~Holds(Append(q, e), "left")
          BY <3>1, FrameAdded
    <3>2. TandemMsg(t0, NullLang).type # "left"
          BY <2>3
    <3> QED BY <2>2, <2>3, <2>4, <3>1, <3>2
  <2> QED BY <1>0, <2>1, <2>5 DEF Present
<1>4. CASE FromRoom(u)
  <2> DEFINE m == Head(stripRoom[u])
  <2>1. UNCHANGED strip /\ stripRoom[u] # <<>> /\ stripDown'[o] = stripDown[o]
        /\ loop'[o] = loop[o]
        BY <1>0, <1>4 DEF FromRoom, PhaseStarted, StripsOK, LegsOK, Enqueued
  <2>2. stripRoom[u] \in Seq(RoomEvent) /\ stripRoom[o] \in Seq(RoomEvent)
        /\ stripDown[u] \in Seq(LoopFrame) /\ m \in RoomEvent
        BY <1>0, <2>1, Dequeued DEF LegsOK
  <2>3. \A t : Holds(stripRoom[u], t) <=> m.type = t \/ Holds(Tail(stripRoom[u]), t)
        BY <2>1, <2>2, FrameTaken
  <2>4. m.type # "left" /\ ~Holds(stripRoom[o], "left") /\ ~Holds(stripDown[u], "peer_left")
        BY <1>0, <2>3 DEF Present
  <2>5. loop'[u].peerGone = loop[u].peerGone
    <3>1. loop' = loop \/ loop' = [loop EXCEPT ![u] = InPhase(loop[u], 1)]
          \/ loop' = [loop EXCEPT ![u] = Ended(loop[u])]
          BY <1>4, <2>4 DEF FromRoom, PhaseStarted
    <3> QED BY <3>1, PhaseFields, EndedFields DEF StripsOK
  <2>6. PICK e \in LoopFrame : /\ e.type # "peer_left"
                               /\ \/ stripDown'[u] = stripDown[u]
                                  \/ stripDown'[u] = Append(stripDown[u], e)
    <3>1. \/ stripDown' = stripDown
          \/ stripDown' = Enqueued(stripDown, u, TandemMsg("tandem_prompt", NullLang))
          \/ stripDown' = Enqueued(stripDown, u, TandemMsg("tandem_end", NullLang))
          \/ stripDown' = Enqueued(stripDown, u, TandemMsg("tandem_switch", PhaseLang(u, 1)))
          \/ stripDown' = Enqueued(stripDown, u, TandemMsg("tandem_switch", m.lang))
          BY <1>4, <2>4 DEF FromRoom, PhaseStarted
    <3>2. m.lang \in StripLangs /\ PhaseLang(u, 1) \in StripLangs
          BY <2>2, TandemMsgTypes DEF RoomEvent
    <3>3. /\ TandemMsg("tandem_prompt", NullLang) \in LoopFrame
          /\ TandemMsg("tandem_end", NullLang) \in LoopFrame
          /\ \A l \in StripLangs : TandemMsg("tandem_switch", l) \in LoopFrame
          BY TandemMsgTypes
    <3>4. \A t, l : TandemMsg(t, l).type = t
          BY DEF TandemMsg
    <3> HIDE DEF m
    <3>5. \/ stripDown' = stripDown
          \/ \E e \in LoopFrame : e.type # "peer_left" /\ stripDown' = Enqueued(stripDown, u, e)
      <4>1. \A l : /\ TandemMsg("tandem_prompt", l).type # "peer_left"
                   /\ TandemMsg("tandem_end", l).type # "peer_left"
                   /\ TandemMsg("tandem_switch", l).type # "peer_left"
            BY <3>4
      <4> QED BY <3>1, <3>2, <3>3, <4>1
    <3> QED BY <3>3, <3>4, <3>5 DEF Enqueued, LegsOK
  <2>7. /\ stripRoom'[u] = Tail(stripRoom[u])
        /\ stripRoom'[o] = stripRoom[o]
           \/ stripRoom'[o] = Append(stripRoom[o], TandemMsg("switch", PhaseLang(u, 1)))
        BY <1>0, <1>4 DEF FromRoom, LegsOK, Enqueued
  <2>8. TandemMsg("switch", PhaseLang(u, 1)) \in RoomEvent
        /\ TandemMsg("switch", PhaseLang(u, 1)).type = "switch"
        BY TandemMsgTypes DEF TandemMsg
  <2> HIDE DEF m, o
  <2>9. ~Holds(stripRoom'[o], "left") /\ ~Holds(stripDown'[u], "peer_left")
    <3>1. ~Holds(stripRoom'[o], "left")
      <4>1. CASE stripRoom'[o] = stripRoom[o]
            BY <2>4, <4>1
      <4>2. CASE stripRoom'[o] = Append(stripRoom[o], TandemMsg("switch", PhaseLang(u, 1)))
            BY <2>2, <2>4, <2>8, <4>2, FrameAdded
      <4> QED BY <2>7, <4>1, <4>2
    <3>2. ~Holds(stripDown'[u], "peer_left")
      <4>1. CASE stripDown'[u] = stripDown[u]
            BY <2>4, <4>1
      <4>2. CASE stripDown'[u] = Append(stripDown[u], e)
            BY <2>2, <2>4, <2>6, <4>2, FrameAdded
      <4> QED BY <2>6, <4>1, <4>2
    <3> QED BY <3>1, <3>2
  <2> QED BY <1>0, <2>1, <2>3, <2>5, <2>7, <2>9 DEF Present
<1>5. CASE PhaseOver(u)
  <2>1. UNCHANGED strip /\ stripRoom'[u] = stripRoom[u] /\ stripDown'[o] = stripDown[o]
        /\ loop'[o] = loop[o]
        BY <1>0, <1>5 DEF PhaseOver, PhaseStarted, StripsOK, LegsOK, Enqueued
  <2>2. loop'[u].peerGone = loop[u].peerGone
    <3>1. \/ loop' = [loop EXCEPT ![u].timer = FALSE]
          \/ loop' = [loop EXCEPT ![u] = InPhase(loop[u], 2)]
          \/ loop' = [loop EXCEPT ![u] = Ended(loop[u])]
          BY <1>5 DEF PhaseOver, PhaseStarted
    <3> QED BY <3>1, PhaseFields, EndedFields DEF StripsOK, Loops
  <2>3. /\ \A t, l : TandemMsg(t, l).type = t
        /\ stripRoom[o] = <<>> /\ stripDown[u] = <<>>
        BY <1>0, <1>5 DEF TandemMsg, PhaseOver, Quiet
  <2>4. /\ \/ stripRoom'[o] = stripRoom[o]
           \/ \E t \in {"switch", "end"} : \E l :
                 stripRoom'[o] = Append(stripRoom[o], TandemMsg(t, l))
        /\ \/ stripDown'[u] = stripDown[u]
           \/ \E t \in {"tandem_switch", "tandem_end"} : \E l :
                 stripDown'[u] = Append(stripDown[u], TandemMsg(t, l))
    <3>1. \/ UNCHANGED stripRoom
          \/ \E t \in {"switch", "end"} : \E l :
                stripRoom' = Enqueued(stripRoom, o, TandemMsg(t, l))
          BY <1>5 DEF PhaseOver
    <3>2. \/ UNCHANGED stripDown
          \/ \E t \in {"tandem_switch", "tandem_end"} : \E l :
                stripDown' = Enqueued(stripDown, u, TandemMsg(t, l))
          BY <1>5 DEF PhaseOver, PhaseStarted
    <3>3. /\ \A e : Enqueued(stripRoom, o, e)[o] = Append(stripRoom[o], e)
          /\ \A e : Enqueued(stripDown, u, e)[u] = Append(stripDown[u], e)
          BY <1>0 DEF LegsOK, Enqueued
    <3>4. \/ stripRoom'[o] = stripRoom[o]
          \/ \E t \in {"switch", "end"} : \E l :
                stripRoom'[o] = Append(stripRoom[o], TandemMsg(t, l))
          BY <3>1, <3>3
    <3>5. \/ stripDown'[u] = stripDown[u]
          \/ \E t \in {"tandem_switch", "tandem_end"} : \E l :
                stripDown'[u] = Append(stripDown[u], TandemMsg(t, l))
          BY <3>2, <3>3
    <3> QED BY <3>4, <3>5
  <2> HIDE DEF o
  <2>5. ~Holds(stripRoom'[o], "left") /\ ~Holds(stripDown'[u], "peer_left")
    <3>1. ASSUME NEW q, NEW x, q = <<>> \/ \E e : e.type # x /\ q = Append(<<>>, e)
          PROVE  ~Holds(q, x)
          BY <3>1, OneFrame, EmptyLeg
    <3>2. stripRoom'[o] = <<>> \/ \E e : e.type # "left" /\ stripRoom'[o] = Append(<<>>, e)
          BY <2>3, <2>4 DEF TandemMsg
    <3>3. stripDown'[u] = <<>> \/ \E e : e.type # "peer_left" /\ stripDown'[u] = Append(<<>>, e)
          BY <2>3, <2>4 DEF TandemMsg
    <3> QED BY <3>1, <3>2, <3>3
  <2> QED BY <1>0, <2>1, <2>2, <2>5 DEF Present
<1> QED BY <1>1, <1>2, <1>3, <1>4, <1>5


LEMMA TandemStart == TandemInit => TandemInv
<1> SUFFICES ASSUME TandemInit PROVE TandemInv
    OBVIOUS
<1>1. TandemTypeOK
      BY TandemTypesStart
<1>2. \A u \in Sides :
        /\ strip[u] = NoWish /\ stripUp[u] = <<>> /\ stripRoom[u] = <<>> /\ stripDown[u] = <<>>
        /\ ~loop[u].proposed /\ ~loop[u].active /\ ~loop[u].peerGone
      BY DEF TandemInit
<1>3. \A u \in Sides : \A t : /\ ~Holds(stripUp[u], t) /\ ~Holds(stripRoom[u], t)
                              /\ ~Holds(stripDown[u], t)
      BY <1>2, EmptyLeg
<1>4. Present
      BY <1>2, <1>3 DEF Present, NoWish
<1>5. \A u \in Sides : Tidy(u)
      BY <1>2, EmptyLeg DEF Tidy
<1>6. \A u \in Sides : Over(u)
  <2>1. \A u \in Sides : ~Ending(u) /\ Leads(stripDown[u], "tandem_end")
                          /\ Leads(stripRoom[u], "end")
        BY <1>3 DEF Ending, Leads
  <2>2. \A u \in Sides : strip[u].kind # "active"
        BY <1>2 DEF NoWish
  <2> QED BY <1>3, <2>1, <2>2 DEF Over
<1>7. ASSUME NEW u \in Sides PROVE ProposalAt(u, "none")
  <2>1. Other(u) \in Sides
        BY TwoSides
  <2>2. strip[u].kind = "null" /\ strip[Other(u)].kind = "null"
        BY <1>2, <2>1 DEF NoWish
  <2> QED BY <1>2, <1>3, <2>1, <2>2 DEF ProposalAt, Places, Ending
<1>8. "a" \in Sides /\ Other("a") \in Sides
      BY TwoSides DEF Sides
<1>9. Aside("a", "none", "none")
      BY <1>5, <1>6, <1>7, <1>8 DEF Aside, Follow
<1>10. Between
       BY <1>9 DEF Between, Places
<1> QED BY <1>1, <1>4, <1>10 DEF TandemInv

\* Nobody comes back to a room.
LEMMA HereBefore ==
  ASSUME StripsOK, NEW u \in Sides,
         Propose(u) \/ AcceptPrompt(u) \/ Dismiss(u) \/ OnTandemFrame(u)
         \/ FromBrowser(u) \/ FromRoom(u) \/ PhaseOver(u) \/ LeaveRoom(u),
         BothHere'
  PROVE  BothHere /\ ~LeaveRoom(u)
<1>1. \A v \in Sides : v = u \/ v = Other(u)
      BY TwoSides
<1>2. loop' = loop \/ \E l \in Loops : loop' = [loop EXCEPT ![u] = l]
  <2>1. \/ loop' = loop
        \/ loop' = [loop EXCEPT ![u].proposed = TRUE]
        \/ loop' = [loop EXCEPT ![u] = InPhase(loop[u], 1)]
        \/ loop' = [loop EXCEPT ![u] = InPhase(loop[u], 2)]
        \/ loop' = [loop EXCEPT ![u] = Ended(loop[u])]
        \/ loop' = [loop EXCEPT ![u].peerGone = TRUE]
        \/ loop' = [loop EXCEPT ![u].timer = FALSE]
        \/ loop' = [loop EXCEPT ![u] = [Ended(loop[u]) EXCEPT !.here = FALSE]]
        BY DEF Propose, AcceptPrompt, Dismiss, OnTandemFrame, FromBrowser, FromRoom, PhaseOver,
               LeaveRoom, PhaseStarted
  <2>2. loop[u] \in Loops /\ Ended(loop[u]) \in Loops
        /\ InPhase(loop[u], 1) \in Loops /\ InPhase(loop[u], 2) \in Loops
        BY PhaseFields, EndedFields DEF StripsOK
  <2> QED BY <2>1, <2>2, LoopSet
<1>3. \A v \in Sides : v # u => loop'[v] = loop[v]
      BY <1>2 DEF StripsOK
<1>4. ASSUME LeaveRoom(u) PROVE FALSE
  <2>1. loop'[u] = [Ended(loop[u]) EXCEPT !.here = FALSE]
        BY <1>4 DEF LeaveRoom, StripsOK
  <2>2. ~loop'[u].here
        BY <2>1, EndedFields DEF StripsOK, Loops
  <2> QED BY <2>2 DEF BothHere
<1>5. loop[u].here
  <2>1. CASE FromBrowser(u) \/ FromRoom(u) \/ PhaseOver(u)
        BY <2>1 DEF FromBrowser, FromRoom, PhaseOver
  <2>2. CASE Propose(u) \/ AcceptPrompt(u) \/ Dismiss(u)
        BY <2>2 DEF Propose, AcceptPrompt, Dismiss, CanPropose, PromptShown, StripShown
  <2>3. CASE OnTandemFrame(u)
        BY <2>3 DEF OnTandemFrame, BothHere
  <2> QED BY <2>1, <2>2, <2>3, <1>4
<1> QED BY <1>3, <1>4, <1>5 DEF BothHere

\* One step of one side, outside or inside a session.
LEMMA TandemSide ==
  ASSUME StripsOK, LegsOK, Present, Between \/ \E w \in Sides : Running(w), NEW u \in Sides,
         Propose(u) \/ AcceptPrompt(u) \/ Dismiss(u) \/ OnTandemFrame(u)
         \/ FromBrowser(u) \/ FromRoom(u) \/ PhaseOver(u)
  PROVE  Between' \/ \E w \in Sides : Running(w)'
<1>1. CASE Between
  <2>1. PICK p \in Places, q \in Places : Aside(u, p, q)
        BY <1>1, AsideOf
  <2>2. CASE Propose(u)
        BY <2>1, <2>2, AsidePropose, BetweenFrom
  <2>3. CASE AcceptPrompt(u)
        BY <2>1, <2>3, AsideAccept, BetweenFrom
  <2>4. CASE Dismiss(u)
    <3>1. UNCHANGED <<strip, loop, stripUp, stripRoom, stripDown>>
          BY <2>4 DEF Dismiss
    <3> QED BY <2>1, <3>1, AsideDismiss, BetweenFrom
  <2>5. CASE OnTandemFrame(u)
        BY <2>1, <2>5, AsideFrame, BetweenFrom
  <2>6. CASE FromBrowser(u)
        BY <2>1, <2>6, AsideBrowser, BetweenFrom
  <2>7. CASE FromRoom(u)
        BY <2>1, <2>7, AsideRoom, AsideStarts, BetweenFrom
  <2>8. CASE PhaseOver(u)
        BY <2>1, <2>8, AsideClock, BetweenFrom
  <2> QED BY <2>2, <2>3, <2>4, <2>5, <2>6, <2>7, <2>8
<1>2. ASSUME NEW w \in Sides, Running(w) PROVE Running(w)' \/ Between'
  <2>1. CASE Propose(u) \/ AcceptPrompt(u) \/ Dismiss(u)
        BY <1>2, <2>1, RunningCard
  <2>2. CASE OnTandemFrame(u)
        BY <1>2, <2>2, RunningFrame
  <2>3. CASE FromBrowser(u)
        BY <1>2, <2>3, RunningFromBrowser
  <2>4. CASE FromRoom(u)
        BY <1>2, <2>4, RunningRoom
  <2>5. CASE PhaseOver(u)
        BY <1>2, <2>5, RunningClock
  <2> QED BY <2>1, <2>2, <2>3, <2>4, <2>5
<1> QED BY <1>1, <1>2

LEMMA TandemKept == TandemInv /\ [TandemNext]_tandemVars => TandemInv'
<1> SUFFICES ASSUME TandemInv, [TandemNext]_tandemVars PROVE TandemInv'
    OBVIOUS
<1>1. StripsOK /\ LegsOK /\ ShortOK
      BY TandemTypes DEF TandemInv
<1>2. StripsOK' /\ LegsOK' /\ ShortOK'
      BY <1>1, StripsKept, LegsKept, ShortKept
<1>3. TandemTypeOK'
      BY <1>2 DEF TandemTypeOK, StripsOK, LegsOK, ShortOK, StripKinds, Loops
<1>4. ASSUME BothHere' PROVE (Present /\ (Between \/ \E w \in Sides : Running(w)))'
  <2>1. ASSUME NEW u \in Sides,
               Propose(u) \/ AcceptPrompt(u) \/ Dismiss(u) \/ OnTandemFrame(u)
               \/ FromBrowser(u) \/ FromRoom(u) \/ PhaseOver(u) \/ LeaveRoom(u)
        PROVE  Present' /\ (Between' \/ \E w \in Sides : Running(w)')
    <3>1. BothHere /\ ~LeaveRoom(u)
          BY <1>1, <1>4, <2>1, HereBefore
    <3>2. Present /\ (Between \/ \E w \in Sides : Running(w))
          BY <3>1 DEF TandemInv
    <3> QED BY <1>1, <2>1, <3>1, <3>2, PresentKept, TandemSide
  <2>2. CASE UNCHANGED tandemVars
    <3>1. BothHere
          BY <1>4, <2>2 DEF BothHere, tandemVars
    <3>2. Present /\ (Between \/ \E w \in Sides : Running(w))
          BY <3>1 DEF TandemInv
    <3>3. Present'
          BY <2>2, <3>2 DEF Present, tandemVars
    <3>4. ASSUME NEW w \in Sides, Running(w) PROVE Running(w)'
          BY <2>2, <3>4, RunningStrip DEF tandemVars
    <3>5. ASSUME Between PROVE Between'
      <4>1. PICK p \in Places, q \in Places : Aside("a", p, q)
            BY <3>5 DEF Between
      <4>2. "a" \in Sides
            BY DEF Sides
      <4> QED BY <2>2, <4>1, <4>2, AsideDismiss, BetweenFrom DEF tandemVars
    <3> QED BY <3>2, <3>3, <3>4, <3>5
  <2> QED BY <2>1, <2>2 DEF TandemNext
<1> QED BY <1>3, <1>4 DEF TandemInv

\* Outside a session no strip is active once everything has arrived; inside one, both are.
LEMMA TandemGives == TandemInv => TandemInStep
<1> SUFFICES ASSUME TandemInv, Quiet, BothHere
             PROVE  /\ (strip["a"].kind = "active") <=> (strip["b"].kind = "active")
                    /\ strip["a"].lang = strip["b"].lang
                    /\ strip["a"].kind = "active"
                         => \E u \in Sides : OwnsClock(u) /\ loop[u].timer
    BY DEF TandemInStep
<1>1. Present /\ (Between \/ \E w \in Sides : Running(w))
      BY DEF TandemInv
<1>2. "a" \in Sides /\ "b" \in Sides /\ Other("a") = "b"
      BY DEF Sides, Other
<1>3. CASE Between
  <2>1. PICK p \in Places, q \in Places : Aside("a", p, q)
        BY <1>3 DEF Between
  <2>2. strip["a"].kind # "active" /\ strip["b"].kind # "active"
        BY <1>2, <2>1, QuietHolds DEF Aside, Over, Ending
  <2> QED BY <1>1, <1>2, <2>2 DEF Present
<1>4. ASSUME NEW w \in Sides, Running(w)
      PROVE  /\ strip["a"].kind = "active" /\ strip["b"].kind = "active"
             /\ strip["a"].lang = strip["b"].lang
             /\ OwnsClock(w) /\ loop[w].timer
      BY <1>2, <1>4, QuietHolds DEF Running, Imposed, OwnsClock
<1> QED BY <1>1, <1>3, <1>4

\* Every reachable state of the two strips, the two session loops and the legs between them
\* has the types of TandemTypeOK (stores/chatStore.ts, internal/ws/chat.go).
THEOREM TandemTypesHold == TandemSpec => []TandemTypeOK
<1>1. TandemInv => TandemTypeOK
      BY DEF TandemInv
<1> QED BY <1>1, TandemStart, TandemKept, PTL DEF TandemSpec

\* With nothing under way and both partners in the room, the two strips impose one language
\* or none, and one loop's clock runs while they impose one: whatever proposals crossed,
\* were ignored or were accepted late (runChat's tandem branches, chat/TandemStrip.tsx).
THEOREM TandemInStepHolds == TandemSpec => []TandemInStep
BY TandemStart, TandemKept, TandemGives, PTL DEF TandemSpec
=============================================================================
