---------------------------- MODULE ChatControls ----------------------------
(***************************************************************************)
(* How a user leaves a conversation: the chat page of chat/ChatView.tsx    *)
(* with its header (tap-to-confirm Next and Quit), the cooldown after a    *)
(* match, the Ctrl+K shortcut, the guard of the browser's Back button, the *)
(* report sheet, the card shown once the partner left, and the offer to    *)
(* leave the AI teacher for a human.                                       *)
(*                                                                         *)
(* Next and a report are frames, and nothing changes on the page before    *)
(* the server's answer.  The session loop (ws/session.go, ws/chat.go)      *)
(* reads frames during a conversation only: one that comes at another time *)
(* waits for the next conversation.  It may refuse a Next, and may find    *)
(* the next partner without a stay in the queue; and a human may take over *)
(* from the AI that fills a stay.                                          *)
(***************************************************************************)
EXTENDS Naturals, Sequences

CONSTANTS MaxPartners, \* bound: partners met
          Countdown,   \* BackGuardModal: seconds of the countdown
          MaxTalk,     \* bound: lines of a conversation that are counted
          UpCap,       \* bound: frames under way to the session,
          DownCap      \* bound: and to the page

ASSUME ChatControlsAssumption ==
    {MaxPartners, Countdown, MaxTalk, UpCap, DownCap} \subseteq Nat \ {0}

VARIABLES talk,       \* what the store says of the conversation
          chatPage,   \* ChatView: gone, shown, leaving (its exit is animated), away (another tab)
          cooling,    \* the 3 s after matchedAt
          nextArmed,  \* partner shown when Next was tapped once, 0 when not armed
          quitArmed,  \* the same for Quit
          guard,      \* seconds left in the Back modal, 0 when it is closed
          report,     \* the report sheet
          closeDue,   \* a sent report's timer that will close the sheet
          waiting,    \* BotQueueWatch: humans in the queue, as last polled
          sess,       \* the session on the server: where it is, with whom
          upFrames,   \* frames under way to it, each with the partner it was meant for
          downFrames, \* frames under way to the page
          askedOnce,  \* history: a frame was sent for the partner on the page,
          doubled,    \* two were, for one of them
          relieved    \* history: a human has come while the AI filled the wait

ChatPage == <<talk, chatPage>>
Buttons == <<cooling, nextArmed, quitArmed>>
Widgets == <<report, closeDue, waiting, guard>>
Asking == <<upFrames, askedOnce, doubled>>
Loop == <<sess, relieved>>
controlVars == <<ChatPage, Buttons, Widgets, Asking, downFrames, Loop>>

Partners == 1..MaxPartners
PeerKinds == {"human", "teacher", "filler"}  \* the AI: as chosen, or while one waits

Talks == [status : {"queued", "matched", "post_chat", "ended"},
          partner : 0..MaxPartners, kind : PeerKinds, lines : 0..MaxTalk]
Sessions == [at : {"looking", "queued", "chat", "left", "over"},
             partner : 0..MaxPartners, kind : PeerKinds]
Ups == [type : {"next", "report"}, meant : 0..MaxPartners]
Downs == [type : {"queued", "matched", "msg", "peer_left", "error"},
          partner : 0..MaxPartners, kind : PeerKinds]

ControlsFlagsOK ==
    /\ cooling \in BOOLEAN /\ closeDue \in BOOLEAN /\ waiting \in BOOLEAN
    /\ askedOnce \in BOOLEAN /\ doubled \in BOOLEAN /\ relieved \in BOOLEAN

ControlsTypeOK ==
    /\ ControlsFlagsOK
    /\ talk \in Talks /\ chatPage \in {"gone", "shown", "leaving", "away"}
    /\ nextArmed \in 0..MaxPartners /\ quitArmed \in 0..MaxPartners
    /\ guard \in 0..Countdown /\ report \in {"closed", "form", "sent"}
    /\ sess \in Sessions /\ upFrames \in Seq(Ups) /\ downFrames \in Seq(Downs)
    /\ Len(upFrames) <= UpCap /\ Len(downFrames) <= DownCap

ControlsInit ==
    /\ talk = [status |-> "queued", partner |-> 0, kind |-> "human", lines |-> 0]
    /\ chatPage = "gone" /\ cooling = FALSE /\ nextArmed = 0 /\ quitArmed = 0 /\ guard = 0
    /\ report = "closed" /\ closeDue = FALSE /\ waiting = FALSE
    /\ sess = [at |-> "looking", partner |-> 0, kind |-> "human"]
    /\ upFrames = <<>> /\ downFrames = <<>>
    /\ askedOnce = FALSE /\ doubled = FALSE /\ relieved = FALSE

-----------------------------------------------------------------------------
(* The session on the server: ws/session.go, ws/chat.go *)

InRoom == sess.at \in {"chat", "left"}

Tells(type, l) ==
    /\ Len(downFrames) < DownCap
    /\ downFrames' = Append(downFrames, [type |-> type, partner |-> l.partner, kind |-> l.kind])
    /\ UNCHANGED <<ChatPage, Buttons, Widgets>>

\* A partner is there at once, the teacher is called, or comes to fill the wait.
Meet(kind) ==
    /\ sess.at \in {"looking", "queued"} /\ sess.partner < MaxPartners
    /\ sess.at = "looking" => kind # "filler"
    /\ sess.at = "queued" => kind # "teacher"
    /\ sess' = [at |-> "chat", partner |-> sess.partner + 1, kind |-> kind]
    /\ Tells("matched", sess') /\ UNCHANGED <<Asking, relieved>>

\* Again when the partner who came is one the user has reported.
Wait ==
    /\ sess.at \in {"looking", "queued"} /\ sess' = [sess EXCEPT !.at = "queued"]
    /\ Tells("queued", sess) /\ UNCHANGED <<Asking, relieved>>

\* A human arrives; one whom the user has reported is sent away, and the search
\* begins again.
TakeOver ==
    /\ InRoom /\ sess.kind = "filler" /\ relieved' = TRUE
    /\ \/ /\ sess.partner < MaxPartners
          /\ sess' = [at |-> "chat", partner |-> sess.partner + 1, kind |-> "human"]
          /\ Tells("matched", sess')
       \/ sess' = [sess EXCEPT !.at = "looking"] /\ UNCHANGED <<ChatPage, Buttons, Widgets, downFrames>>
    /\ UNCHANGED Asking

PeerSays == sess.at = "chat" /\ Tells("msg", sess) /\ UNCHANGED <<Asking, Loop>>

\* Mutant: the session goes to the next partner by itself.
PartnerLost ==
    /\ sess.at = "chat" /\ sess' = [sess EXCEPT !.at = "looking"]
    /\ Tells("peer_left", sess) /\ UNCHANGED <<Asking, relieved>>

\* The session stays until the user has asked for another one.
PartnerLeaves ==
    /\ sess.at = "chat" /\ sess' = [sess EXCEPT !.at = "left"]
    /\ Tells("peer_left", sess) /\ UNCHANGED <<Asking, relieved>>

\* A Next ends the conversation of the moment, or comes too soon after the last one;
\* a report ends it, or is refused.
ReadAsk ==
    /\ InRoom /\ upFrames # <<>> /\ upFrames' = Tail(upFrames)
    /\ \/ sess' = [sess EXCEPT !.at = "looking"] /\ UNCHANGED <<ChatPage, Buttons, Widgets, downFrames>>
       \/ /\ UNCHANGED sess
          /\ IF Head(upFrames).type = "report" THEN Tells("error", sess)
             ELSE UNCHANGED <<ChatPage, Buttons, Widgets, downFrames>>
    /\ UNCHANGED <<askedOnce, doubled, relieved>>

\* Spent quota, a queue for too long, an error of the search: the session is over.
GiveUp ==
    /\ sess.at \in {"looking", "queued"} /\ sess' = [sess EXCEPT !.at = "over"]
    /\ Tells("error", sess) /\ UNCHANGED <<Asking, relieved>>

-----------------------------------------------------------------------------
\* What the page offers, as long as it is mounted.
Mounted == chatPage \in {"shown", "leaving"}
PostChat == talk.status # "matched"
CanNext  == ~cooling
NextShown == Mounted /\ ~PostChat
BotWatchShown == NextShown /\ talk.kind = "filler"
CanReport == talk.lines > 0 /\ ~PostChat

\* A render gives BackGuardModal a new onConfirm and restarts its countdown.
GuardAgain == guard' = IF guard = 0 THEN 0 ELSE Countdown

\* The page's timers and sheets go with it.
Unmounted ==
    /\ nextArmed' = 0 /\ quitArmed' = 0 /\ guard' = 0
    /\ report' = "closed" /\ closeDue' = FALSE /\ waiting' = FALSE

\* stop(): the socket is closed and the conversation over.
Stopped ==
    /\ talk' = [talk EXCEPT !.status = "ended"] /\ chatPage' = "gone"
    /\ sess' = [sess EXCEPT !.at = "over"] /\ upFrames' = <<>> /\ downFrames' = <<>>
    /\ Unmounted /\ UNCHANGED <<cooling, askedOnce, doubled, relieved>>

\* next() and report(): a frame.
Asks(type) ==
    /\ Len(upFrames) < UpCap
    /\ upFrames' = Append(upFrames, [type |-> type, meant |-> talk.partner])
    /\ askedOnce' = TRUE /\ doubled' = (doubled \/ askedOnce)
    /\ UNCHANGED <<ChatPage, downFrames, Loop>>

Longer == IF talk.lines < MaxTalk THEN talk.lines + 1 ELSE talk.lines

-----------------------------------------------------------------------------
(* What the page hears: hooks/useMatch.ts, ChatView.tsx *)

\* A partner, whether the page showed the queue or another partner; the same page then
\* stays.  The cooldown starts and disarms Next.
Matched(f) ==
    /\ talk' = [status |-> "matched", partner |-> f.partner, kind |-> f.kind,
                lines |-> IF talk.kind = "filler" \/ f.kind = "filler" THEN 1 ELSE 0]
    /\ chatPage' = IF chatPage = "away" THEN "away" ELSE "shown"
    /\ askedOnce' = FALSE /\ cooling' = TRUE /\ nextArmed' = 0 /\ UNCHANGED quitArmed

\* The two buttons unmount with the conversation.
NotMatched(status) ==
    /\ talk' = [talk EXCEPT !.status = status,
                            !.lines = IF status = "post_chat" THEN Longer ELSE @]
    /\ chatPage' = IF chatPage = "shown" /\ status = "queued" THEN "leaving" ELSE chatPage
    /\ nextArmed' = 0 /\ quitArmed' = 0 /\ UNCHANGED <<askedOnce, cooling>>

OnFrame ==
    /\ downFrames # <<>> /\ downFrames' = Tail(downFrames)
    /\ LET f == Head(downFrames)
       IN \/ f.type = "matched" /\ Matched(f) /\ waiting' = FALSE
          \/ f.type = "queued" /\ NotMatched("queued") /\ waiting' = FALSE
          \/ f.type = "peer_left" /\ NotMatched("post_chat") /\ waiting' = FALSE
          \/ /\ f.type = "msg" /\ talk' = [talk EXCEPT !.lines = Longer]
             /\ UNCHANGED <<chatPage, Buttons, waiting, askedOnce>>
    /\ GuardAgain /\ UNCHANGED <<upFrames, doubled, report, closeDue, Loop>>

\* The error's screen takes the page's place.
OnError == downFrames # <<>> /\ Head(downFrames).type = "error" /\ Stopped

\* The exit's animation is over.
PageGone ==
    /\ chatPage = "leaving" /\ chatPage' = "gone" /\ Unmounted
    /\ UNCHANGED <<talk, cooling, Asking, downFrames, Loop>>

\* The tab of the friends replaces the page; the conversation goes on.
ToFriends ==
    /\ chatPage = "shown" /\ chatPage' = "away" /\ Unmounted
    /\ UNCHANGED <<talk, cooling, Asking, downFrames, Loop>>

BackToChat ==
    /\ chatPage = "away"
    /\ chatPage' = IF talk.status \in {"matched", "post_chat"} THEN "shown" ELSE "gone"
    /\ UNCHANGED <<talk, Buttons, Widgets, Asking, downFrames, Loop>>

CooldownOver ==
    /\ cooling /\ cooling' = FALSE /\ GuardAgain
    /\ UNCHANGED <<ChatPage, nextArmed, quitArmed, report, closeDue, waiting, Asking, downFrames, Loop>>

Say ==
    /\ NextShown /\ talk' = [talk EXCEPT !.lines = Longer] /\ GuardAgain
    /\ UNCHANGED <<chatPage, Buttons, report, closeDue, waiting, Asking, downFrames, Loop>>

-----------------------------------------------------------------------------
(* ChatHeader.tsx *)

TapNext ==
    /\ NextShown /\ CanNext
    /\ \/ nextArmed # 0 /\ nextArmed' = 0 /\ Asks("next")
       \/ nextArmed = 0 /\ nextArmed' = talk.partner /\ UNCHANGED <<ChatPage, Asking, downFrames, Loop>>
    /\ UNCHANGED <<cooling, quitArmed, Widgets>>

TapQuit ==
    /\ NextShown
    /\ \/ quitArmed # 0 /\ Stopped
       \/ /\ quitArmed = 0 /\ quitArmed' = talk.partner
          /\ UNCHANGED <<ChatPage, cooling, nextArmed, Widgets, Asking, downFrames, Loop>>

NextForgotten ==
    /\ nextArmed # 0 /\ nextArmed' = 0
    /\ UNCHANGED <<ChatPage, cooling, quitArmed, Widgets, Asking, downFrames, Loop>>

QuitForgotten ==
    /\ quitArmed # 0 /\ quitArmed' = 0
    /\ UNCHANGED <<ChatPage, cooling, nextArmed, Widgets, Asking, downFrames, Loop>>

-----------------------------------------------------------------------------
(* ChatView.tsx, PostChatCard.tsx, BotQueueWatch.tsx *)

\* Ctrl+K goes through no confirmation, only through the cooldown.
ShortcutNext == Mounted /\ CanNext /\ Asks("next") /\ UNCHANGED <<Buttons, Widgets>>

\* The card of the end, which a page that leaves shows too.
PostChatNext == Mounted /\ PostChat /\ Asks("next") /\ UNCHANGED <<Buttons, Widgets>>
PostChatQuit == Mounted /\ PostChat /\ Stopped

PollQueue(n) ==
    /\ BotWatchShown /\ waiting # n /\ waiting' = n
    /\ UNCHANGED <<ChatPage, Buttons, report, closeDue, guard, Asking, downFrames, Loop>>

SwitchToHuman == BotWatchShown /\ waiting /\ Asks("next") /\ UNCHANGED <<Buttons, Widgets>>

\* popstate: the decoy entry is pushed again and the modal opens.
ModalAt(seconds) ==
    /\ Mounted /\ guard' = seconds
    /\ UNCHANGED <<ChatPage, Buttons, report, closeDue, waiting, Asking, downFrames, Loop>>

BackPressed == guard = 0 /\ ModalAt(Countdown)
CancelBack == guard # 0 /\ ModalAt(0)

\* A second of the countdown; at its end the page stops the chat and goes back.
GuardTick == (guard = 1 /\ Stopped) \/ (guard > 1 /\ ModalAt(guard - 1))

-----------------------------------------------------------------------------
(* ReportModal.tsx *)

Sheet(state, due) ==
    /\ Mounted /\ report' = state /\ closeDue' = due
    /\ IF (report = "closed") = (state = "closed") THEN UNCHANGED guard ELSE GuardAgain
    /\ UNCHANGED <<ChatPage, Buttons, waiting, downFrames, Loop>>

OpenReport  == CanReport /\ report = "closed" /\ Sheet("form", closeDue) /\ UNCHANGED Asking
CloseReport == report # "closed" /\ Sheet("closed", closeDue) /\ UNCHANGED Asking
SubmitReport == report = "form" /\ Sheet("sent", TRUE) /\ Asks("report")

\* 1.2 s after a report, whatever the sheet has become meanwhile.
ReportTimer == closeDue /\ Sheet("closed", FALSE) /\ UNCHANGED Asking

ControlsNext ==
    \/ \E kind \in PeerKinds : Meet(kind)
    \/ Wait \/ TakeOver \/ PeerSays \/ PartnerLeaves \/ ReadAsk \/ GiveUp
    \/ OnFrame \/ OnError \/ PageGone \/ ToFriends \/ BackToChat \/ CooldownOver \/ Say
    \/ TapNext \/ TapQuit \/ NextForgotten \/ QuitForgotten \/ ShortcutNext \/ PostChatNext
    \/ PostChatQuit \/ (\E n \in BOOLEAN : PollQueue(n)) \/ SwitchToHuman
    \/ BackPressed \/ CancelBack \/ GuardTick
    \/ OpenReport \/ CloseReport \/ SubmitReport \/ ReportTimer

ControlsSpec == ControlsInit /\ [][ControlsNext]_controlVars

-----------------------------------------------------------------------------
\* A Next that was tapped once is confirmed for the partner it was tapped for, although
\* the page stays when another partner comes.  And a Next or a report is read in the
\* conversation it was meant for, since a session leaves a partner for such a frame only;
\* unless a human came while the AI filled the wait, or one partner was sent two.
NextForThisPartner ==
    /\ nextArmed \in {0, talk.partner}
    /\ ~relieved /\ ~doubled => \A k \in DOMAIN upFrames : upFrames[k].meant = sess.partner
=============================================================================
