------------------------------- MODULE FriendPanel -------------------------------
(***************************************************************************)
(* What surrounds the messages of two friends: the flame in the header and *)
(* the banner of a lost streak with its dialog                             *)
(* (friends/StreakRestoreModal.tsx), the menu of actions, "seen" and "is   *)
(* writing" (friends/FriendConversation.tsx, FriendActionsMenu.tsx,        *)
(* FriendProfileModal.tsx).                                                *)
(*                                                                         *)
(* The value the inbox pushes (live) hides the one of the profile.  The    *)
(* dialog may be closed and opened again while a request is under way.     *)
(***************************************************************************)
EXTENDS Naturals, Sequences

CONSTANTS Days,      \* length of the streak that is lost
          MaxTokens, \* restorations left at the start
          MaxLosses, \* bound: times the streak is lost
          MaxAsked   \* bound: restorations asked for

ASSUME FriendPanelAssumption ==
    Days \in Nat \ {0, 1} /\ {MaxTokens, MaxLosses, MaxAsked} \subseteq Nat

VARIABLES server,  \* streak, what was lost, tokens, losses, restorations asked for
          events,  \* streaks published and not received
          live,    \* streakByFriend[friendId], None when nothing was pushed
          profile, \* streak and loss as they were fetched, None before
          asked,   \* the profile that is under way, None
          answers, \* results of the restorations under way
          sheet,   \* "none", "menu", "report", "remove", "profile", "restore"
          restore, \* state of the dialog: initial, loading, done, error
          closers, \* timers that close the dialog
          sign,    \* typing and seen, and whether the last message is mine
          left     \* the conversation is closed for good

panelVars == <<server, events, live, profile, asked, answers, sheet, restore, closers,
               sign, left>>

None == [streak |-> 0, lost |-> 0, none |-> TRUE]
Streak(s, l) == [streak |-> s, lost |-> l, none |-> FALSE]
Streaks == {None} \cup {Streak(s, l) : s, l \in {0, Days}}
Results == {"restored", "refused", "failed"}

FriendPanelTypeOK ==
    /\ server \in [streak : {0, Days}, lost : {0, Days}, tokens : 0..MaxTokens,
                   losses : 0..MaxLosses, asked : 0..MaxAsked]
    /\ {live, profile, asked} \subseteq Streaks
    /\ events \in Seq({0, Days}) /\ answers \in Seq(Results)
    /\ sheet \in {"none", "menu", "report", "remove", "profile", "restore"}
    /\ restore \in {"initial", "loading", "done", "error"} /\ closers \in 0..MaxAsked
    /\ sign \in [typing : BOOLEAN, seen : BOOLEAN, mine : BOOLEAN] /\ left \in BOOLEAN

\* The conversation opens on a streak that runs or was just lost, and asks for the profile.
FriendPanelInit ==
    /\ \E s \in {0, Days} :
         server = [streak |-> s, lost |-> Days - s, tokens |-> MaxTokens, losses |-> 0,
                   asked |-> 0]
    /\ asked = Streak(server.streak, server.lost)
    /\ live \in {None, Streak(server.streak, 0)} /\ profile = None
    /\ events = <<>> /\ answers = <<>> /\ sheet = "none" /\ restore = "initial"
    /\ closers = 0 /\ sign = [typing |-> FALSE, seen |-> FALSE, mine |-> TRUE]
    /\ left = FALSE

-----------------------------------------------------------------------------
(* The server *)

\* The daily job takes a streak and tells both friends.
LoseStreak ==
    /\ server.streak > 0 /\ server.losses < MaxLosses
    /\ server' = [server EXCEPT !.streak = 0, !.lost = @ + server.streak,
                                !.losses = @ + 1]
    /\ events' = Append(events, 0)
    /\ UNCHANGED <<live, profile, asked, answers, sheet, restore, closers, sign, left>>

Relit == [server EXCEPT !.streak = server.lost, !.lost = 0, !.tokens = @ - 1]
\* Mutant: only the number left is looked at.
RestorableAnytime == server.tokens > 0

Restorable == server.lost > 0 /\ server.tokens > 0

PeerRestores ==
    /\ Restorable /\ server' = Relit /\ events' = Append(events, Relit.streak)
    /\ UNCHANGED <<live, profile, asked, answers, sheet, restore, closers, sign, left>>

-----------------------------------------------------------------------------
(* Header and banner *)

Header == IF live.none THEN profile.streak ELSE live.streak
FlameShown == ~profile.none /\ Header >= 2

\* Its button is off when no restoration is left.
BannerShown == ~profile.none /\ profile.lost >= 2 /\ profile.streak = 0

ProfileArrives(ok) ==
    /\ ~asked.none /\ asked' = None
    /\ profile' = IF ok THEN asked ELSE profile
    /\ live' = IF ok THEN Streak(asked.streak, 0) ELSE live
    /\ UNCHANGED <<server, events, answers, sheet, restore, closers, sign, left>>

\* The frame of the conversation and the one of the inbox.
StreakArrives ==
    /\ events # <<>> /\ events' = Tail(events)
    /\ live' = Streak(Head(events), 0)
    /\ profile' = IF profile.none THEN profile ELSE [profile EXCEPT !.streak = Head(events)]
    /\ UNCHANGED <<server, asked, answers, sheet, restore, closers, sign, left>>

-----------------------------------------------------------------------------
(* StreakRestoreModal.tsx *)

OpenRestore ==
    /\ sheet = "none" /\ ~left /\ BannerShown /\ server.tokens > 0
    /\ sheet' = "restore" /\ restore' = "initial"
    /\ UNCHANGED <<server, events, live, profile, asked, answers, closers, sign, left>>

\* What becomes of a request: answered, served with its answer lost, or never delivered.
Fates == {"answered", "unheard", "undelivered"}

\* The server decides when the request reaches it; a lost one is an error in the dialog.
Confirm(fate) ==
    /\ sheet = "restore" /\ restore = "initial" /\ server.asked < MaxAsked
    /\ restore' = "loading"
    /\ LET taken == fate # "undelivered" /\ Restorable
           next == IF taken THEN Relit ELSE server
       IN /\ server' = [next EXCEPT !.asked = @ + 1]
          /\ events' = IF taken THEN Append(events, Relit.streak) ELSE events
          /\ answers' = Append(answers, IF fate # "answered" THEN "failed"
                                       ELSE IF taken THEN "restored" ELSE "refused")
    /\ UNCHANGED <<live, profile, asked, sheet, closers, sign, left>>

\* Any answer is shown in the dialog as it is now, open again or not.
RestoreAnswered ==
    /\ answers # <<>> /\ answers' = Tail(answers)
    /\ \/ /\ Head(answers) = "restored" /\ restore' = "done" /\ closers' = closers + 1
          /\ live' = Streak(Days, 0)
          /\ profile' = IF profile.none THEN profile ELSE Streak(Days, 0)
       \/ /\ Head(answers) # "restored" /\ restore' = "error"
          /\ UNCHANGED <<closers, live, profile>>
    /\ UNCHANGED <<server, events, asked, sheet, sign, left>>

\* 1.8 s after a success, whatever the dialog shows by then.
RestoreCloses ==
    /\ closers > 0 /\ closers' = closers - 1
    /\ sheet' = IF sheet = "restore" THEN "none" ELSE sheet
    /\ UNCHANGED <<server, events, live, profile, asked, answers, restore, sign, left>>

-----------------------------------------------------------------------------
(* Menu, dialogs and signs *)

ShowDialog(s) ==
    /\ sheet' = s
    /\ UNCHANGED <<server, events, live, profile, asked, answers, restore, closers, sign, left>>

OpenMenu == sheet = "none" /\ ~left /\ ShowDialog("menu")

\* Mute closes the menu, the other entries open a dialog.
PickEntry == sheet = "menu" /\ \E s \in {"none", "report", "remove"} : ShowDialog(s)

OpenProfile == sheet = "none" /\ ~left /\ ShowDialog("profile")

\* Escape, a click outside, cancel; a report is confirmed whether it was taken or not.
CloseDialog == sheet # "none" /\ ShowDialog("none")

\* The friend is removed and the conversation closes, or it stays as it was.
RemoveFriend ==
    /\ sheet = "remove" /\ sheet' = "none" /\ left' \in BOOLEAN
    /\ UNCHANGED <<server, events, live, profile, asked, answers, restore, closers, sign>>

\* A message of mine or of the peer, a typing frame or its 3.5 s, a read receipt.
Signs ==
    /\ \/ sign' = [typing |-> sign.typing, seen |-> FALSE, mine |-> TRUE]
       \/ sign' = [typing |-> FALSE, seen |-> sign.seen, mine |-> FALSE]
       \/ \E b \in BOOLEAN : sign' = [sign EXCEPT !.typing = b]
       \/ sign' = [sign EXCEPT !.seen = TRUE]
    /\ UNCHANGED <<server, events, live, profile, asked, answers, sheet, restore, closers, left>>

FriendPanelNext ==
    \/ LoseStreak \/ PeerRestores \/ StreakArrives \/ OpenRestore \/ RestoreAnswered
    \/ RestoreCloses \/ OpenMenu \/ PickEntry \/ OpenProfile \/ CloseDialog \/ RemoveFriend
    \/ Signs
    \/ \E ok \in BOOLEAN : ProfileArrives(ok)
    \/ \E fate \in Fates : Confirm(fate)

FriendPanelSpec == FriendPanelInit /\ [][FriendPanelNext]_panelVars

-----------------------------------------------------------------------------
\* StreakRestoreModal.tsx:7-9: however often the dialog is closed, opened and
\* confirmed again, and whatever the friend does meanwhile, a loss costs one
\* restoration at most.
OneTokenPerLoss == MaxTokens - server.tokens <= server.losses + 1
=============================================================================
