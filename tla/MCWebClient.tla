----------------------------- MODULE MCWebClient -----------------------------
(***************************************************************************)
(* The parts of the web client and Billing, checked side by side: a        *)
(* behaviour of this module is a behaviour of one of them.  The others     *)
(* rest in one of their initial states.                                    *)
(***************************************************************************)
EXTENDS MatchClient, Tandem, ChatControls, FriendPrompt, Composer, Reading, ChatThread,
        FriendThread, FriendPanel, Setup, Lesson, Learn, Auth, Vocab, Account, Photos,
        Billing

VARIABLE part   \* the part this behaviour is about

vars == <<part, matchVars, tandemVars, friendVars, threadVars, ftVars, controlVars,
          composerVars, readingVars, panelVars, setupVars, lessonVars, learnVars,
          authVars, vocabVars, accountVars, photosVars, billingVars>>

-----------------------------------------------------------------------------
(* Values for MatchClient, Composer, whose corrected text may be personal data, Lesson  *)
(* and Account.                                                                        *)

MCModes == <<"anon", "friends">>

MCTexts == {"plain", "plane", "mail", "phone"}
MCPII == {"mail", "phone"}
MCMistaken == {"plane"}
MCCorrected == [t \in MCMistaken |-> "phone"]

MCPlaylist == {<<"vocab", <<"word", "phrase", "word">>>>, <<"script", <<"jamo", "sign">>>>,
               <<"daily", <<"fault">>>>, <<"diagnostic", <<"sign", "sign">>>>,
               <<"practice", <<"word">>>>}

MCDrafts == {"", "bio", "bio "}
MCTrimmed == [d \in MCDrafts |-> IF d = "bio " THEN "bio" ELSE d]

-----------------------------------------------------------------------------
Parts == {"match", "strip", "controls", "prompt", "compose", "read", "thread",
          "friend", "panel", "setup", "lesson", "learn", "auth", "vocab", "account",
          "photos", "billing"}

Init ==
    /\ part \in Parts
    /\ MatchInit /\ (part = "match" \/ fingerprint = "ready")
    /\ FriendInit /\ (part = "prompt" \/ \A u \in FriendSides : loggedIn[u])
    /\ FriendThreadInit /\ (part = "friend" \/ log = <<>>)
    /\ TandemInit /\ ThreadInit
    /\ ControlsInit /\ ComposerInit /\ VocabInit
    /\ ReadingInit /\ (part = "read" \/ (~immersion /\ once = [f \in Once |-> "seen"]))
    /\ FriendPanelInit /\ (part = "panel" \/ (server.streak = 0 /\ live.none))
    /\ SetupInit /\ (part = "setup" \/ (form.name = "" /\ form.age /\ page = "pseudo" /\ ~user))
    /\ LessonInit /\ (part = "lesson" \/ (lesson[1] = "daily" /\ ~learner.premium))
    /\ LearnInit /\ (part = "learn" \/ (school.heart /\ asks = 0))
    /\ AuthInit /\ (part = "auth" \/ (view = "app" /\ \A a \in Accounts : accounts[a].pwd = "none"))
    /\ AccountInit /\ (part = "account" \/ row = "")
    /\ PhotosInit /\ (part = "photos" \/ photos = <<>>)
    /\ BillingInit

\* The other parts rest.
Only(p) ==
    /\ part = p /\ UNCHANGED part
    /\ p # "match" => UNCHANGED matchVars
    /\ p # "strip" => UNCHANGED tandemVars
    /\ p # "controls" => UNCHANGED controlVars
    /\ p # "prompt" => UNCHANGED friendVars
    /\ p # "compose" => UNCHANGED composerVars
    /\ p # "read" => UNCHANGED readingVars
    /\ p # "thread" => UNCHANGED threadVars
    /\ p # "friend" => UNCHANGED ftVars
    /\ p # "panel" => UNCHANGED panelVars
    /\ p # "setup" => UNCHANGED setupVars
    /\ p # "lesson" => UNCHANGED lessonVars
    /\ p # "learn" => UNCHANGED learnVars
    /\ p # "auth" => UNCHANGED authVars
    /\ p # "vocab" => UNCHANGED vocabVars
    /\ p # "account" => UNCHANGED accountVars
    /\ p # "photos" => UNCHANGED photosVars
    /\ p # "billing" => UNCHANGED billingVars

Next ==
    \/ Only("match") /\ MatchNext
    \/ Only("strip") /\ TandemNext
    \/ Only("controls") /\ ControlsNext
    \/ Only("prompt") /\ FriendNext
    \/ Only("compose") /\ ComposerNext
    \/ Only("read") /\ ReadingNext
    \/ Only("thread") /\ ThreadNext
    \/ Only("friend") /\ FriendThreadNext
    \/ Only("panel") /\ FriendPanelNext
    \/ Only("setup") /\ SetupNext
    \/ Only("lesson") /\ LessonNext
    \/ Only("learn") /\ LearnNext
    \/ Only("auth") /\ AuthNext
    \/ Only("vocab") /\ VocabNext
    \/ Only("account") /\ AccountNext
    \/ Only("photos") /\ PhotosNext
    \/ Only("billing") /\ BillingNext

Spec == Init /\ [][Next]_vars

\* Partners, tabs and deliveries are interchangeable: of the states that differ only in
\* who is where, one is explored.
Unordered(f) == [x \in Range(f) |-> Cardinality({i \in DOMAIN f : f[i] = x})]

\* What is left of a partner who has left the conversation: nothing else is read again.
\* The link of a card is read by nothing but the poll that sets it.
PromptView ==
    <<Unordered([u \in FriendSides |->
        <<IF side[u].here
          THEN <<side[u], card[u], cardRoom[u], cardDown[u], wire[u]>>
          ELSE <<side[u].user, side[u].done>>,
          loggedIn[u], pending[u], resolving[u], hand[u]>>]),
      stored, burned, fails>>

\* What is left of a page of the account that was left.
AccountView ==
    IF place \in {"loading", "page"} THEN <<accountVars>> ELSE <<place, row, puts>>

BillingView ==
    <<linked, mirror, processed, Unordered(checkout), customers, payers, StripeSide,
      Unordered(delivery), effects>>

\* What tells two states apart: the part and its own variables, since the others rest.
View ==
    CASE part = "match"    -> <<part, matchVars>>
      [] part = "strip"    -> <<part, tandemVars>>
      [] part = "controls" -> <<part, controlVars>>
      [] part = "prompt"   -> <<part, PromptView>>
      [] part = "compose"  -> <<part, composerVars>>
      [] part = "read"     -> <<part, readingVars>>
      [] part = "thread"   -> <<part, threadVars>>
      [] part = "friend"   -> <<part, ftVars>>
      [] part = "panel"    -> <<part, panelVars>>
      [] part = "setup"    -> <<part, setupVars>>
      [] part = "lesson"   -> <<part, lessonVars>>
      [] part = "learn"    -> <<part, learnVars>>
      [] part = "auth"     -> <<part, authVars>>
      [] part = "vocab"    -> <<part, vocabVars>>
      [] part = "account"  -> <<part, AccountView>>
      [] part = "photos"   -> <<part, photosVars>>
      [] part = "billing"  -> <<part, BillingView>>

-----------------------------------------------------------------------------
\* Types of every part's variables.
TypeOK ==
    /\ part = "match" => MatchTypeOK
    /\ part = "strip" => TandemTypeOK
    /\ part = "prompt" => FriendTypeOK
    /\ part = "thread" => ThreadTypeOK
    /\ part = "friend" => FriendThreadTypeOK
    /\ part = "controls" => ControlsTypeOK
    /\ part = "compose" => ComposerTypeOK
    /\ part = "read" => ReadingTypeOK
    /\ part = "panel" => FriendPanelTypeOK
    /\ part = "setup" => SetupTypeOK
    /\ part = "lesson" => LessonTypeOK
    /\ part = "learn" => LearnTypeOK
    /\ part = "auth" => AuthTypeOK
    /\ part = "vocab" => VocabTypeOK
    /\ part = "account" => AccountTypeOK
    /\ part = "photos" => PhotosTypeOK
    /\ part = "billing" => BillingTypeOK
=============================================================================
