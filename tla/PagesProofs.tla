------------------------------ MODULE PagesProofs ------------------------------
(***************************************************************************)
(* Theorems about the pages of the client outside a conversation: the      *)
(* screens before a search, the lessons and the courses.                   *)
(***************************************************************************)
EXTENDS Setup, Lesson, Learn, CollectionLemmas

-----------------------------------------------------------------------------
(* The screens before a search *)

PollType == [pair : Langs \X Langs, alive : BOOLEAN]

\* What the form, the step, the quota and the requests for the queue are made of.
ScreenOK ==
    /\ form \in Form /\ page \in {"pseudo", "config", "away", "stripe"}
    /\ quota \in Quotas /\ queue \in Choice \X Choice /\ polls \subseteq PollType

\* The AI teacher is never checked with a quota known to be spent, and a scenario never
\* chosen without it.
OfferInv == /\ form.bot => quota # "spent"
            /\ ~form.bot => form.scenario = "none"

\* A request whose effect lives is about the pair on the screen.
PollsInv ==
    \A q \in polls : q.alive => q.pair = <<form.speaks, form.wants>> /\ ~form.bot

\* The rest of the page and the subscription sheet.
FlagsInv == quotaAsked \in BOOLEAN /\ user \in BOOLEAN

SheetInv ==
    /\ url \in [config : BOOLEAN, behind : BOOLEAN]
    /\ account \in [suggestion : Names, tried : BOOLEAN, asked : BOOLEAN]
    /\ paywall \in [source : Sources \cup {"closed"}, loading : BOOLEAN, error : BOOLEAN,
                    login : BOOLEAN]
    /\ pays \in 0..MaxPays /\ started \in 0..MaxStarts
    /\ FlagsInv

SetupInv == ScreenOK /\ OfferInv /\ PollsInv /\ SheetInv

LEMMA SetupConstants ==
  NoLang \notin Langs /\ MaxPolls \in Nat /\ MaxStarts \in Nat /\ MaxPays \in Nat
BY SetupAssumption DEF SetupAssumption

LEMMA SetupInvGives == SetupInv => SetupTypeOK
<1> SUFFICES ASSUME SetupInv PROVE SetupTypeOK
    OBVIOUS
<1>1. ASSUME NEW q \in polls, NEW r \in polls, q.alive, r.alive PROVE q = r
  <2>1. q \in PollType /\ r \in PollType /\ q.pair = r.pair
        BY <1>1 DEF SetupInv, ScreenOK, PollsInv
  <2>2. q.alive = TRUE /\ r.alive = TRUE
        BY <1>1, <2>1 DEF PollType
  <2> QED BY <2>1, <2>2 DEF PollType
<1>2. \A q, r \in polls : q.alive /\ r.alive => q = r
      BY <1>1
<1> QED BY <1>2 DEF SetupInv, ScreenOK, SheetInv, FlagsInv, SetupTypeOK, PollType

LEMMA PairTypes ==
  ASSUME NEW f \in Form
  PROVE  /\ f.speaks \in Choice /\ f.wants \in Choice
         /\ \A p : Polls(f, p) => <<f.speaks, f.wants>> \in Langs \X Langs /\ ~f.bot
BY DEF Form, Polls, IsPairAllowed, AllowedPairs

\* An effect that runs again leaves at most one living request, about the new pair, and
\* shows no count it did not show before.
LEMMA RerunKeeps ==
  ASSUME ScreenOK, PollsInv, NEW f \in Form, NEW p, Rerun(f, p), form' = f
  PROVE  /\ polls' \subseteq PollType /\ queue' \in Choice \X Choice
         /\ PollsInv'
         /\ queue' # queue => queue' = NoPair
<1> DEFINE dead == {[q EXCEPT !.alive = FALSE] : q \in polls}
           same == <<f.speaks, f.wants, f.bot, p>> = <<form.speaks, form.wants, form.bot, page>>
<1>0. dead \subseteq PollType /\ \A q \in dead : q.alive = FALSE
  <2>1. \A q \in polls : /\ [q EXCEPT !.alive = FALSE] \in PollType
                         /\ [q EXCEPT !.alive = FALSE].alive = FALSE
        BY DEF ScreenOK, PollType
  <2> QED BY <2>1
<1>1. CASE same
  <2>1. UNCHANGED <<polls, queue>>
        BY <1>1 DEF Rerun
  <2>2. f.speaks = form.speaks /\ f.wants = form.wants /\ f.bot = form.bot
        BY <1>1
  <2> QED BY <2>1, <2>2 DEF ScreenOK, PollsInv
<1>2. CASE ~same /\ Polls(f, p)
  <2> DEFINE new == [pair |-> <<f.speaks, f.wants>>, alive |-> TRUE]
  <2>1. polls' = dead \cup {new} /\ queue' = queue
        BY <1>2 DEF Rerun
  <2>2. new \in PollType /\ ~f.bot /\ new.pair = <<f.speaks, f.wants>>
        BY <1>2, PairTypes DEF PollType
  <2> HIDE DEF new, dead
  <2>3. PollsInv'
        BY <1>0, <2>1, <2>2 DEF PollsInv
  <2> QED BY <1>0, <2>1, <2>2, <2>3 DEF ScreenOK
<1>3. CASE ~same /\ ~Polls(f, p)
  <2>1. polls' = dead /\ queue' = NoPair
        BY <1>3 DEF Rerun
  <2>2. NoPair \in Choice \X Choice
        BY DEF NoPair, Choice
  <2> HIDE DEF dead
  <2> QED BY <1>0, <2>1, <2>2 DEF PollsInv
<1> QED BY <1>1, <1>2, <1>3

\* What a spent quota leaves of the form.
LEMMA UncheckedKeeps ==
  ASSUME NEW f \in Form, NEW q, ~f.bot => f.scenario = "none"
  PROVE  LET u == Unchecked(f, q)
         IN /\ u \in Form
            /\ u.bot => q # "spent"
            /\ ~u.bot => u.scenario = "none"
<1>1. CASE q = "spent" /\ f.bot
  <2>1. Unchecked(f, q) = [f EXCEPT !.bot = FALSE, !.scenario = "none"]
        BY <1>1 DEF Unchecked
  <2> QED BY <2>1 DEF Form, Scenarios
<1>2. CASE ~(q = "spent" /\ f.bot)
      BY <1>2 DEF Unchecked
<1> QED BY <1>1, <1>2

\* The rest of the state, when a step leaves it alone.
Rest == <<url, account, paywall, pays, started, quotaAsked, user>>

LEMMA SheetRests == ASSUME SheetInv, UNCHANGED Rest PROVE SheetInv'
BY DEF SheetInv, FlagsInv, Rest

LEMMA ScreenRests ==
  ASSUME ScreenOK, OfferInv, PollsInv, UNCHANGED <<form, page, quota, queue, polls>>
  PROVE  ScreenOK' /\ OfferInv' /\ PollsInv' /\ queue' = queue
BY DEF ScreenOK, OfferInv, PollsInv

\* The count that appears, and the search that leaves.
SetupSteps == Counts /\ Searches

\* A form is stored: the polling starts over if it must, a spent quota unchecks the teacher.
LEMMA FormKeeps ==
  ASSUME SetupInv, NEW f \in Form, ~f.bot => f.scenario = "none", NEW q \in Quotas,
         form' = Unchecked(f, q), Rerun(Unchecked(f, q), page), quota' = q, page' = page,
         UNCHANGED started
  PROVE  ScreenOK' /\ OfferInv' /\ PollsInv' /\ SetupSteps
<1>1. /\ form' \in Form
      /\ form'.bot => q # "spent"
      /\ ~form'.bot => form'.scenario = "none"
      BY UncheckedKeeps
<1>2. /\ polls' \subseteq PollType /\ queue' \in Choice \X Choice
      /\ PollsInv'
      /\ queue' # queue => queue' = NoPair
      BY <1>1, RerunKeeps DEF SetupInv
<1>3. Counts
      BY <1>2 DEF Counts
<1>4. Searches
      BY DEF Searches
<1> QED BY <1>1, <1>2, <1>3, <1>4 DEF SetupInv, ScreenOK, OfferInv, SetupSteps

LEMMA SetFormKeeps ==
  ASSUME SetupInv, NEW f \in Form, ~f.bot => f.scenario = "none", SetForm(f)
  PROVE  SetupInv' /\ SetupSteps
<1>1. /\ form' = Unchecked(f, quota) /\ Rerun(Unchecked(f, quota), page)
      /\ quota' = quota /\ page' = page /\ UNCHANGED Rest
      BY DEF SetForm, Rest
<1>2. quota \in Quotas /\ started' = started
      BY <1>1 DEF SetupInv, ScreenOK, Rest
<1>3. ScreenOK' /\ OfferInv' /\ PollsInv' /\ SetupSteps
      BY <1>1, <1>2, FormKeeps
<1> QED BY <1>1, <1>3, SheetRests DEF SetupInv

\* A move between the steps.
LEMMA ArriveKeeps ==
  ASSUME SetupInv, NEW p \in {"pseudo", "config"}, Arrive(p),
         UNCHANGED <<form, paywall, pays, user, started>>,
         account' \in [suggestion : Names, tried : BOOLEAN, asked : BOOLEAN],
         quota' \in {quota, "unknown"}
  PROVE  SetupInv' /\ SetupSteps
<1>1. /\ polls' \subseteq PollType /\ queue' \in Choice \X Choice
      /\ PollsInv'
      /\ queue' # queue => queue' = NoPair
      BY RerunKeeps DEF SetupInv, ScreenOK, Arrive
<1>2. ScreenOK' /\ OfferInv'
      BY <1>1 DEF SetupInv, ScreenOK, OfferInv, Arrive, Quotas
<1>3. FlagsInv'
      BY DEF SetupInv, SheetInv, FlagsInv, Arrive
<1>4. SheetInv'
      BY <1>3 DEF SetupInv, SheetInv, Arrive
<1>5. SetupSteps
      BY <1>1 DEF SetupSteps, Counts, Searches
<1> QED BY <1>1, <1>2, <1>4, <1>5 DEF SetupInv

\* A step of the sheet or of the account, which leaves the screen as it is.
LEMMA SheetKeeps ==
  ASSUME SetupInv, UNCHANGED <<form, page, quota, queue, polls, started>>, SheetInv'
  PROVE  SetupInv' /\ SetupSteps
<1>1. ScreenOK' /\ OfferInv' /\ PollsInv' /\ queue' = queue
      BY ScreenRests DEF SetupInv
<1>2. SetupSteps
      BY <1>1 DEF SetupSteps, Counts, Searches
<1> QED BY <1>1, <1>2 DEF SetupInv

LEMMA PaywallKeeps ==
  ASSUME SetupInv, NEW source \in Sources, ShowPaywall(source)
  PROVE  SetupInv' /\ SetupSteps
<1>1. FlagsInv'
      BY DEF SetupInv, SheetInv, FlagsInv, ShowPaywall
<1>2. SheetInv'
      BY <1>1 DEF SetupInv, SheetInv, ShowPaywall
<1> QED BY <1>2, SheetKeeps DEF ShowPaywall

LEMMA SetupStart == SetupInit => SetupInv
<1> SUFFICES ASSUME SetupInit PROVE SetupInv
    OBVIOUS
<1>1. form \in Form /\ form.bot = FALSE /\ form.scenario = "none"
      BY DEF SetupInit, Form, Names, Choice, Scenarios
<1>2. ScreenOK
      BY <1>1 DEF SetupInit, ScreenOK, Quotas, NoPair, Choice
<1>3. OfferInv /\ PollsInv
      BY <1>1 DEF SetupInit, OfferInv, PollsInv
<1>4. FlagsInv
      BY DEF SetupInit, FlagsInv
<1>5. SheetInv
  <2>1. url \in [config : BOOLEAN, behind : BOOLEAN]
    <3>1. PICK deep \in BOOLEAN : url = [config |-> deep, behind |-> FALSE]
          BY DEF SetupInit
    <3> QED BY <3>1
  <2>2. account \in [suggestion : Names, tried : BOOLEAN, asked : BOOLEAN]
        BY <1>4 DEF SetupInit, FlagsInv, Names
  <2>3. paywall \in [source : Sources \cup {"closed"}, loading : BOOLEAN, error : BOOLEAN,
                     login : BOOLEAN]
        BY DEF SetupInit
  <2>4. pays \in 0..MaxPays /\ started \in 0..MaxStarts
    <3>1. pays = 0 /\ started = 0
          BY DEF SetupInit
    <3> QED BY <3>1, SetupConstants
  <2> QED BY <1>4, <2>1, <2>2, <2>3, <2>4 DEF SheetInv
<1> QED BY <1>2, <1>3, <1>5 DEF SetupInv

\* The moves of the visitor that store a form.
LEMMA FormMovesKeep ==
  ASSUME SetupInv,
         \/ \E n \in Names : TypeName(n)
         \/ \E l \in Langs : HandleSpeaksChange(l) \/ HandleWantsChange(l)
         \/ Swap \/ AcceptAge
  PROVE  SetupInv' /\ SetupSteps
<1>0. form \in Form /\ (~form.bot => form.scenario = "none")
      BY DEF SetupInv, ScreenOK, OfferInv
<1>1. ASSUME NEW n \in Names, TypeName(n) PROVE SetupInv' /\ SetupSteps
  <2>1. /\ [form EXCEPT !.name = n] \in Form
        /\ [form EXCEPT !.name = n].bot = form.bot
        /\ [form EXCEPT !.name = n].scenario = form.scenario
        BY <1>0 DEF Form
  <2> QED BY <1>0, <1>1, <2>1, SetFormKeeps DEF TypeName
<1>2. ASSUME NEW s \in Langs, HandleSpeaksChange(s) PROVE SetupInv' /\ SetupSteps
  <2> DEFINE f == [form EXCEPT !.speaks = s,
                               !.wants = IF IsPairAllowed(s, form.wants) THEN @ ELSE NoLang]
  <2>1. f \in Form /\ f.bot = form.bot /\ f.scenario = form.scenario
        BY <1>0 DEF Form, Choice
  <2>2. SetForm(f)
        BY <1>2 DEF HandleSpeaksChange
  <2> QED BY <1>0, <2>1, <2>2, SetFormKeeps
<1>3. ASSUME NEW w \in Langs, HandleWantsChange(w) PROVE SetupInv' /\ SetupSteps
  <2> DEFINE f == [form EXCEPT !.wants = w]
  <2>1. f \in Form /\ f.bot = form.bot /\ f.scenario = form.scenario
        BY <1>0 DEF Form, Choice
  <2> QED BY <1>0, <1>3, <2>1, SetFormKeeps DEF HandleWantsChange
<1>4. ASSUME Swap PROVE SetupInv' /\ SetupSteps
  <2> DEFINE f == [form EXCEPT !.speaks = form.wants, !.wants = form.speaks]
  <2>1. f \in Form /\ f.bot = form.bot /\ f.scenario = form.scenario
        BY <1>0 DEF Form
  <2> QED BY <1>0, <1>4, <2>1, SetFormKeeps DEF Swap
<1>5. ASSUME AcceptAge PROVE SetupInv' /\ SetupSteps
  <2> DEFINE f == [form EXCEPT !.age = ~@]
  <2>1. f \in Form /\ f.bot = form.bot /\ f.scenario = form.scenario
        BY <1>0 DEF Form
  <2> QED BY <1>0, <1>5, <2>1, SetFormKeeps DEF AcceptAge
<1> QED BY <1>1, <1>2, <1>3, <1>4, <1>5

\* The AI teacher and its scenarios, or the sheet that sells them.
LEMMA OfferMovesKeep ==
  ASSUME SetupInv, ToggleBot \/ \E s \in Scenarios : PickScenario(s)
  PROVE  SetupInv' /\ SetupSteps
<1>0. form \in Form /\ (~form.bot => form.scenario = "none")
      BY DEF SetupInv, ScreenOK, OfferInv
<1>1. CASE ToggleBot
  <2> DEFINE f == [form EXCEPT !.bot = ~@, !.scenario = IF form.bot THEN "none" ELSE @]
  <2>1. f \in Form
        BY <1>0 DEF Form, Scenarios
  <2>2. f.scenario = "none"
        BY <1>0 DEF Form
  <2>3. CASE BotExhausted
        BY <1>1, <2>3, PaywallKeeps DEF ToggleBot, Sources
  <2>4. CASE ~BotExhausted
    <3>1. SetForm(f)
          BY <1>1, <2>4 DEF ToggleBot
    <3> HIDE DEF f
    <3> QED BY <2>1, <2>2, <3>1, SetFormKeeps
  <2> QED BY <2>3, <2>4
<1>2. ASSUME NEW s \in Scenarios, PickScenario(s) PROVE SetupInv' /\ SetupSteps
  <2> DEFINE f == [form EXCEPT !.scenario = s]
  <2>1. f \in Form /\ f.bot
        BY <1>0, <1>2 DEF PickScenario, Form
  <2>2. CASE s = "locked" /\ ~IsPremium
        BY <1>2, <2>2, PaywallKeeps DEF PickScenario, Sources
  <2>3. CASE ~(s = "locked" /\ ~IsPremium)
        BY <1>2, <2>1, <2>3, SetFormKeeps DEF PickScenario
  <2> QED BY <2>2, <2>3
<1> QED BY <1>1, <1>2

\* The answers of the queue: only a request whose effect lives shows its count.
LEMMA QueueKeeps ==
  ASSUME SetupInv, Poll \/ \E q \in polls, ok \in BOOLEAN : QueueAnswers(q, ok)
  PROVE  SetupInv' /\ SetupSteps
<1>0. ScreenOK /\ OfferInv /\ PollsInv /\ SheetInv
      BY DEF SetupInv
<1>1. CASE Poll
  <2> DEFINE new == [pair |-> <<form.speaks, form.wants>>, alive |-> TRUE]
  <2>1. polls' = polls \cup {new} /\ UNCHANGED <<form, page, quota, queue>> /\ UNCHANGED Rest
        BY <1>1 DEF Poll, Rest
  <2>2. new \in PollType /\ ~form.bot /\ new.pair = <<form.speaks, form.wants>>
        BY <1>0, <1>1, PairTypes DEF Poll, PollType, ScreenOK
  <2> HIDE DEF new
  <2>3. ScreenOK' /\ OfferInv' /\ PollsInv'
        BY <1>0, <2>1, <2>2 DEF ScreenOK, OfferInv, PollsInv
  <2>4. SetupSteps
        BY <2>1 DEF SetupSteps, Counts, Searches, Rest
  <2> QED BY <1>0, <2>1, <2>3, <2>4, SheetRests DEF SetupInv
<1>2. ASSUME NEW q \in polls, NEW ok \in BOOLEAN, QueueAnswers(q, ok)
      PROVE  SetupInv' /\ SetupSteps
  <2>1. /\ polls' = polls \ {q} /\ UNCHANGED <<form, page, quota>> /\ UNCHANGED Rest
        /\ queue' = IF ~q.alive THEN queue ELSE IF ok THEN q.pair ELSE NoPair
        BY <1>2 DEF QueueAnswers, Rest
  <2>2. q \in PollType
        BY <1>0 DEF ScreenOK
  <2>3. queue' \in Choice \X Choice
        BY <1>0, <2>1, <2>2 DEF ScreenOK, PollType, NoPair, Choice
  <2>4. queue' # queue /\ queue' # NoPair
          => q.alive /\ queue' = q.pair
        BY <2>1
  <2>5. ScreenOK' /\ OfferInv' /\ PollsInv'
        BY <1>0, <2>1, <2>3 DEF ScreenOK, OfferInv, PollsInv
  <2>6. Counts
        BY <1>0, <2>1, <2>4 DEF PollsInv, Counts
  <2>7. Searches
        BY <2>1 DEF Searches, Rest
  <2> QED BY <1>0, <2>1, <2>5, <2>6, <2>7, SheetRests DEF SetupInv, SetupSteps
<1> QED BY <1>1, <1>2

LEMMA QuotaKeeps ==
  ASSUME SetupInv, NEW q \in Quotas, QuotaAnswers(q)
  PROVE  SetupInv' /\ SetupSteps
<1>1. /\ form' = Unchecked(form, q) /\ Rerun(Unchecked(form, q), page)
      /\ quota' = q /\ page' = page /\ UNCHANGED started
      BY DEF QuotaAnswers
<1>2. form \in Form /\ (~form.bot => form.scenario = "none")
      BY DEF SetupInv, ScreenOK, OfferInv
<1>3. ScreenOK' /\ OfferInv' /\ PollsInv' /\ SetupSteps
      BY <1>1, <1>2, FormKeeps
<1>4. FlagsInv'
      BY DEF QuotaAnswers, SetupInv, SheetInv, FlagsInv
<1>5. SheetInv'
      BY <1>4 DEF QuotaAnswers, SetupInv, SheetInv
<1> QED BY <1>3, <1>5 DEF SetupInv

\* The search leaves: the teacher is checked within its quota, or has no scenario.
LEMMA StartKeeps == ASSUME SetupInv, Start PROVE SetupInv' /\ SetupSteps
<1>0. ScreenOK /\ OfferInv /\ PollsInv /\ SheetInv
      BY DEF SetupInv
<1> DEFINE f == [form EXCEPT !.name = EffectivePseudo]
<1>1. form' = f /\ Rerun(f, "away") /\ page' = "away" /\ quota' = quota
      BY DEF Start
<1>2. f \in Form /\ f.bot = form.bot /\ f.scenario = form.scenario
      BY <1>0 DEF ScreenOK, Form, EffectivePseudo, SheetInv
<1> HIDE DEF f
<1>3. /\ polls' \subseteq PollType /\ queue' \in Choice \X Choice
      /\ PollsInv'
      /\ queue' # queue => queue' = NoPair
      BY <1>0, <1>1, <1>2, RerunKeeps
<1>4. ScreenOK' /\ OfferInv'
      BY <1>0, <1>1, <1>2, <1>3 DEF ScreenOK, OfferInv
<1>5. FlagsInv'
      BY <1>0 DEF Start, SheetInv, FlagsInv
<1>6. SheetInv'
  <2>1. started' \in 0..MaxStarts
        BY <1>0, SetupConstants DEF Start, SheetInv
  <2>2. UNCHANGED <<url, account, paywall, pays>>
        BY DEF Start
  <2> QED BY <1>0, <1>5, <2>1, <2>2 DEF SheetInv
<1>7. SetupSteps
      BY <1>0, <1>3 DEF SetupSteps, Counts, Searches, OfferInv
<1> QED BY <1>3, <1>4, <1>6, <1>7 DEF SetupInv

LEMMA MovesKeep ==
  ASSUME SetupInv, GoConfig \/ GoBack \/ Return
  PROVE  SetupInv' /\ SetupSteps
<1>0. /\ account \in [suggestion : Names, tried : BOOLEAN, asked : BOOLEAN]
      /\ user \in BOOLEAN
      BY DEF SetupInv, SheetInv, FlagsInv
<1>1. CASE GoConfig
      BY <1>0, <1>1, ArriveKeeps DEF GoConfig
<1>2. CASE GoBack
      BY <1>0, <1>2, ArriveKeeps DEF GoBack
<1>3. CASE Return
  <2>1. account' \in [suggestion : Names, tried : BOOLEAN, asked : BOOLEAN]
        BY <1>0, <1>3 DEF Return, Names
  <2> QED BY <1>3, <2>1, ArriveKeeps DEF Return
<1> QED BY <1>1, <1>2, <1>3

\* The subscription sheet and the account.
LEMMA SheetMovesKeep ==
  ASSUME SetupInv,
         \/ SwipeLimit \/ Hide \/ LogIn \/ Upgrade \/ CheckoutFails
         \/ \E n \in Names : AccountAnswers(n)
  PROVE  SetupInv' /\ SetupSteps
<1>0. SheetInv /\ FlagsInv
      BY DEF SetupInv, SheetInv
<1>1. CASE SwipeLimit
      BY <1>1, PaywallKeeps DEF SwipeLimit, Sources
<1>2. CASE Hide
  <2>1. FlagsInv'
        BY <1>0, <1>2 DEF Hide, FlagsInv
  <2>2. SheetInv'
        BY <1>0, <1>2, <2>1 DEF Hide, SheetInv
  <2> QED BY <1>2, <2>2, SheetKeeps DEF Hide
<1>3. CASE LogIn
  <2>1. FlagsInv'
        BY <1>0, <1>3 DEF LogIn, FlagsInv
  <2>2. paywall' \in [source : Sources \cup {"closed"}, loading : BOOLEAN, error : BOOLEAN,
                      login : BOOLEAN]
        BY <1>0, <1>3 DEF LogIn, SheetInv
  <2>3. account' \in [suggestion : Names, tried : BOOLEAN, asked : BOOLEAN]
        BY <1>0, <1>3 DEF LogIn, SheetInv
  <2>4. SheetInv'
        BY <1>0, <1>3, <2>1, <2>2, <2>3 DEF LogIn, SheetInv
  <2> QED BY <1>3, <2>4, SheetKeeps DEF LogIn
<1>4. CASE Upgrade
  <2>1. FlagsInv'
        BY <1>0, <1>4 DEF Upgrade, FlagsInv
  <2>2. SheetInv'
    <3>1. pays' \in 0..MaxPays
      <4>1. pays' = pays + 1 /\ pays \in 0..MaxPays /\ pays < MaxPays
            BY <1>0, <1>4 DEF Upgrade, SheetInv
      <4> QED BY <4>1, SetupConstants
    <3>2. paywall' \in [source : Sources \cup {"closed"}, loading : BOOLEAN, error : BOOLEAN,
                        login : BOOLEAN]
          BY <1>0, <1>4 DEF Upgrade, SheetInv
    <3>3. UNCHANGED <<url, account, started>>
          BY <1>4 DEF Upgrade
    <3> QED BY <1>0, <2>1, <3>1, <3>2, <3>3 DEF SheetInv
  <2> QED BY <1>4, <2>2, SheetKeeps DEF Upgrade
<1>5. CASE CheckoutFails
  <2>1. FlagsInv'
        BY <1>0, <1>5 DEF CheckoutFails, FlagsInv
  <2>2. SheetInv'
    <3>1. pays' \in 0..MaxPays
      <4>1. pays' = pays - 1 /\ pays \in 0..MaxPays /\ pays > 0
            BY <1>0, <1>5 DEF CheckoutFails, SheetInv
      <4> QED BY <4>1, SetupConstants
    <3>2. paywall' \in [source : Sources \cup {"closed"}, loading : BOOLEAN, error : BOOLEAN,
                        login : BOOLEAN]
          BY <1>0, <1>5 DEF CheckoutFails, SheetInv
    <3>3. UNCHANGED <<url, account, started>>
          BY <1>5 DEF CheckoutFails
    <3> QED BY <1>0, <2>1, <3>1, <3>2, <3>3 DEF SheetInv
  <2> QED BY <1>5, <2>2, SheetKeeps DEF CheckoutFails
<1>6. ASSUME NEW n \in Names, AccountAnswers(n) PROVE SetupInv' /\ SetupSteps
  <2>1. FlagsInv'
        BY <1>0, <1>6 DEF AccountAnswers, FlagsInv
  <2>2. SheetInv'
        BY <1>0, <1>6, <2>1 DEF AccountAnswers, SheetInv
  <2> QED BY <1>6, <2>2, SheetKeeps DEF AccountAnswers
<1> QED BY <1>1, <1>2, <1>3, <1>4, <1>5, <1>6

\* To the checkout, and back to a page that loads anew without its teacher.
LEMMA CheckoutKeeps ==
  ASSUME SetupInv, CheckoutOpens \/ BackFromStripe
  PROVE  SetupInv' /\ SetupSteps
<1>0. ScreenOK /\ OfferInv /\ PollsInv /\ SheetInv /\ FlagsInv
      BY DEF SetupInv, SheetInv
<1>1. CASE CheckoutOpens
  <2>1. FlagsInv'
        BY <1>0, <1>1 DEF CheckoutOpens, FlagsInv
  <2>2. SheetInv'
        BY <1>0, <1>1, <2>1, SetupConstants DEF CheckoutOpens, SheetInv
  <2>3. ScreenOK' /\ OfferInv' /\ PollsInv'
        BY <1>0, <1>1 DEF CheckoutOpens, ScreenOK, OfferInv, PollsInv, NoPair, Choice
  <2>4. SetupSteps
        BY <1>1 DEF CheckoutOpens, SetupSteps, Counts, Searches
  <2> QED BY <2>2, <2>3, <2>4 DEF SetupInv
<1>2. CASE BackFromStripe
  <2>1. FlagsInv'
        BY <1>0, <1>2 DEF BackFromStripe, FlagsInv
  <2>2. SheetInv'
        BY <1>0, <1>2, <2>1 DEF BackFromStripe, SheetInv, Names
  <2>3. /\ form' \in Form /\ form'.speaks = form.speaks /\ form'.wants = form.wants
        /\ form'.bot = FALSE /\ form'.scenario = "none"
        BY <1>2 DEF BackFromStripe, Stored, Form, Scenarios
  <2>4. /\ page' = "pseudo" /\ quota' = "unknown"
        /\ UNCHANGED <<queue, polls, started>>
        BY <1>2 DEF BackFromStripe
  <2>5. ScreenOK' /\ OfferInv' /\ PollsInv'
        BY <1>0, <2>3, <2>4 DEF ScreenOK, OfferInv, PollsInv, Quotas
  <2>6. SetupSteps
        BY <2>4 DEF SetupSteps, Counts, Searches
  <2> QED BY <2>2, <2>5, <2>6 DEF SetupInv
<1> QED BY <1>1, <1>2

LEMMA SetupKeep == SetupInv /\ [SetupNext]_setupVars => SetupInv' /\ SetupSteps
<1> SUFFICES ASSUME SetupInv, [SetupNext]_setupVars PROVE SetupInv' /\ SetupSteps
    OBVIOUS
<1>1. CASE SetupNext
      BY <1>1, FormMovesKeep, OfferMovesKeep, QueueKeeps, QuotaKeeps, StartKeeps, MovesKeep,
         SheetMovesKeep, CheckoutKeeps DEF SetupNext
<1>2. CASE UNCHANGED setupVars
  <2>1. SheetInv'
        BY <1>2, SheetRests DEF setupVars, SetupInv, Rest
  <2> QED BY <1>2, <2>1, SheetKeeps DEF setupVars
<1> QED BY <1>1, <1>2

\* Every variable keeps its type, and one request for the queue at most is listened to.
THEOREM SetupTypes == SetupSpec => []SetupTypeOK
BY SetupStart, SetupKeep, SetupInvGives, PTL DEF SetupSpec

\* SetupView.tsx:87-120: a count that appears is the one of the pair on the screen, for
\* any languages and any number of requests under way.
THEOREM CountsThisPairHolds == SetupSpec => CountsThisPair
<1>1. SetupInv /\ [SetupNext]_setupVars => [Counts]_setupVars
      BY SetupKeep DEF SetupSteps
<1>2. SetupInv /\ [SetupNext]_setupVars => SetupInv'
      BY SetupKeep
<1> QED BY SetupStart, <1>1, <1>2, PTL DEF SetupSpec, CountsThisPair

\* SetupView.tsx:146-151: no search leaves for the AI teacher with a quota known to be
\* spent, nor for a human with a scenario.
THEOREM TeacherWithinQuotaHolds == SetupSpec => TeacherWithinQuota
<1>1. SetupInv /\ [SetupNext]_setupVars => [Searches]_setupVars
      BY SetupKeep DEF SetupSteps
<1>2. SetupInv /\ [SetupNext]_setupVars => SetupInv'
      BY SetupKeep
<1> QED BY SetupStart, <1>1, <1>2, PTL DEF SetupSpec, TeacherWithinQuota

-----------------------------------------------------------------------------
(* A lesson *)

Attempts == [phase : Phases, idx : Nat, mistakes : Nat, failed : BOOLEAN]
Exercising == [sel : {"none", "right", "wrong"}, checked : BOOLEAN, left : 0..2, right : 0..2,
               matched : SUBSET Pairs, timers : 0..MaxMiss, miss : 0..MaxMiss,
               points : 0..MinPoints]
Learners == [hearts : 0..MaxHearts, premium : BOOLEAN, done : BOOLEAN, review : BOOLEAN,
             full : Nat, daily : Nat]

\* Nothing was given for what is not done yet, and nothing twice.
Paid(r) == /\ r.full <= 1 /\ (~r.done => r.full = 0)
           /\ r.daily <= 1 /\ (r.review => r.daily = 0)

LessonInv == LessonTypeOK /\ ex.timers <= ex.miss /\ Paid(learner)

LEMMA LessonStart == LessonInit => LessonInv
<1> SUFFICES ASSUME LessonInit PROVE LessonInv
    OBVIOUS
<1>0. MaxHearts \in Nat /\ MinPoints \in Nat /\ MaxMiss \in Nat /\ MaxFaults \in Nat
      /\ MaxPlays \in Nat /\ MaxReads \in Nat
      BY LessonAssumption DEF LessonAssumption
<1>1. learner \in Learners /\ Paid(learner)
  <2>1. PICK premium \in BOOLEAN :
          learner = [hearts |-> MaxHearts, premium |-> premium, done |-> FALSE,
                     review |-> TRUE, full |-> 0, daily |-> 0]
        BY DEF LessonInit
  <2>2. learner \in Learners
        BY <1>0, <2>1 DEF Learners
  <2>3. learner.full = 0 /\ learner.daily = 0
        BY <2>1
  <2> QED BY <2>2, <2>3 DEF Paid
<1>2. ex \in Exercising /\ ex.timers <= ex.miss
      BY <1>0 DEF LessonInit, Exercising, Blank
<1>3. at \in Attempts /\ at.phase = "path"
      BY DEF LessonInit, Attempts, Phases
<1>4. posts \in Seq(Post)
      BY DEF LessonInit
<1>5. LessonTypeOK
      BY <1>0, <1>1, <1>2, <1>3, <1>4
      DEF LessonInit, LessonTypeOK, Attempts, Exercising, Learners
<1> QED BY <1>1, <1>2, <1>3, <1>5 DEF LessonInv

LEMMA LessonParts ==
    ASSUME LessonInv
    PROVE  /\ lesson \in Playlist /\ lesson[1] \in LessonKinds
           /\ at \in Attempts /\ ex \in Exercising /\ learner \in Learners
           /\ posts \in Seq(Post) /\ heartsShown \in 0..MaxHearts
           /\ reads \in Seq(Read) /\ Len(reads) <= MaxReads
           /\ word \in {"idle", "saving", "saved", "error"}
           /\ faults \in 0..MaxFaults /\ plays \in 0..MaxPlays
           /\ MaxHearts \in Nat /\ MinPoints \in Nat /\ MaxMiss \in Nat
           /\ MaxFaults \in Nat /\ MaxPlays \in Nat /\ MaxReads \in Nat
BY LessonAssumption
DEF LessonAssumption, LessonInv, LessonTypeOK, Attempts, Exercising, Learners

\* What a step has to leave for the next one.
LEMMA LessonPartsKeep ==
    ASSUME lesson' \in Playlist, at' \in Attempts, ex' \in Exercising, learner' \in Learners,
           posts' \in Seq(Post), heartsShown' \in 0..MaxHearts,
           reads' \in Seq(Read), Len(reads') <= MaxReads,
           word' \in {"idle", "saving", "saved", "error"},
           faults' \in 0..MaxFaults, plays' \in 0..MaxPlays,
           ex'.timers <= ex'.miss, Paid(learner')
    PROVE  LessonInv'
BY DEF LessonInv, LessonTypeOK, Attempts, Exercising, Learners

-----------------------------------------------------------------------------
\* An exercise that goes on disturbs nothing around it.
LEMMA TurnKeeps ==
    ASSUME LessonInv, NEW e \in Exercising, e.timers <= e.miss, Turn(e)
    PROVE  LessonInv'
<1>1. ex' = e /\ UNCHANGED <<lesson, at, heartsShown, word, posts, learner, reads, faults, plays>>
      BY DEF Turn
<1>2. Paid(learner')
      BY <1>1 DEF LessonInv
<1> QED BY <1>1, <1>2, LessonParts, LessonPartsKeep

\* Options and tiles.
LEMMA OptionsKeep ==
    ASSUME LessonInv,
           \/ Check \/ Trace \/ Clear
           \/ \E s \in {"none", "right", "wrong"} : Select(s) \/ (s # "none" /\ PickOption(s))
    PROVE  LessonInv'
<1>0. ex \in Exercising /\ ex.timers <= ex.miss /\ MinPoints \in Nat /\ MaxMiss \in Nat
      BY LessonParts DEF LessonInv
<1>1. CASE Check
  <2>1. [ex EXCEPT !.checked = TRUE] \in Exercising
        BY <1>0 DEF Exercising
  <2> QED BY <1>0, <1>1, <2>1, TurnKeeps DEF Check, Exercising
<1>2. CASE Trace
  <2>1. ex.points + 1 \in 0..MinPoints
        BY <1>0, <1>2 DEF Trace, Exercising
  <2>2. [ex EXCEPT !.points = @ + 1] \in Exercising
        BY <1>0, <2>1 DEF Exercising
  <2> QED BY <1>0, <1>2, <2>2, TurnKeeps DEF Trace, Exercising
<1>3. CASE Clear
  <2>1. [ex EXCEPT !.points = 0] \in Exercising
        BY <1>0 DEF Exercising
  <2> QED BY <1>0, <1>3, <2>1, TurnKeeps DEF Clear, Exercising
<1>4. ASSUME NEW s \in {"none", "right", "wrong"}, Select(s) \/ PickOption(s)
      PROVE  LessonInv'
  <2>1. [ex EXCEPT !.sel = s] \in Exercising /\ [ex EXCEPT !.sel = s, !.checked = TRUE] \in Exercising
        BY <1>0 DEF Exercising
  <2> QED BY <1>0, <1>4, <2>1, TurnKeeps DEF Select, PickOption, Exercising
<1> QED BY <1>1, <1>2, <1>3, <1>4

\* Pairs: a wrong one counts a mistake with each timer it starts.
LEMMA TapKeeps ==
    ASSUME LessonInv, NEW l \in 0..2, NEW r \in 0..2, Tap(l, r),
           ex.miss < MaxMiss \/ l = 0 \/ r = 0 \/ l = r
    PROVE  LessonInv'
<1>0. ex \in Exercising /\ ex.timers <= ex.miss /\ MaxMiss \in Nat
      BY LessonParts DEF LessonInv
<1> DEFINE e == [ex EXCEPT !.left = l, !.right = r]
<1>1. /\ e \in Exercising /\ e.timers = ex.timers /\ e.miss = ex.miss
      /\ e.matched = ex.matched
      BY <1>0 DEF Exercising
<1>2. Turn(IF l = 0 \/ r = 0 THEN e
           ELSE IF l = r THEN [e EXCEPT !.matched = @ \cup {l}, !.left = 0, !.right = 0]
           ELSE [e EXCEPT !.miss = @ + 1, !.timers = @ + 1])
      BY DEF Tap
<1> HIDE DEF e
<1>3. CASE l = 0 \/ r = 0
      BY <1>0, <1>1, <1>2, <1>3, TurnKeeps
<1>4. CASE l # 0 /\ r # 0 /\ l = r
  <2>1. e.matched \cup {l} \in SUBSET Pairs
        BY <1>1, <1>4 DEF Exercising, Pairs
  <2>0. 0 \in 0..2
        OBVIOUS
  <2>2. [e EXCEPT !.matched = @ \cup {l}, !.left = 0, !.right = 0] \in Exercising
        BY <1>1, <2>0, <2>1, Zenon DEF Exercising
  <2> QED BY <1>0, <1>1, <1>2, <1>4, <2>2, TurnKeeps DEF Exercising
<1>5. CASE l # 0 /\ r # 0 /\ l # r
  <2>1. e.miss + 1 \in 0..MaxMiss /\ e.timers + 1 \in 0..MaxMiss /\ e.timers + 1 <= e.miss + 1
        BY <1>0, <1>1, <1>5 DEF Exercising
  <2>2. [e EXCEPT !.miss = @ + 1, !.timers = @ + 1] \in Exercising
        BY <1>1, <2>1 DEF Exercising
  <2>3. [e EXCEPT !.miss = @ + 1, !.timers = @ + 1].timers
        <= [e EXCEPT !.miss = @ + 1, !.timers = @ + 1].miss
        BY <1>1, <2>1 DEF Exercising
  <2> QED BY <1>2, <1>5, <2>2, <2>3, TurnKeeps
<1> QED BY <1>3, <1>4, <1>5

LEMMA PairsKeep ==
    ASSUME LessonInv, WrongOver \/ \E p \in Pairs : TapLeft(p) \/ TapRight(p)
    PROVE  LessonInv'
<1>0. ex \in Exercising /\ ex.timers <= ex.miss /\ MaxMiss \in Nat
      BY LessonParts DEF LessonInv
<1>1. ASSUME NEW p \in Pairs, TapLeft(p) \/ TapRight(p) PROVE LessonInv'
  <2>1. p \in 0..2 /\ ex.left \in 0..2 /\ ex.right \in 0..2
        BY <1>0 DEF Exercising, Pairs
  <2> QED BY <1>1, <2>1, TapKeeps DEF TapLeft, TapRight
<1>2. CASE WrongOver
  <2>1. ex.timers - 1 \in 0..MaxMiss /\ ex.timers - 1 <= ex.miss
        BY <1>0, <1>2 DEF WrongOver, Exercising
  <2>0. 0 \in 0..2
        OBVIOUS
  <2>2. [ex EXCEPT !.timers = @ - 1, !.left = 0, !.right = 0] \in Exercising
        BY <1>0, <2>0, <2>1, Zenon DEF Exercising
  <2>3. [ex EXCEPT !.timers = @ - 1, !.left = 0, !.right = 0].timers
        <= [ex EXCEPT !.timers = @ - 1, !.left = 0, !.right = 0].miss
        BY <1>0, <2>1 DEF Exercising
  <2> QED BY <1>2, <2>2, <2>3, TurnKeeps DEF WrongOver
<1> QED BY <1>1, <1>2

-----------------------------------------------------------------------------
\* The mistakes of one exercise, whatever it is, and the exercise that follows.
LEMMA OneExercise ==
    ASSUME LessonInv
    PROVE  /\ ExerciseMistakes \in Nat
           /\ Blank \in Exercising /\ Blank.timers <= Blank.miss
<1>1. ex.miss \in Nat
      BY LessonParts DEF Exercising
<1>2. ExerciseMistakes \in Nat
      BY <1>1 DEF ExerciseMistakes
<1>3. 0 \in 0..2 /\ 0 \in 0..MaxMiss /\ 0 \in 0..MinPoints /\ 0 <= 0
      BY LessonParts
<1>4. Blank \in Exercising
      BY <1>3, Zenon DEF Blank, Exercising
<1> QED BY <1>2, <1>3, <1>4 DEF Blank

\* A completion that leaves.
LEMMA FinishLeaves ==
    ASSUME LessonInv, NEW mistakes \in Nat, NEW failed \in BOOLEAN, Finish(mistakes, failed)
    PROVE  at' \in Attempts /\ posts' \in Seq(Post)
<1>0. at \in Attempts /\ posts \in Seq(Post) /\ lesson[1] \in LessonKinds
      BY LessonParts
<1>1. [kind |-> lesson[1], mistakes |-> mistakes, failed |-> failed] \in Post
      BY <1>0 DEF Post
<1>2. "submit" \in Phases
      BY DEF Phases
<1>3. at' \in Attempts
      BY <1>0, <1>2, Zenon DEF Finish, Attempts
<1> QED BY <1>0, <1>1, <1>3 DEF Finish

\* An exercise that ends: the next one comes up, or the completion leaves.
LEMMA ExerciseDoneKeeps == LessonInv /\ HandleExerciseDone => LessonInv'
<1> SUFFICES ASSUME LessonInv, HandleExerciseDone PROVE LessonInv'
    OBVIOUS
<1> DEFINE mistakes == at.mistakes + ExerciseMistakes
<1>0. /\ at \in Attempts /\ posts \in Seq(Post) /\ lesson[1] \in LessonKinds
      /\ learner \in Learners /\ heartsShown \in 0..MaxHearts /\ MaxHearts \in Nat
      BY LessonParts
<1>1. mistakes \in Nat
      BY <1>0, OneExercise DEF Attempts
<1>2. /\ UNCHANGED <<lesson, heartsShown, learner, reads, faults, plays>>
      /\ ex' = Blank /\ word' = "idle" /\ at.phase = "play"
      BY DEF HandleExerciseDone, Playing
<1>3. \/ \E failed \in BOOLEAN : Finish(mistakes, failed)
      \/ at' = [at EXCEPT !.idx = @ + 1, !.mistakes = mistakes] /\ UNCHANGED posts
      \/ /\ at' = [at EXCEPT !.mistakes = mistakes,
                             !.phase = CASE lesson[1] = "daily" -> "claim"
                                         [] lesson[1] = "practice" -> "result"
                                         [] OTHER -> "verdict"]
         /\ UNCHANGED posts
      BY Zenon DEF HandleExerciseDone
<1> HIDE DEF mistakes
<1>4. at' \in Attempts /\ posts' \in Seq(Post)
  <2>1. CASE \E failed \in BOOLEAN : Finish(mistakes, failed)
        BY <1>1, <2>1, FinishLeaves
  <2>2. CASE /\ at' = [at EXCEPT !.idx = @ + 1, !.mistakes = mistakes]
             /\ UNCHANGED posts
    <3>1. at.idx + 1 \in Nat
          BY <1>0 DEF Attempts
    <3>2. at' \in Attempts /\ at'.phase = "play"
          BY <1>0, <1>1, <1>2, <2>2, <3>1 DEF Attempts
    <3> QED BY <1>0, <2>2, <3>2
  <2>3. CASE /\ at' = [at EXCEPT !.mistakes = mistakes,
                                 !.phase = CASE lesson[1] = "daily" -> "claim"
                                             [] lesson[1] = "practice" -> "result"
                                             [] OTHER -> "verdict"]
             /\ UNCHANGED posts
    <3>1. at' \in Attempts /\ at'.phase \in {"claim", "result", "verdict"}
          BY <1>0, <1>1, <2>3 DEF Attempts, Phases
    <3> QED BY <1>0, <2>3, <3>1
  <2> QED BY <1>3, <2>1, <2>2, <2>3
<1>5. /\ lesson' \in Playlist /\ ex' \in Exercising /\ ex'.timers <= ex'.miss
      /\ learner' \in Learners /\ Paid(learner') /\ heartsShown' \in 0..MaxHearts
      /\ word' \in {"idle", "saving", "saved", "error"}
      /\ faults' \in 0..MaxFaults /\ plays' \in 0..MaxPlays
      BY <1>2, LessonParts, OneExercise DEF LessonInv
<1>6. reads' \in Seq(Read) /\ Len(reads') <= MaxReads
      BY <1>2, LessonParts
<1> QED BY <1>4, <1>5, <1>6, LessonPartsKeep

-----------------------------------------------------------------------------
\* What a step that moves the player leaves alone.
LEMMA PlayerMoves ==
    ASSUME LessonInv, lesson' \in Playlist, at' \in Attempts, ex' = ex \/ ex' = Blank,
           plays' \in 0..MaxPlays, word' \in {"idle", "saving", "saved", "error"},
           reads' \in Seq(Read), Len(reads') <= MaxReads,
           posts' \in Seq(Post), UNCHANGED <<learner, heartsShown, faults>>
    PROVE  LessonInv'
<1>1. ex' \in Exercising /\ ex'.timers <= ex'.miss
      BY LessonParts, OneExercise DEF LessonInv
<1>2. /\ learner' \in Learners /\ Paid(learner') /\ faults' \in 0..MaxFaults
      /\ heartsShown' \in 0..MaxHearts
      BY LessonParts DEF LessonInv
<1> QED BY <1>1, <1>2, LessonPartsKeep

\* Readings under way: one more, or one that is dropped.
LEMMA RefreshesKeep ==
    ASSUME LessonInv, Refreshes
    PROVE  reads' \in Seq(Read) /\ Len(reads') <= MaxReads
<1>1. reads \in Seq(Read) /\ Len(reads) <= MaxReads /\ MaxReads \in Nat /\ MaxHearts \in Nat
      BY LessonParts
<1>2. [hearts |-> 0, served |-> FALSE] \in Read
      BY <1>1 DEF Read
<1> QED BY <1>1, <1>2 DEF Refreshes

\* A lesson that opens, starts or is left.
LEMMA LessonOpens ==
    ASSUME LessonInv, StartScript \/ Leave \/ \E l \in Playlist : Open(l)
    PROVE  LessonInv'
<1>0. /\ at \in Attempts /\ learner \in Learners /\ posts \in Seq(Post)
      /\ plays \in 0..MaxPlays /\ MaxPlays \in Nat
      /\ reads \in Seq(Read) /\ Len(reads) <= MaxReads
      /\ lesson \in Playlist /\ word \in {"idle", "saving", "saved", "error"}
      BY LessonParts
<1>1. CASE StartScript
  <2>1. at' \in Attempts /\ at'.phase = "play"
        BY <1>0, <1>1 DEF StartScript, Attempts, Phases
  <2> QED BY <1>0, <1>1, <2>1, PlayerMoves DEF StartScript
<1>2. CASE Leave
  <2>1. at' \in Attempts /\ at'.phase = "path"
        BY <1>0, <1>2 DEF Leave, Attempts, Phases
  <2>2. reads' \in Seq(Read) /\ Len(reads') <= MaxReads
        BY <1>0, <1>2, RefreshesKeep DEF Leave
  <2> QED BY <1>0, <1>2, <2>1, <2>2, PlayerMoves DEF Leave
<1>3. ASSUME NEW l \in Playlist, Open(l) PROVE LessonInv'
  <2>1. at' \in Attempts /\ at'.phase \in {"intro", "play"}
        BY <1>3 DEF Open, Attempts, Phases
  <2>2. plays' \in 0..MaxPlays
        BY <1>0, <1>3 DEF Open
  <2> QED BY <1>0, <1>3, <2>1, <2>2, PlayerMoves DEF Open
<1> QED BY <1>1, <1>2, <1>3

\* A completion sent by hand: the daily one, or one that is tried again.
LEMMA SentKeep == LessonInv /\ (Claim \/ Retry) => LessonInv'
<1> SUFFICES ASSUME LessonInv, Claim \/ Retry PROVE LessonInv'
    OBVIOUS
<1>0. /\ at \in Attempts /\ learner \in Learners /\ plays \in 0..MaxPlays
      /\ reads \in Seq(Read) /\ Len(reads) <= MaxReads
      /\ lesson \in Playlist /\ word \in {"idle", "saving", "saved", "error"}
      BY LessonParts
<1>1. at.mistakes \in Nat /\ at.failed \in BOOLEAN
      BY <1>0 DEF Attempts
<1>2. UNCHANGED <<lesson, ex, heartsShown, word, learner, reads, faults, plays>>
      BY DEF Claim, Retry
<1>3. \E failed \in BOOLEAN : Finish(at.mistakes, failed)
      BY <1>1 DEF Claim, Retry
<1>4. at' \in Attempts /\ posts' \in Seq(Post)
      BY <1>1, <1>3, FinishLeaves
<1> QED BY <1>0, <1>2, <1>4, PlayerMoves

\* The button of a word, a heart that returns, and the readings of the hearts.
LEMMA AsidesKeep ==
    ASSUME LessonInv, \/ SaveWord \/ HeartReturns \/ RefreshState
                      \/ \E b \in BOOLEAN : WordSaved(b)
                      \/ \E k \in DOMAIN reads : ReadServed(k) \/ ReadAnswered(k)
    PROVE  LessonInv'
<1>0. /\ at \in Attempts /\ learner \in Learners /\ posts \in Seq(Post)
      /\ MaxHearts \in Nat /\ reads \in Seq(Read) /\ Len(reads) <= MaxReads
      BY LessonParts
<1>1. CASE SaveWord \/ \E b \in BOOLEAN : WordSaved(b)
  <2>1. /\ word' \in {"idle", "saving", "saved", "error"}
        /\ UNCHANGED <<lesson, at, ex, heartsShown, posts, learner, reads, faults, plays>>
        BY <1>1 DEF SaveWord, WordSaved
  <2>2. Paid(learner')
        BY <2>1 DEF LessonInv
  <2> QED BY <2>1, <2>2, LessonParts, LessonPartsKeep DEF LessonInv
<1>2. CASE HeartReturns
  <2>1. /\ learner' = [learner EXCEPT !.hearts = @ + 1] /\ learner.hearts < MaxHearts
        /\ UNCHANGED <<lesson, at, ex, heartsShown, word, posts, reads, faults, plays>>
        BY <1>2 DEF HeartReturns
  <2>2. learner.hearts + 1 \in 0..MaxHearts
        BY <1>0, <2>1 DEF Learners
  <2>3. learner' \in Learners
        BY <1>0, <2>1, <2>2, Zenon DEF Learners
  <2>4. /\ learner'.full = learner.full /\ learner'.done = learner.done
        /\ learner'.daily = learner.daily /\ learner'.review = learner.review
        BY <1>0, <2>1 DEF Learners
  <2>5. Paid(learner')
        BY <2>1, <2>4 DEF Paid, LessonInv
  <2> QED BY <2>1, <2>3, <2>5, LessonParts, LessonPartsKeep DEF LessonInv
<1>3. ASSUME UNCHANGED <<lesson, at, ex, word, posts, learner, faults, plays>>,
             heartsShown' \in 0..MaxHearts, reads' \in Seq(Read), Len(reads') <= MaxReads
      PROVE  LessonInv'
  <2>1. Paid(learner')
        BY <1>3 DEF LessonInv
  <2> QED BY <1>3, <2>1, LessonParts, LessonPartsKeep DEF LessonInv
<1>4. CASE RefreshState
      BY <1>3, <1>4, RefreshesKeep, LessonParts DEF RefreshState
<1>5. ASSUME NEW k \in DOMAIN reads, ReadServed(k) PROVE LessonInv'
  <2>1. [hearts |-> learner.hearts, served |-> TRUE] \in Read
        BY <1>0 DEF Learners, Read
  <2>2. reads' \in Seq(Read) /\ Len(reads') = Len(reads)
        BY <1>0, <1>5, <2>1 DEF ReadServed
  <2> QED BY <1>0, <1>3, <1>5, <2>2, LessonParts DEF ReadServed
<1>6. ASSUME NEW k \in DOMAIN reads, ReadAnswered(k) PROVE LessonInv'
  <2>1. reads' = RemoveAt(reads, k) /\ k \in 1..Len(reads) /\ MaxReads \in Nat
        BY <1>0, <1>6, LessonParts DEF ReadAnswered
  <2>2. reads' \in Seq(Read) /\ Len(reads') = Len(reads) - 1
        BY <1>0, <2>1, RemoveAtKeeps
  <2>3. reads[k] \in Read /\ Len(reads') <= MaxReads
        BY <1>0, <2>1, <2>2
  <2>4. heartsShown' \in 0..MaxHearts
        BY <1>6, <2>3 DEF ReadAnswered, Read
  <2> QED BY <1>3, <1>6, <2>2, <2>3, <2>4 DEF ReadAnswered
<1> QED BY <1>1, <1>2, <1>4, <1>5, <1>6

-----------------------------------------------------------------------------
\* What the server makes of a completion, be it the first or one more.
LEMMA CompletionKeeps ==
    ASSUME LessonInv, NEW p \in Post
    PROVE  /\ Completion(p) \in Learners /\ Paid(Completion(p))
           /\ Completion(p).premium = learner.premium
<1>0. learner \in Learners /\ Paid(learner) /\ MaxHearts \in Nat
      BY LessonParts DEF LessonInv
<1>1. Less(learner.hearts, p.mistakes) \in 0..MaxHearts
      BY <1>0 DEF Less, Learners, Post
<1> DEFINE done == learner.done \/ ~p.failed \/ learner.premium
           nothing == (p.failed /\ ~learner.premium) \/ learner.done
           full == IF nothing THEN learner.full ELSE learner.full + 1
<1>2. full \in Nat /\ done \in BOOLEAN
      BY <1>0 DEF Learners
<1>3. full <= 1 /\ (~done => full = 0)
  <2>1. CASE learner.done
        BY <1>0, <2>1 DEF Paid
  <2>2. CASE ~learner.done
    <3>1. learner.full = 0
          BY <1>0, <2>2 DEF Paid
    <3> QED BY <2>2, <3>1
  <2> QED BY <2>1, <2>2
<1>4. CompleteLesson(p) = [learner EXCEPT !.hearts = Less(@, p.mistakes), !.done = done,
                                          !.full = full]
      BY <1>0, Zenon DEF CompleteLesson, Learners
<1> HIDE DEF done, nothing, full
<1>5. /\ CompleteLesson(p) \in Learners
      /\ CompleteLesson(p).full = full /\ CompleteLesson(p).done = done
      /\ CompleteLesson(p).daily = learner.daily /\ CompleteLesson(p).review = learner.review
      /\ CompleteLesson(p).premium = learner.premium
      BY <1>0, <1>1, <1>2, <1>4, Zenon DEF Learners
<1>6. Paid(CompleteLesson(p))
      BY <1>0, <1>3, <1>5 DEF Paid
<1>7. /\ CompleteDailyReview \in Learners /\ Paid(CompleteDailyReview)
      /\ CompleteDailyReview.premium = learner.premium
  <2>1. CASE learner.review
    <3>1. learner.daily = 0 /\ learner.daily + 1 \in Nat /\ learner.daily + 1 <= 1
          BY <1>0, <2>1 DEF Paid
    <3>2. CompleteDailyReview = [learner EXCEPT !.review = FALSE, !.daily = @ + 1]
          BY <2>1 DEF CompleteDailyReview
    <3>3. /\ CompleteDailyReview \in Learners
          /\ CompleteDailyReview.full = learner.full /\ CompleteDailyReview.done = learner.done
          /\ CompleteDailyReview.daily = learner.daily + 1
          /\ CompleteDailyReview.review = FALSE
          /\ CompleteDailyReview.premium = learner.premium
          BY <1>0, <3>1, <3>2, Zenon DEF Learners
    <3> QED BY <1>0, <3>1, <3>3 DEF Paid
  <2>2. CASE ~learner.review
        BY <1>0, <2>2 DEF CompleteDailyReview
  <2> QED BY <2>1, <2>2
<1> QED BY <1>5, <1>6, <1>7 DEF Completion

\* An answer, or the news that it will not come.
LEMMA AnswerKeeps ==
    ASSUME LessonInv, NEW i \in DOMAIN posts,
           CompletionAnswered(i) \/ \E b \in BOOLEAN : CompletionFails(i, b)
    PROVE  LessonInv'
<1>0. /\ at \in Attempts /\ learner \in Learners /\ posts \in Seq(Post)
      /\ faults \in 0..MaxFaults /\ MaxFaults \in Nat
      BY LessonParts
<1>1. posts[i] \in Post /\ i \in 1..Len(posts) /\ Len(posts) \in Nat
      BY <1>0
<1>2. /\ posts' = RemoveAt(posts, i)
      /\ UNCHANGED <<lesson, ex, heartsShown, word, plays>> /\ (Refreshes \/ UNCHANGED reads)
      /\ learner' = Completion(posts[i]) \/ learner' = learner
      BY DEF CompletionAnswered, CompletionFails
<1>3. faults' \in 0..MaxFaults
      BY <1>0 DEF CompletionAnswered, CompletionFails
<1>4. learner' \in Learners /\ Paid(learner') /\ learner'.premium = learner.premium
      BY <1>0, <1>1, <1>2, CompletionKeeps DEF LessonInv
<1>5. /\ posts' \in Seq(Post) /\ Len(posts') = Len(posts) - 1
      BY <1>0, <1>2, RemoveAtKeeps
<1>6. at' \in Attempts
  <2>1. CASE CompletionAnswered(i)
    <3>1. at' = [at EXCEPT !.phase = PhaseAfter(i, posts[i])]
          BY <2>1 DEF CompletionAnswered
    <3>2. PhaseAfter(i, posts[i]) \in Phases
          BY <1>0 DEF PhaseAfter, Phases, Attempts
    <3> QED BY <1>0, <3>1, <3>2, Zenon DEF Attempts
  <2>2. ASSUME NEW b \in BOOLEAN, CompletionFails(i, b) PROVE at' \in Attempts
    <3>1. at' = at \/ \E ph \in {"path", "error"} : at' = [at EXCEPT !.phase = ph]
          BY <2>2, Zenon DEF CompletionFails
    <3> QED BY <1>0, <3>1 DEF Attempts, Phases
  <2> QED BY <2>1, <2>2
<1>7. reads' \in Seq(Read) /\ Len(reads') <= MaxReads
      BY <1>2, RefreshesKeep, LessonParts
<1> QED BY <1>2, <1>3, <1>4, <1>5, <1>6, <1>7, LessonParts, LessonPartsKeep DEF LessonInv

LEMMA LessonKeep == LessonInv /\ [LessonNext]_lessonVars => LessonInv'
<1> SUFFICES ASSUME LessonInv, [LessonNext]_lessonVars PROVE LessonInv'
    OBVIOUS
<1>1. CASE LessonNext
      BY <1>1, OptionsKeep, PairsKeep, ExerciseDoneKeeps, LessonOpens, SentKeep, AsidesKeep,
         AnswerKeeps DEF LessonNext
<1>2. CASE UNCHANGED lessonVars
  <2>1. /\ UNCHANGED <<lesson, at, ex, heartsShown, word>>
        /\ UNCHANGED <<posts, learner, reads, faults, plays>>
        BY <1>2 DEF lessonVars
  <2>2. Paid(learner') /\ ex'.timers <= ex'.miss
        BY <2>1 DEF LessonInv
  <2> QED BY <2>1, <2>2, LessonParts, LessonPartsKeep
<1> QED BY <1>1, <1>2

\* Every variable of a lesson keeps its type.
THEOREM LessonTypes == LessonSpec => []LessonTypeOK
<1>1. LessonInv => LessonTypeOK
      BY DEF LessonInv
<1> QED BY <1>1, LessonStart, LessonKeep, PTL DEF LessonSpec

\* learn/store.go:735-753 and daily.go:25-45: the points of a lesson and those of the daily
\* one are given once, however many completions are sent, lost, tried again or answered
\* out of turn.
THEOREM PaidOnceHolds == LessonSpec => []PaidOnce
<1>1. LessonInv => PaidOnce
      BY DEF LessonInv, Paid, PaidOnce
<1> QED BY <1>1, LessonStart, LessonKeep, PTL DEF LessonSpec

-----------------------------------------------------------------------------
(* The courses *)

\* A lesson that may be taken, with d the lessons done of each course.
Opened(d, c, n) == /\ c \in Courses /\ n \in 1..Lessons
                   /\ n = 1 \/ n - 1 \in d[c]

\* What is on its way, the path on the screen and the lesson on the screen were true when
\* they were made; lessons are never undone, so that they still are.
CallOK(d, q) ==
    /\ q \in LearnCall
    /\ q.what \in {"open", "refresh", "enroll", "skip"} => q.lang \in Courses
    /\ q.what = "lesson" => Opened(d, q.lang, q.rank)

CallsOK(d, cs) == /\ IsFiniteSet(cs) /\ Cardinality(cs) <= MaxCalls
                  /\ \A q \in cs : CallOK(d, q)

TreeOK(d, t) == /\ t \in Tree
                /\ t # NoTree => t.lang \in Courses /\ t.done \subseteq d[t.lang]

ActiveOK(d, a) == /\ a \in [lang : Opt, rank : 1..Lessons]
                  /\ a # NoLesson => Opened(d, a.lang, a.rank)

Beginnings(d) == /\ d \in [Courses -> SUBSET (1..Lessons)]
               /\ \A c \in Courses : \E n \in 0..Lessons : d[c] = 1..n

Schools == [done : [Courses -> SUBSET (1..Lessons)], enrolled : [Courses -> BOOLEAN],
            heart : BOOLEAN]
HeartScreens == [screen : {"ask", "friends", "quota"}, asking : BOOLEAN,
                 gifts : 0..MaxAsks, giving : BOOLEAN]

CoursesOK == /\ school \in Schools /\ Beginnings(school.done)
             /\ CallsOK(school.done, calls) /\ TreeOK(school.done, tree)
             /\ ActiveOK(school.done, active)

\* A heart is given only of one that was asked for.
AsideOK == /\ lang \in Opt /\ daily \in Opt /\ over \subseteq Overlays /\ asks \in 0..MaxAsks
           /\ hearts \in HeartScreens /\ (hearts.giving => hearts.gifts > 0)

LearnFlagsOK == busy \in BOOLEAN /\ heartKnown \in BOOLEAN

LearnInv == CoursesOK /\ AsideOK /\ LearnFlagsOK

\* What was open stays so when more is done.
LEMMA MoreDone ==
    ASSUME NEW d, NEW e, \A c \in Courses : d[c] \subseteq e[c]
    PROVE  /\ \A cs : CallsOK(d, cs) => CallsOK(e, cs)
           /\ \A t : TreeOK(d, t) => TreeOK(e, t)
           /\ \A a : ActiveOK(d, a) => ActiveOK(e, a)
<1>1. \A c, n : Opened(d, c, n) => Opened(e, c, n)
      BY DEF Opened
<1>2. \A q : CallOK(d, q) => CallOK(e, q)
      BY <1>1 DEF CallOK
<1>3. \A cs : CallsOK(d, cs) => CallsOK(e, cs)
      BY <1>2 DEF CallsOK
<1>4. \A t : TreeOK(d, t) => TreeOK(e, t)
      BY DEF TreeOK
<1>5. \A a : ActiveOK(d, a) => ActiveOK(e, a)
      BY <1>1 DEF ActiveOK
<1> QED BY <1>3, <1>4, <1>5

\* A lesson that may be taken, or the first ones, leave no hole.
LEMMA NoHoleLeft ==
    ASSUME NEW d, Beginnings(d), NEW c \in Courses, NEW s \in SUBSET (1..Lessons),
           \/ \E n : Opened(d, c, n) /\ s = {n}
           \/ \E u \in 0..Lessons : s = 1..u
    PROVE  /\ Beginnings([d EXCEPT ![c] = @ \cup s])
           /\ \A b \in Courses : d[b] \subseteq [d EXCEPT ![c] = @ \cup s][b]
<1>0. Lessons \in Nat /\ d \in [Courses -> SUBSET (1..Lessons)]
      BY LearnAssumption DEF LearnAssumption, Beginnings
<1>1. PICK m \in 0..Lessons : d[c] = 1..m
      BY DEF Beginnings
<1>2. \E k \in 0..Lessons : d[c] \cup s = 1..k
  <2>1. ASSUME NEW n, Opened(d, c, n), s = {n} PROVE \E k \in 0..Lessons : d[c] \cup s = 1..k
    <3>1. n \in 1..Lessons /\ (n = 1 \/ n - 1 \in 1..m)
          BY <1>1, <2>1 DEF Opened
    <3>2. CASE n <= m
          BY <1>0, <1>1, <2>1, <3>1, <3>2
    <3>3. CASE n > m
      <4>1. n = m + 1 /\ n \in 0..Lessons
            BY <1>0, <3>1, <3>3
      <4>2. d[c] \cup s = 1..n
            BY <1>0, <1>1, <2>1, <4>1
      <4> QED BY <4>1, <4>2
    <3> QED BY <1>0, <3>1, <3>2, <3>3
  <2>2. ASSUME NEW u \in 0..Lessons, s = 1..u PROVE \E k \in 0..Lessons : d[c] \cup s = 1..k
    <3>1. CASE u <= m
      <4>1. d[c] \cup s = 1..m
            BY <1>0, <1>1, <2>2, <3>1
      <4> QED BY <4>1
    <3>2. CASE u > m
      <4>1. d[c] \cup s = 1..u
            BY <1>0, <1>1, <2>2, <3>2
      <4> QED BY <4>1
    <3> QED BY <1>0, <3>1, <3>2
  <2> QED BY <2>1, <2>2
<1> DEFINE e == [d EXCEPT ![c] = @ \cup s]
<1>3. /\ e \in [Courses -> SUBSET (1..Lessons)] /\ e[c] = d[c] \cup s
      /\ \A b \in Courses : b # c => e[b] = d[b]
      BY <1>0
<1> HIDE DEF e
<1>4. Beginnings(e)
      BY <1>2, <1>3 DEF Beginnings
<1>5. \A b \in Courses : d[b] \subseteq e[b]
      BY <1>3
<1> QED BY <1>4, <1>5 DEF e

-----------------------------------------------------------------------------
LEMMA LearnBounds ==
    /\ Lessons \in Nat /\ Lessons > 0 /\ Script \in 0..Lessons /\ NoCourse \notin Courses
    /\ MaxCalls \in Nat /\ MaxAsks \in Nat
    /\ Courses \subseteq Opt /\ NoCourse \in Opt
BY LearnAssumption DEF LearnAssumption, Opt

LEMMA NothingOpen ==
    ASSUME NEW d PROVE TreeOK(d, NoTree) /\ ActiveOK(d, NoLesson)
<1>1. NoTree \in Tree
      BY LearnBounds DEF NoTree, Tree
<1>2. 1 \in 1..Lessons
      BY LearnBounds
<1>3. NoLesson \in [lang : Opt, rank : 1..Lessons]
      BY <1>2, LearnBounds DEF NoLesson
<1> QED BY <1>1, <1>3 DEF TreeOK, ActiveOK

LEMMA LearnStart == LearnInit => LearnInv
<1> SUFFICES ASSUME LearnInit PROVE LearnInv
    OBVIOUS
<1> DEFINE d == [c \in Courses |-> {}]
<1>1. /\ school.done = d /\ calls = {} /\ tree = NoTree /\ active = NoLesson
      /\ lang = NoCourse /\ daily = NoCourse /\ over = {} /\ asks \in 0..MaxAsks
      BY DEF LearnInit
<1>2. LearnFlagsOK
      BY DEF LearnInit, LearnFlagsOK
<1>3. school \in Schools
      BY DEF LearnInit, Schools
<1>4. Beginnings(d)
  <2>1. 0 \in 0..Lessons /\ {} = 1..0
        BY LearnBounds
  <2>2. d \in [Courses -> SUBSET (1..Lessons)] /\ \A c \in Courses : d[c] = {}
        OBVIOUS
  <2> HIDE DEF d
  <2> QED BY <2>1, <2>2 DEF Beginnings
<1>5. CallsOK(d, {})
      BY FS_EmptySet, LearnBounds DEF CallsOK
<1> HIDE DEF d
<1>6. CoursesOK
      BY <1>1, <1>3, <1>4, <1>5, NothingOpen DEF CoursesOK
<1>7. hearts = [screen |-> "ask", asking |-> FALSE, gifts |-> asks, giving |-> FALSE]
      BY DEF LearnInit
<1>8. hearts \in HeartScreens /\ ~hearts.giving
      BY <1>1, <1>7 DEF HeartScreens
<1>9. AsideOK
      BY <1>1, <1>8, LearnBounds DEF AsideOK, Overlays
<1> QED BY <1>2, <1>6, <1>9 DEF LearnInv

LEMMA AskKeeps ==
    ASSUME LearnInv, NEW cs, IsFiniteSet(cs), \A q \in cs : CallOK(school.done, q), Ask(cs)
    PROVE  CallsOK(school.done, calls')
<1>1. CallsOK(school.done, calls)
      BY DEF LearnInv, CoursesOK
<1>2. calls' = calls \cup cs /\ Cardinality(calls') <= MaxCalls
      BY DEF Ask
<1>3. IsFiniteSet(calls')
      BY <1>1, <1>2, FS_Union DEF CallsOK
<1>4. \A q \in calls' : CallOK(school.done, q)
      BY <1>1, <1>2 DEF CallsOK
<1> QED BY <1>2, <1>3, <1>4 DEF CallsOK

\* The requests of the page about a course that is open.
LEMMA WantOK ==
    ASSUME NEW d, NEW c \in Courses, NEW n \in 0..Lessons
    PROVE  /\ \A what \in {"open", "refresh", "enroll", "skip", "daily"} :
                CallOK(d, Want(what, c, n))
           /\ CallOK(d, Want("state", NoCourse, 0))
           /\ Opened(d, c, n) => CallOK(d, Want("lesson", c, n))
<1>1. 0 \in 0..Lessons
      BY LearnBounds
<1>2. \A what \in {"open", "refresh", "enroll", "skip", "daily", "lesson"} :
         Want(what, c, n) \in LearnCall
      BY LearnBounds DEF Want, LearnCall
<1>3. Want("state", NoCourse, 0) \in LearnCall
      BY <1>1, LearnBounds DEF Want, LearnCall
<1> QED BY <1>2, <1>3 DEF CallOK, Want

LEMMA RefreshKeeps ==
    ASSUME LearnInv, RefreshCourse \/ UNCHANGED calls
    PROVE  CallsOK(school.done, calls')
<1>0. CallsOK(school.done, calls) /\ lang \in Opt
      BY DEF LearnInv, CoursesOK, AsideOK
<1>1. CASE UNCHANGED calls
      BY <1>0, <1>1
<1>2. CASE lang # NoCourse /\ Ask({Want("refresh", lang, 0), Want("daily", lang, 0)})
  <2>1. lang \in Courses /\ 0 \in 0..Lessons
        BY <1>0, <1>2, LearnBounds DEF Opt
  <2>2. \A q \in {Want("refresh", lang, 0), Want("daily", lang, 0)} : CallOK(school.done, q)
        BY <2>1, WantOK
  <2> QED BY <1>2, <2>2, TwoAreFinite, AskKeeps
<1> QED BY <1>1, <1>2 DEF RefreshCourse

\* What a step leaves alone that changes nothing on the server.
LEMMA PageMoves ==
    ASSUME LearnInv, UNCHANGED <<school, active>>, tree' = tree \/ tree' = NoTree,
           CallsOK(school.done, calls'), AsideOK', LearnFlagsOK'
    PROVE  LearnInv'
<1>1. TreeOK(school.done, tree')
      BY NothingOpen DEF LearnInv, CoursesOK
<1> QED BY <1>1 DEF LearnInv, CoursesOK

-----------------------------------------------------------------------------
\* The list and the path.
LEMMA NavigationKeeps ==
    ASSUME LearnInv, BackToList \/ \E c \in Courses : OpenCourse(c)
    PROVE  LearnInv'
<1>0. 0 \in 0..Lessons
      BY LearnBounds
<1>1. CASE BackToList
  <2>1. /\ lang' = NoCourse /\ tree' = NoTree /\ daily' = NoCourse
        /\ Ask({Want("state", NoCourse, 0)}) /\ lang # NoCourse
        /\ UNCHANGED <<active, over, busy, heartKnown, school, hearts, asks>>
        BY <1>1 DEF BackToList, OnPath, PathShown
  <2>2. lang \in Courses
        BY <2>1, LearnBounds DEF LearnInv, AsideOK, Opt
  <2>3. CallsOK(school.done, calls')
        BY <1>0, <2>1, <2>2, WantOK, TwoAreFinite, AskKeeps
  <2> QED BY <2>1, <2>3, PageMoves, LearnBounds DEF LearnInv, AsideOK, LearnFlagsOK
<1>2. ASSUME NEW c \in Courses, OpenCourse(c) PROVE LearnInv'
  <2>1. /\ lang' = c /\ tree' = NoTree /\ daily' = NoCourse
        /\ Ask({Want("open", c, 0), Want("daily", c, 0)})
        /\ UNCHANGED <<active, over, busy, heartKnown, school, hearts, asks>>
        BY <1>2 DEF OpenCourse
  <2>2. \A q \in {Want("open", c, 0), Want("daily", c, 0)} : CallOK(school.done, q)
        BY <1>0, WantOK
  <2>3. CallsOK(school.done, calls')
        BY <2>1, <2>2, TwoAreFinite, AskKeeps
  <2> QED BY <2>1, <2>3, PageMoves, LearnBounds DEF LearnInv, AsideOK, LearnFlagsOK
<1> QED BY <1>1, <1>2

\* What opens over the path and closes.
LEMMA OverlaysKeep ==
    ASSUME LearnInv,
           \/ OpenDiagnostic
           \/ \E o \in Overlays : OpenOver(o) \/ \E b \in BOOLEAN : CloseOver(o, b)
    PROVE  LearnInv'
<1>0. NoCourse \in Opt /\ daily \in Opt /\ over \subseteq Overlays
      /\ CallsOK(school.done, calls)
      BY LearnBounds DEF LearnInv, AsideOK, CoursesOK
<1>1. UNCHANGED <<lang, tree, active, busy, heartKnown, school, hearts, asks>>
      BY DEF OpenDiagnostic, OpenOver, CloseOver
<1>2. over' \subseteq Overlays
      BY <1>0 DEF OpenDiagnostic, OpenOver, CloseOver, Overlays
<1>3. daily' \in Opt
      BY <1>0 DEF OpenDiagnostic, OpenOver, CloseOver
<1>4. RefreshCourse \/ UNCHANGED calls
      BY DEF OpenDiagnostic, OpenOver, CloseOver
<1>5. CallsOK(school.done, calls')
      BY <1>4, RefreshKeeps
<1> QED BY <1>1, <1>2, <1>3, <1>5, PageMoves DEF LearnInv, AsideOK, LearnFlagsOK

\* The level of a course, and its signs taken as known.
LEMMA LevelsKeep ==
    ASSUME LearnInv, SkipScript \/ \E u \in StartUnits : Choose(u)
    PROVE  LearnInv'
<1>0. lang \in Opt /\ over \subseteq Overlays /\ CallsOK(school.done, calls)
      BY DEF LearnInv, AsideOK, CoursesOK
<1>1. CASE SkipScript
  <2>1. /\ over' \subseteq Overlays
        /\ UNCHANGED <<lang, tree, daily, active, busy, heartKnown, school, hearts, asks>>
        /\ (lang # NoCourse /\ Ask({Want("skip", lang, Script)})) \/ UNCHANGED calls
        BY <1>0, <1>1 DEF SkipScript
  <2>2. CASE UNCHANGED calls
        BY <1>0, <2>1, <2>2, PageMoves DEF LearnInv, AsideOK, LearnFlagsOK
  <2>3. CASE lang # NoCourse /\ Ask({Want("skip", lang, Script)})
    <3>1. lang \in Courses /\ Script \in 0..Lessons
          BY <1>0, <2>3, LearnBounds DEF Opt
    <3>2. CallsOK(school.done, calls')
          BY <2>3, <3>1, WantOK, TwoAreFinite, AskKeeps
    <3> QED BY <2>1, <3>2, PageMoves DEF LearnInv, AsideOK, LearnFlagsOK
  <2> QED BY <2>1, <2>2, <2>3
<1>2. ASSUME NEW u \in StartUnits, Choose(u) PROVE LearnInv'
  <2>1. /\ lang # NoCourse /\ busy' = TRUE /\ Ask({Want("enroll", lang, u)})
        /\ UNCHANGED <<lang, tree, daily, active, over, heartKnown, school, hearts, asks>>
        BY <1>2 DEF Choose, OnPath, PathShown
  <2>2. u \in 0..Lessons
        BY LearnBounds DEF StartUnits
  <2>3. lang \in Courses
        BY <1>0, <2>1 DEF Opt
  <2>4. CallsOK(school.done, calls')
        BY <2>1, <2>2, <2>3, WantOK, TwoAreFinite, AskKeeps
  <2> QED BY <2>1, <2>4, PageMoves DEF LearnInv, AsideOK, LearnFlagsOK
<1> QED BY <1>1, <1>2

\* A lesson is asked for on the path on the screen: it may be taken there, and the path
\* shows nothing that is not done.
LEMMA StartLessonKeeps ==
    ASSUME LearnInv, NEW n \in 1..Lessons, StartLesson(n)
    PROVE  LearnInv'
<1>0. /\ TreeOK(school.done, tree) /\ CallsOK(school.done, calls) /\ over \subseteq Overlays
      BY DEF LearnInv, AsideOK, CoursesOK
<1>1. /\ UNCHANGED <<lang, tree, daily, active, heartKnown, school, hearts, asks>>
      /\ tree # NoTree /\ n \in Playable(tree)
      BY DEF StartLesson, OnPath, PathShown, Continue
<1>2. Opened(school.done, tree.lang, n) /\ tree.lang \in Courses /\ n \in 0..Lessons
  <2>1. n \in Int /\ (n = 1 \/ n - 1 \in tree.done)
        BY <1>1, LearnBounds DEF Playable, Locked
  <2> QED BY <1>0, <1>1, <2>1, LearnBounds DEF Opened, TreeOK
<1>3. CASE ~heartKnown
  <2>1. over' = over \cup {"hearts"} /\ UNCHANGED <<busy, calls>>
        BY <1>3 DEF StartLesson
  <2> QED BY <1>0, <1>1, <2>1, PageMoves DEF LearnInv, AsideOK, LearnFlagsOK, Overlays
<1>4. CASE heartKnown
  <2>1. busy' = TRUE /\ Ask({Want("lesson", tree.lang, n)}) /\ UNCHANGED over
        BY <1>4 DEF StartLesson
  <2> DEFINE want == Want("lesson", tree.lang, n)
  <2>2. CallOK(school.done, want)
        BY <1>2, WantOK
  <2> HIDE DEF want
  <2>3. Ask({want}) /\ IsFiniteSet({want})
        BY <2>1, TwoAreFinite DEF want
  <2>4. CallsOK(school.done, calls')
        BY <2>2, <2>3, AskKeeps
  <2> QED BY <1>1, <2>1, <2>4, PageMoves DEF LearnInv, AsideOK, LearnFlagsOK
<1> QED BY <1>3, <1>4 DEF LearnInv, LearnFlagsOK

-----------------------------------------------------------------------------
\* What a step leaves for the next one that has more done.
LEMMA CoursesGrow ==
    ASSUME LearnInv, school' \in Schools, Beginnings(school'.done),
           \A c \in Courses : school.done[c] \subseteq school'.done[c],
           CallsOK(school.done, calls') \/ CallsOK(school'.done, calls'),
           TreeOK(school.done, tree') \/ TreeOK(school'.done, tree'),
           ActiveOK(school.done, active') \/ ActiveOK(school'.done, active')
    PROVE  CoursesOK'
<1>1. /\ \A cs : CallsOK(school.done, cs) => CallsOK(school'.done, cs)
      /\ \A t : TreeOK(school.done, t) => TreeOK(school'.done, t)
      /\ \A a : ActiveOK(school.done, a) => ActiveOK(school'.done, a)
      BY MoreDone
<1>2. /\ CallsOK(school'.done, calls') /\ TreeOK(school'.done, tree')
      /\ ActiveOK(school'.done, active')
      BY <1>1
<1> QED BY <1>2 DEF CoursesOK

\* Lessons that are added to those done of a course, with no hole.
LEMMA SchoolGrows ==
    ASSUME LearnInv, NEW c \in Courses, NEW s \in SUBSET (1..Lessons),
           \/ \E n : Opened(school.done, c, n) /\ s = {n}
           \/ \E u \in 0..Lessons : s = 1..u,
           school'.done = [school.done EXCEPT ![c] = @ \cup s]
    PROVE  /\ Beginnings(school'.done) /\ school'.done[c] = school.done[c] \cup s
           /\ \A b \in Courses : school.done[b] \subseteq school'.done[b]
<1>1. Beginnings(school.done)
      BY DEF LearnInv, CoursesOK
<1> DEFINE d == school.done
           e == [d EXCEPT ![c] = @ \cup s]
<1>2. e[c] = d[c] \cup s
      BY <1>1 DEF Beginnings
<1> HIDE DEF d
<1>3. Beginnings(e) /\ \A b \in Courses : d[b] \subseteq e[b]
      BY <1>1, NoHoleLeft DEF d
<1> QED BY <1>2, <1>3 DEF d

\* The end of a lesson.
LEMMA EndLessonKeeps ==
    ASSUME LearnInv, NEW how \in {"left", "done", "hearts"}, EndLesson(how)
    PROVE  LearnInv'
<1>0. /\ school \in Schools /\ Beginnings(school.done) /\ ActiveOK(school.done, active)
      /\ CallsOK(school.done, calls) /\ TreeOK(school.done, tree) /\ over \subseteq Overlays
      BY DEF LearnInv, CoursesOK, AsideOK
<1>1. /\ active' = NoLesson /\ active # NoLesson
      /\ UNCHANGED <<lang, tree, daily, busy, heartKnown, hearts, asks>>
      /\ RefreshCourse \/ UNCHANGED calls
      BY DEF EndLesson, PlayerShown
<1>2. over' \subseteq Overlays
      BY <1>0 DEF EndLesson, Overlays
<1>3. CallsOK(school.done, calls')
      BY <1>1, RefreshKeeps
<1>4. /\ school' \in Schools /\ Beginnings(school'.done)
      /\ \A c \in Courses : school.done[c] \subseteq school'.done[c]
  <2>1. CASE how = "left"
        BY <1>0, <2>1 DEF EndLesson
  <2>2. CASE how = "done"
    <3>1. PICK heart \in BOOLEAN :
            school' = [school EXCEPT !.done[active.lang] = @ \cup {active.rank}, !.heart = heart]
          BY <2>2 DEF EndLesson
    <3>2. Opened(school.done, active.lang, active.rank)
          BY <1>0, <1>1 DEF ActiveOK
    <3>3. active.lang \in Courses /\ {active.rank} \in SUBSET (1..Lessons)
          BY <3>2 DEF Opened
    <3>4. school'.done = [school.done EXCEPT ![active.lang] = @ \cup {active.rank}]
          BY <1>0, <3>1, Zenon DEF Schools
    <3>5. /\ Beginnings(school'.done)
          /\ \A c \in Courses : school.done[c] \subseteq school'.done[c]
          BY <3>2, <3>3, <3>4, SchoolGrows
    <3>6. school' \in Schools
          BY <1>0, <3>1, <3>3, Zenon DEF Schools
    <3> QED BY <3>5, <3>6
  <2>3. CASE how = "hearts"
    <3>1. school' = [school EXCEPT !.heart = FALSE]
          BY <2>3 DEF EndLesson
    <3>2. school' \in Schools /\ school'.done = school.done
          BY <1>0, <3>1, Zenon DEF Schools
    <3> QED BY <1>0, <3>2
  <2> QED BY <2>1, <2>2, <2>3
<1>5. CoursesOK'
      BY <1>0, <1>1, <1>3, <1>4, CoursesGrow, NothingOpen
<1>6. AsideOK' /\ LearnFlagsOK'
      BY <1>1, <1>2 DEF LearnInv, AsideOK, LearnFlagsOK
<1> QED BY <1>5, <1>6 DEF LearnInv

\* An answer, for the course on the screen or another.
LEMMA CallAnsweredKeeps ==
    ASSUME LearnInv, NEW q \in calls, NEW ok \in BOOLEAN, CallAnswered(q, ok)
    PROVE  LearnInv'
<1>0. /\ school \in Schools /\ Beginnings(school.done) /\ ActiveOK(school.done, active)
      /\ CallsOK(school.done, calls) /\ TreeOK(school.done, tree) /\ CallOK(school.done, q)
      /\ busy \in BOOLEAN /\ heartKnown \in BOOLEAN /\ daily \in Opt /\ q.lang \in Opt
      /\ q.rank \in 0..Lessons
      BY DEF LearnInv, CoursesOK, AsideOK, LearnFlagsOK, CallsOK, CallOK, LearnCall
<1>1. calls' = calls \ {q} /\ UNCHANGED <<lang, over, hearts, asks>>
      BY DEF CallAnswered
<1>2. CallsOK(school.done, calls')
  <2>1. /\ IsFiniteSet(calls') /\ IsFiniteSet(calls) /\ Cardinality(calls') <= Cardinality(calls)
        BY <1>0, <1>1, FS_Subset DEF CallsOK
  <2>2. Cardinality(calls') \in Nat /\ Cardinality(calls) \in Nat
        BY <2>1, FS_CardinalityType
  <2>3. Cardinality(calls') <= MaxCalls
        BY <1>0, <2>1, <2>2, LearnBounds DEF CallsOK
  <2> QED BY <1>0, <1>1, <2>1, <2>3 DEF CallsOK
<1>3. busy' \in BOOLEAN /\ heartKnown' \in BOOLEAN
      BY <1>0, Zenon DEF CallAnswered, Schools
<1>4. daily' \in Opt
      BY <1>0, LearnBounds DEF CallAnswered
<1>5. ActiveOK(school.done, active')
  <2>1. CASE active' = active
        BY <1>0, <2>1
  <2>2. CASE q.what = "lesson" /\ active' = [lang |-> q.lang, rank |-> q.rank]
    <3>1. Opened(school.done, q.lang, q.rank)
          BY <1>0, <2>2 DEF CallOK
    <3>2. active' \in [lang : Opt, rank : 1..Lessons]
          BY <1>0, <2>2, <3>1 DEF Opened
    <3> QED BY <2>2, <3>1, <3>2 DEF ActiveOK
  <2> QED BY <2>1, <2>2 DEF CallAnswered
<1>6. CASE ok /\ q.what \in {"enroll", "skip"}
  <2>1. q.lang \in Courses /\ 1..q.rank \in SUBSET (1..Lessons)
        BY <1>0, <1>6, LearnBounds DEF CallOK
  <2>2. school' = [school EXCEPT !.done[q.lang] = @ \cup 1..q.rank, !.enrolled[q.lang] = TRUE]
        BY <1>6 DEF CallAnswered, Placed
  <2>3. school' \in Schools
        BY <1>0, <2>1, <2>2, Zenon DEF Schools
  <2>4. school'.done = [school.done EXCEPT ![q.lang] = @ \cup 1..q.rank]
        BY <1>0, <2>2, Zenon DEF Schools
  <2>5. /\ Beginnings(school'.done)
        /\ \A b \in Courses : school.done[b] \subseteq school'.done[b]
        BY <1>0, <2>1, <2>4, SchoolGrows
  <2>6. tree' = [lang |-> q.lang, done |-> school'.done[q.lang], enrolled |-> TRUE]
        BY <1>6 DEF CallAnswered
  <2>7. TreeOK(school'.done, tree')
    <3>1. school'.done[q.lang] \in SUBSET (1..Lessons)
          BY <2>1, <2>3, Zenon DEF Schools
    <3>2. tree' \in Tree
          BY <1>0, <2>6, <3>1 DEF Tree
    <3> QED BY <2>1, <2>6, <3>2 DEF TreeOK
  <2>8. CoursesOK'
        BY <1>2, <1>5, <2>3, <2>5, <2>7, CoursesGrow
  <2> QED BY <1>1, <1>3, <1>4, <2>8 DEF LearnInv, AsideOK, LearnFlagsOK
<1>7. CASE ~(ok /\ q.what \in {"enroll", "skip"})
  <2>1. school' = school
        BY <1>7 DEF CallAnswered
  <2>2. TreeOK(school.done, tree')
    <3>1. CASE tree' = tree
          BY <1>0, <3>1
    <3>2. CASE q.what \in {"open", "refresh"} /\ tree' = TreeOf(q.lang)
      <4>1. q.lang \in Courses
            BY <1>0, <3>2 DEF CallOK
      <4>2. school.done[q.lang] \in SUBSET (1..Lessons) /\ school.enrolled[q.lang] \in BOOLEAN
            BY <1>0, <4>1, Zenon DEF Schools
      <4>3. tree' \in Tree /\ tree'.lang = q.lang /\ tree'.done = school.done[q.lang]
            BY <1>0, <3>2, <4>2 DEF TreeOf, Tree
      <4> QED BY <4>1, <4>3 DEF TreeOK
    <3> QED BY <1>7, <3>1, <3>2 DEF CallAnswered
  <2>3. CoursesOK'
        BY <1>0, <1>2, <1>5, <2>1, <2>2, CoursesGrow
  <2> QED BY <1>1, <1>3, <1>4, <2>3 DEF LearnInv, AsideOK, LearnFlagsOK
<1> QED BY <1>6, <1>7

\* Hearts asked for, given and grown back.
LEMMA HeartsKeep ==
    ASSUME LearnInv,
           \/ OpenPicker \/ AskFriend \/ Give \/ HeartBack
           \/ \E b \in BOOLEAN : AskAnswered(b) \/ Given(b)
    PROVE  LearnInv'
<1>0. /\ hearts \in HeartScreens /\ asks \in 0..MaxAsks /\ over \subseteq Overlays
      /\ hearts.giving => hearts.gifts > 0
      /\ CallsOK(school.done, calls) /\ school \in Schools /\ 0 \in 0..Lessons
      BY LearnBounds DEF LearnInv, AsideOK, CoursesOK
<1>1. CASE HeartBack
  <2>1. /\ school' = [school EXCEPT !.heart = TRUE]
        /\ UNCHANGED <<lang, tree, daily, active, over, busy, heartKnown, calls, hearts, asks>>
        BY <1>1 DEF HeartBack
  <2>2. school' \in Schools /\ school'.done = school.done
        BY <1>0, <2>1, Zenon DEF Schools
  <2>3. CoursesOK'
        BY <2>1, <2>2, CoursesGrow DEF LearnInv, CoursesOK
  <2> QED BY <2>1, <2>3 DEF LearnInv, AsideOK, LearnFlagsOK
<1>2. ASSUME UNCHANGED <<lang, tree, daily, active, busy, heartKnown, school>>,
             over' \subseteq over, asks' \in 0..MaxAsks, hearts' \in HeartScreens,
             hearts'.giving => hearts'.gifts > 0, CallsOK(school.done, calls')
      PROVE  LearnInv'
      BY <1>0, <1>2, PageMoves DEF LearnInv, AsideOK, LearnFlagsOK
<1>3. CASE OpenPicker
  <2>1. hearts' = [hearts EXCEPT !.screen = "friends"]
        BY <1>3 DEF OpenPicker
  <2>2. /\ hearts' \in HeartScreens /\ hearts'.gifts = hearts.gifts
        /\ hearts'.giving = hearts.giving
        BY <1>0, <2>1, Zenon DEF HeartScreens
  <2> QED BY <1>0, <1>2, <1>3, <2>2 DEF OpenPicker
<1>4. CASE AskFriend
  <2>1. hearts' = [hearts EXCEPT !.asking = TRUE]
        BY <1>4 DEF AskFriend
  <2>2. /\ hearts' \in HeartScreens /\ hearts'.gifts = hearts.gifts
        /\ hearts'.giving = hearts.giving
        BY <1>0, <2>1, Zenon DEF HeartScreens
  <2>3. asks' \in 0..MaxAsks
        BY <1>0, <1>4, LearnBounds DEF AskFriend
  <2> QED BY <1>0, <1>2, <1>4, <2>2, <2>3 DEF AskFriend
<1>5. CASE Give
  <2>1. hearts' = [hearts EXCEPT !.giving = TRUE]
        BY <1>5 DEF Give
  <2>2. hearts' \in HeartScreens /\ hearts'.gifts = hearts.gifts
        BY <1>0, <2>1, Zenon DEF HeartScreens
  <2> QED BY <1>0, <1>2, <1>5, <2>2 DEF Give, HeartBannerShown
<1>6. ASSUME NEW b \in BOOLEAN, AskAnswered(b) PROVE LearnInv'
  <2>1. hearts' = [hearts EXCEPT !.asking = FALSE, !.screen = IF b THEN "ask" ELSE "quota"]
        BY <1>6 DEF AskAnswered
  <2>2. /\ hearts' \in HeartScreens /\ hearts'.gifts = hearts.gifts
        /\ hearts'.giving = hearts.giving
        BY <1>0, <2>1, Zenon DEF HeartScreens
  <2>3. CallsOK(school.done, calls')
        BY <1>6, RefreshKeeps DEF AskAnswered
  <2> QED BY <1>0, <1>2, <1>6, <2>2, <2>3 DEF AskAnswered
<1>7. ASSUME NEW b \in BOOLEAN, Given(b) PROVE LearnInv'
  <2>1. hearts' = [hearts EXCEPT !.giving = FALSE, !.gifts = IF b THEN @ - 1 ELSE @]
        BY <1>7 DEF Given
  <2>2. hearts.gifts - 1 \in 0..MaxAsks
    <3>1. hearts.gifts > 0
          BY <1>0, <1>7, Zenon DEF Given
    <3>2. hearts.gifts \in 0..MaxAsks
          BY <1>0, Zenon DEF HeartScreens
    <3> QED BY <3>1, <3>2, LearnBounds
  <2>3. hearts' \in HeartScreens /\ ~hearts'.giving
        BY <1>0, <2>1, <2>2, Zenon DEF HeartScreens
  <2>4. CallOK(school.done, Want("state", NoCourse, 0))
    <3>1. CASE Courses = {}
          BY <1>0, <3>1, LearnBounds DEF CallOK, Want, LearnCall
    <3>2. CASE Courses # {}
          BY <1>0, <3>2, WantOK
    <3> QED BY <3>1, <3>2
  <2>5. CallsOK(school.done, calls')
        BY <1>0, <1>7, <2>4, TwoAreFinite, AskKeeps DEF Given
  <2> QED BY <1>0, <1>2, <1>7, <2>3, <2>5 DEF Given
<1> QED BY <1>1, <1>3, <1>4, <1>5, <1>6, <1>7

LEMMA LearnKeeps == LearnInv /\ [LearnNext]_learnVars => LearnInv'
<1> SUFFICES ASSUME LearnInv, [LearnNext]_learnVars PROVE LearnInv'
    OBVIOUS
<1>1. CASE LearnNext
      BY <1>1, NavigationKeeps, OverlaysKeep, LevelsKeep, StartLessonKeeps, EndLessonKeeps,
         CallAnsweredKeeps, HeartsKeep DEF LearnNext
<1>2. CASE UNCHANGED learnVars
      BY <1>2 DEF learnVars, LearnInv, CoursesOK, AsideOK, LearnFlagsOK
<1> QED BY <1>1, <1>2

\* Every variable of the courses keeps its type, the requests under way being finite.
THEOREM LearnTypes == LearnSpec => []LearnTypeOK
<1>1. LearnInv => LearnTypeOK
  <2> SUFFICES ASSUME LearnInv PROVE LearnTypeOK
      OBVIOUS
  <2>1. calls \subseteq LearnCall /\ Cardinality(calls) <= MaxCalls
        BY DEF LearnInv, CoursesOK, CallsOK, CallOK
  <2> QED BY <2>1 DEF LearnInv, CoursesOK, AsideOK, LearnFlagsOK, LearnTypeOK, Schools,
          HeartScreens, TreeOK, ActiveOK
<1> QED BY <1>1, LearnStart, LearnKeeps, PTL DEF LearnSpec

\* CoursePath.tsx:36-37, learn/store.go:232-243: for any courses, lessons and number of
\* requests under way, what is done of a course is always its beginning.
THEOREM NoHoleInPathHolds == LearnSpec => []NoHoleInPath
<1>1. LearnInv => NoHoleInPath
      BY DEF LearnInv, CoursesOK, Beginnings, NoHoleInPath
<1> QED BY <1>1, LearnStart, LearnKeeps, PTL DEF LearnSpec
===============================================================================
