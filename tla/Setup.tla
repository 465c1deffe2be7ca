-------------------------------- MODULE Setup --------------------------------
(***************************************************************************)
(* The screens before a search (components/setup/SetupView.tsx over        *)
(* stores/sessionStore.ts) and the sheet that sells the subscription       *)
(* (components/premium/PaywallModal.tsx).                                  *)
(*                                                                         *)
(* Two steps driven by the hash of the URL.  Three requests run behind     *)
(* them: the account (a name to suggest), the quota of the day, and every  *)
(* five seconds the length of the queue.  A name is empty, fit, or unfit:  *)
(* fewer than three characters, or on the list of words.                   *)
(***************************************************************************)
EXTENDS Naturals, FiniteSets

CONSTANTS Langs,     \* languages on offer
          NoLang,    \* none chosen
          MaxPolls,  \* bound: queue requests under way
          MaxStarts, \* bound: searches
          MaxPays    \* bound: checkouts

ASSUME SetupAssumption ==
    NoLang \notin Langs /\ MaxPolls \in Nat /\ MaxStarts \in Nat /\ MaxPays \in Nat

VARIABLES form,       \* the session store: name, languages, age, AI teacher, scenario
          page,       \* step: "pseudo", "config", "away" in a search, "stripe"
          url,        \* whether the hash is #config, and whether an entry lies behind
          account,    \* suggestion, and whether the account was asked for
          quota,      \* last answer: "unknown", "left", "spent", "premium"
          quotaAsked, \* a quota request is under way for this visit of the step
          queue,      \* the count shown: its pair, or nothing
          polls,      \* queue requests under way: pair and whether their effect lives
          paywall,    \* its source or "closed", loading, error, sign-in sheet
          pays,       \* checkouts under way
          user,       \* somebody is signed in
          started     \* searches so far

setupVars == <<form, page, url, account, quota, quotaAsked, queue, polls, paywall, pays, user,
               started>>

Names == {"", "nick", "unfit"}
Scenarios == {"none", "free", "locked"}
Choice == Langs \cup {NoLang}
Form == [name : Names, speaks : Choice, wants : Choice, age : BOOLEAN, bot : BOOLEAN,
         scenario : Scenarios]
Quotas == {"unknown", "left", "spent", "premium"}
NoPair == <<NoLang, NoLang>>
Sources == {"bot", "scenario", "swipe"}

SetupTypeOK ==
    /\ form \in Form /\ page \in {"pseudo", "config", "away", "stripe"}
    /\ url \in [config : BOOLEAN, behind : BOOLEAN]
    /\ account \in [suggestion : Names, tried : BOOLEAN, asked : BOOLEAN]
    /\ quota \in Quotas /\ quotaAsked \in BOOLEAN /\ queue \in Choice \X Choice
    /\ polls \subseteq [pair : Langs \X Langs, alive : BOOLEAN]
    /\ \A q, r \in polls : q.alive /\ r.alive => q = r
    /\ paywall \in [source : Sources \cup {"closed"}, loading : BOOLEAN, error : BOOLEAN,
                    login : BOOLEAN]
    /\ pays \in 0..MaxPays /\ user \in BOOLEAN
    /\ started \in 0..MaxStarts

\* The pair, the age and the name survive a reload; the AI teacher and its scenario do not.
Stored == [name : Names, speaks : Choice, wants : Choice, age : BOOLEAN,
           bot : {FALSE}, scenario : {"none"}]

-----------------------------------------------------------------------------
(* What the screen derives *)

AllowedPairs == {p \in Langs \X Langs : p[1] # p[2]}
IsPairAllowed(s, w) == <<s, w>> \in AllowedPairs
WantsExclude(s) == {w \in Langs : ~IsPairAllowed(s, w)}

ContainsProfanity(n) == n = "unfit"
EffectivePseudo == IF form.name # "" THEN form.name ELSE account.suggestion
CanGoConfig == EffectivePseudo # "" /\ ~ContainsProfanity(EffectivePseudo)
CanStart == CanGoConfig /\ IsPairAllowed(form.speaks, form.wants) /\ form.age

IsPremium == quota = "premium"
BotExhausted == quota = "spent"

\* The count is polled for a human search between two languages.
Polls(f, p) == p = "config" /\ ~f.bot /\ IsPairAllowed(f.speaks, f.wants)
QueueShown == queue # NoPair

-----------------------------------------------------------------------------
(* Effects *)

\* The polling starts over when the step, the pair or the AI teacher changes: the
\* requests of the former run are dropped, and a first one leaves at once.
Rerun(f, p) ==
    LET dead == {[q EXCEPT !.alive = FALSE] : q \in polls}
    IN IF <<f.speaks, f.wants, f.bot, p>> = <<form.speaks, form.wants, form.bot, page>>
       THEN UNCHANGED <<polls, queue>>
       ELSE IF Polls(f, p)
            THEN polls' = dead \cup {[pair |-> <<f.speaks, f.wants>>, alive |-> TRUE]}
                 /\ UNCHANGED queue
            ELSE polls' = dead /\ queue' = NoPair

\* An exhausted quota unchecks the AI teacher, and with it the scenario.
Unchecked(f, q) == IF q = "spent" /\ f.bot
                   THEN [f EXCEPT !.bot = FALSE, !.scenario = "none"] ELSE f

SetForm(f) ==
    /\ form' = Unchecked(f, quota) /\ Rerun(Unchecked(f, quota), page)
    /\ UNCHANGED <<page, url, account, quota, quotaAsked, paywall, pays, user, started>>

SetupInit ==
    /\ form \in [name : {"", "nick"}, speaks : {NoLang}, wants : {NoLang}, age : BOOLEAN,
                 bot : {FALSE}, scenario : {"none"}]
    /\ \E deep \in BOOLEAN : /\ url = [config |-> deep, behind |-> FALSE]
                             /\ page = IF deep THEN "config" ELSE "pseudo"
                             /\ quotaAsked = deep
    /\ user \in BOOLEAN
    /\ account = [suggestion |-> "", tried |-> user, asked |-> user]
    /\ quota = "unknown" /\ queue = NoPair /\ polls = {} /\ pays = 0
    /\ paywall = [source |-> "closed", loading |-> FALSE, error |-> FALSE, login |-> FALSE]
    /\ started = 0

\* The hash is the step: a quota request leaves with each visit of the second one.
Arrive(p) ==
    /\ page' = p /\ Rerun(form, p)
    /\ quotaAsked' = (p = "config")
    /\ url' \in [config : {p = "config"}, behind : BOOLEAN]

\* Mutant: any run writes.
AnyRunAnswers(q, ok) ==
    /\ polls' = polls \ {q}
    /\ queue' = IF ok THEN q.pair ELSE NoPair
    /\ UNCHANGED <<form, page, url, account, quota, quotaAsked, paywall, pays, user, started>>

\* Only the live run writes: its count, or -1, which hides the line.
QueueAnswers(q, ok) ==
    /\ polls' = polls \ {q}
    /\ queue' = IF ~q.alive THEN queue ELSE IF ok THEN q.pair ELSE NoPair
    /\ UNCHANGED <<form, page, url, account, quota, quotaAsked, paywall, pays, user, started>>

\* Every five seconds.
Poll ==
    /\ Polls(form, page) /\ \A q \in polls : ~q.alive
    /\ Cardinality(polls) < MaxPolls
    /\ polls' = polls \cup {[pair |-> <<form.speaks, form.wants>>, alive |-> TRUE]}
    /\ UNCHANGED <<form, page, url, account, quota, quotaAsked, queue, paywall, pays, user, started>>

\* A failed request leaves the option active and shows no counter.
QuotaAnswers(q) ==
    /\ quotaAsked /\ page = "config" /\ quotaAsked' = FALSE /\ quota' = q
    /\ form' = Unchecked(form, q) /\ Rerun(Unchecked(form, q), page)
    /\ UNCHANGED <<page, url, account, paywall, pays, user, started>>

\* The display name of the profile is suggested, never stored.
AccountAnswers(n) ==
    /\ account.asked /\ page \in {"pseudo", "config"}
    /\ account' = [account EXCEPT !.asked = FALSE, !.suggestion = n]
    /\ UNCHANGED <<form, page, url, quota, quotaAsked, queue, polls, paywall, pays, user, started>>

-----------------------------------------------------------------------------
(* Moves of the visitor *)

NoSheet == paywall.source = "closed"
OnConfig == page = "config" /\ NoSheet

TypeName(n) == page = "pseudo" /\ NoSheet /\ n # form.name /\ SetForm([form EXCEPT !.name = n])

GoConfig ==
    /\ page = "pseudo" /\ NoSheet /\ CanGoConfig
    /\ Arrive("config") /\ url'.behind
    /\ UNCHANGED <<form, account, quota, paywall, pays, user, started>>

\* The button goes back in the history; a page opened on #config has nothing of this
\* site behind it.
GoBack ==
    /\ page = "config" /\ NoSheet /\ url.behind
    /\ Arrive("pseudo") /\ ~url'.behind
    /\ UNCHANGED <<form, account, quota, paywall, pays, user, started>>

HandleSpeaksChange(s) ==
    /\ OnConfig /\ s # form.wants
    /\ SetForm([form EXCEPT !.speaks = s,
                            !.wants = IF IsPairAllowed(s, form.wants) THEN @ ELSE NoLang])

HandleWantsChange(w) ==
    /\ OnConfig /\ form.speaks # NoLang /\ w \notin WantsExclude(form.speaks)
    /\ SetForm([form EXCEPT !.wants = w])

Swap ==
    /\ OnConfig /\ IsPairAllowed(form.wants, form.speaks)
    /\ SetForm([form EXCEPT !.speaks = form.wants, !.wants = form.speaks])

AcceptAge == OnConfig /\ SetForm([form EXCEPT !.age = ~@])

ShowPaywall(source) ==
    /\ paywall' = [source |-> source, loading |-> FALSE, error |-> FALSE, login |-> FALSE]
    /\ UNCHANGED <<form, page, url, account, quota, quotaAsked, queue, polls, pays, user, started>>

\* A tap on the AI teacher once the quota is spent opens the sheet.
ToggleBot ==
    /\ OnConfig
    /\ IF BotExhausted THEN ShowPaywall("bot")
       ELSE SetForm([form EXCEPT !.bot = ~@, !.scenario = IF form.bot THEN "none" ELSE @])

PickScenario(s) ==
    /\ OnConfig /\ form.bot
    /\ IF s = "locked" /\ ~IsPremium THEN ShowPaywall("scenario")
       ELSE s # form.scenario /\ SetForm([form EXCEPT !.scenario = s])

\* The suggestion becomes the name, and the search leaves with the store.
Start ==
    /\ OnConfig /\ CanStart /\ started < MaxStarts
    /\ LET f == [form EXCEPT !.name = EffectivePseudo]
       IN form' = f /\ Rerun(f, "away")
    /\ started' = started + 1
    /\ page' = "away" /\ quotaAsked' = FALSE
    /\ UNCHANGED <<url, account, quota, paywall, pays, user>>

\* Back to idle, the hash is wiped and the screen mounts anew.
Return ==
    /\ page = "away" /\ NoSheet /\ Arrive("pseudo") /\ url'.behind = url.behind
    /\ quota' = "unknown"
    /\ account' = [suggestion |-> "", tried |-> user, asked |-> user]
    /\ UNCHANGED <<form, paywall, pays, user, started>>

-----------------------------------------------------------------------------
(* The subscription sheet *)

\* A refused search shows the sheet too.
SwipeLimit == page = "away" /\ NoSheet /\ ShowPaywall("swipe")

\* What it showed is reset when it opens again.
Hide ==
    /\ ~NoSheet
    /\ paywall' = [source |-> "closed", loading |-> FALSE, error |-> FALSE, login |-> FALSE]
    /\ UNCHANGED <<form, page, url, account, quota, quotaAsked, queue, polls, pays, user, started>>

LogIn ==
    /\ ~NoSheet /\ ~user /\ user' \in BOOLEAN
    /\ paywall' = [paywall EXCEPT !.login = ~user']
    /\ account' = IF user' /\ page # "away" /\ ~account.tried
                  THEN [account EXCEPT !.tried = TRUE, !.asked = TRUE] ELSE account
    /\ UNCHANGED <<form, page, url, quota, quotaAsked, queue, polls, pays, started>>

Upgrade ==
    /\ ~NoSheet /\ user /\ ~paywall.loading /\ pays < MaxPays
    /\ pays' = pays + 1 /\ paywall' = [paywall EXCEPT !.loading = TRUE, !.error = FALSE]
    /\ UNCHANGED <<form, page, url, account, quota, quotaAsked, queue, polls, user, started>>

\* The answer is written in the sheet as it is now, if it is open.
CheckoutFails ==
    /\ pays > 0 /\ page # "stripe" /\ pays' = pays - 1
    /\ paywall' = IF NoSheet THEN paywall
                  ELSE [paywall EXCEPT !.loading = FALSE, !.error = TRUE]
    /\ UNCHANGED <<form, page, url, account, quota, quotaAsked, queue, polls, user, started>>

CheckoutOpens ==
    /\ pays > 0 /\ page # "stripe" /\ pays' = 0 /\ page' = "stripe"
    /\ polls' = {} /\ quotaAsked' = FALSE /\ queue' = NoPair
    /\ UNCHANGED <<form, url, account, quota, paywall, user, started>>

\* Paid or cancelled, a link leads to the first page, which loads anew.
BackFromStripe ==
    /\ page = "stripe" /\ page' = "pseudo" /\ url' = [config |-> FALSE, behind |-> FALSE]
    /\ form' \in {f \in Stored : /\ f.name = form.name /\ f.age = form.age
                                 /\ f.speaks = form.speaks /\ f.wants = form.wants}
    /\ account' = [suggestion |-> "", tried |-> TRUE, asked |-> TRUE] /\ quota' = "unknown"
    /\ paywall' = [source |-> "closed", loading |-> FALSE, error |-> FALSE, login |-> FALSE]
    /\ UNCHANGED <<quotaAsked, queue, polls, pays, user, started>>

SetupNext ==
    \/ GoConfig \/ GoBack \/ Swap \/ AcceptAge \/ ToggleBot \/ Start \/ Return \/ Poll
    \/ SwipeLimit \/ Hide \/ LogIn \/ Upgrade \/ CheckoutFails \/ CheckoutOpens
    \/ BackFromStripe
    \/ \E n \in Names : TypeName(n) \/ AccountAnswers(n)
    \/ \E l \in Langs : HandleSpeaksChange(l) \/ HandleWantsChange(l)
    \/ \E s \in Scenarios : PickScenario(s)
    \/ \E q \in Quotas : QuotaAnswers(q)
    \/ \E q \in polls, ok \in BOOLEAN : QueueAnswers(q, ok)

SetupSpec == SetupInit /\ [][SetupNext]_setupVars

-----------------------------------------------------------------------------
\* SetupView.tsx:87-120: whatever the order in which the answers come, a count that
\* appears is the one of the pair on the screen.
Counts == queue' # queue /\ queue' # NoPair
          => queue' = <<form'.speaks, form'.wants>> /\ ~form'.bot
CountsThisPair == [][Counts]_setupVars

\* SetupView.tsx:146-151: a search for the AI teacher never leaves with a quota known
\* to be spent, and the human search it falls back to keeps no scenario.
Searches ==
    started' # started => /\ form.bot => quota # "spent"
                          /\ ~form.bot => form.scenario = "none"
TeacherWithinQuota == [][Searches]_setupVars
=============================================================================
