--------------------------------- MODULE Auth ---------------------------------
(***************************************************************************)
(* Signing in and out: the store of the signed-in account, filled at every *)
(* page load (stores/userStore.ts, AuthBootstrap), the sheet and the page  *)
(* that share one form (hooks/useAuthForm.ts, LoginSheet, app/auth), the   *)
(* two pages behind the links of the mails, and what the endpoints of      *)
(* users/handlers.go answer.                                               *)
(*                                                                         *)
(* A password is blank (too short), weak (long enough only), fit, or       *)
(* astral: eight UTF-16 units for the client, fewer characters for the     *)
(* server.  The session cookie moves with the requests and the answers.    *)
(*                                                                         *)
(* One page is followed, the last one that was loaded.  What an earlier    *)
(* page or another tab has sent goes on at the server, and may still bring *)
(* its cookie.                                                             *)
(***************************************************************************)
EXTENDS Naturals, Sequences, FiniteSets, SequencesExt

CONSTANTS Accounts, \* addresses
          Nobody,   \* no account
          Faults,   \* whether an answer may be lost or be a failure of the server
          MaxReqs,  \* bound: requests under way
          MaxLinks, \* bound: links mailed
          MaxForms  \* bound: forms sent, other than those behind a link

ASSUME AuthAssumption ==
    /\ Nobody \notin Accounts /\ Faults \in BOOLEAN
    /\ MaxReqs \in Nat \ {0, 1} /\ MaxLinks \in Nat /\ MaxForms \in Nat

VARIABLES accounts, \* server: password, if any, and session version of each account
          links,    \* server: links mailed, with the times each was honoured
          session,  \* browser: the cookie, an account and the version it was opened at
          store,    \* the account shown, and whether the page knows it yet
          view,     \* what is on screen
          authForm, \* the form of the sheet or of the page
          provs,    \* the cached list of providers
          link,     \* the link the page was opened with
          reqs,     \* requests under way: how far the server is, or its answer
          sends     \* forms sent so far, those behind a link apart

authVars == <<accounts, links, session, store, view, authForm, provs, link, reqs, sends>>

Passwords == {"blank", "weak", "fit", "astral"}
NoCookie == [acct |-> Nobody, version |-> 0]
Cookies == [acct : Accounts \cup {Nobody}, version : Nat]
SheetViews == {"landing", "email", "recover"}
PageViews == {"auth", "forgot"}
LinkViews == {"reset", "verify"}
Done == {"linkOk", "linkErr"}
Purposes == LinkViews
Owners == {"sheet", "page", "left", "link", "app", "gone"}
Kinds == {"me", "login", "signup", "forgot", "reset", "verify", "logout"}
Answers == {"waits", "held", "used", "ok", "refused", "failed"}

AuthTypeOK ==
    /\ accounts \in [Accounts -> [pwd : Passwords \cup {"none", "provider"}, version : Nat]]
    /\ links \in Seq([purpose : Purposes, acct : Accounts, live : BOOLEAN, honoured : Nat])
    /\ Len(links) <= MaxLinks
    /\ session \in Cookies
    /\ store \in [user : Accounts \cup {Nobody}, hydrated : BOOLEAN]
    /\ view \in {"app", "provider"} \cup SheetViews \cup PageViews \cup LinkViews \cup Done
    /\ authForm \in [mode : {"login", "signup"}, busy : BOOLEAN, err : BOOLEAN, sent : BOOLEAN]
    /\ provs \in {"unasked", "asked", "empty", "some"}
    /\ link \in 0..MaxLinks
    /\ reqs \subseteq [kind : Kinds, owner : Owners, cookie : Cookies, pwd : Passwords,
                       acct : Accounts \cup {Nobody}, link : 0..MaxLinks, answer : Answers]
    /\ Cardinality(reqs) <= MaxReqs /\ sends \in 0..MaxForms

-----------------------------------------------------------------------------
(* Rules of the two sides *)

PasswordValid(p) == p \in {"fit", "astral"}    \* the checklist of the client
ValidatePassword(p) == p = "fit"               \* the same rules, over characters

EmptyForm == [mode |-> "login", busy |-> FALSE, err |-> FALSE, sent |-> FALSE]

\* Whom a cookie signs in: nobody once its version is out of date.
Owner(c) == IF c.acct # Nobody /\ accounts[c.acct].version = c.version THEN c.acct ELSE Nobody

\* A signed-in visitor has nothing to do on /auth, and a sheet without provider to
\* offer starts at the address.
Settled(v, s, p) ==
    CASE v \in PageViews /\ s.hydrated /\ s.user # Nobody -> "app"
      [] v = "landing" /\ p = "empty" -> "email"
      [] OTHER -> v

\* The cookie matters to the question who one is, the link to a reset.
FormRequest(kind, owner, acct, pwd) ==
    [kind |-> kind, owner |-> owner, cookie |-> NoCookie, pwd |-> pwd, acct |-> acct,
     link |-> IF kind = "reset" THEN link ELSE 0, answer |-> "waits"]
Me(cookie) == [FormRequest("me", "app", Nobody, "blank") EXCEPT !.cookie = cookie]
SendForm(r) ==
    /\ Cardinality(reqs) < MaxReqs /\ reqs' = reqs \cup {r}
    /\ IF r.kind = "reset" THEN UNCHANGED sends    \* the links bound these
       ELSE sends < MaxForms /\ sends' = sends + 1

\* The providers are asked once per page load, by whichever needs them first.
Needed(p) == IF p = "unasked" THEN "asked" ELSE p

-----------------------------------------------------------------------------
(* Page loads *)

\* What the page has sent goes on without it, unless all it would bring is an answer
\* that nobody is left to read.
SentOff == {r \in reqs : r.kind # "me" /\ r.answer \notin {"refused", "failed"}
                         /\ ~(r.kind = "forgot" /\ r.answer = "ok")}
Orphans == {[r EXCEPT !.owner = "gone"] : r \in SentOff}

\* The account is asked for anew.
Load(v, cookie, i, also) ==
    /\ view' = v /\ link' = i /\ session' = cookie /\ UNCHANGED sends
    /\ store' = [user |-> Nobody, hydrated |-> FALSE] /\ authForm' = EmptyForm
    /\ provs' = IF v = "auth" THEN "asked" ELSE "unasked"
    /\ reqs' = Orphans \cup {Me(cookie)}
                  \cup {[FormRequest(k, "link", Nobody, "blank") EXCEPT !.link = i] : k \in also}
    /\ Cardinality(Orphans) = Cardinality(SentOff) /\ Cardinality(reqs') <= MaxReqs

AuthInit ==
    /\ accounts \in [Accounts -> {[pwd |-> p, version |-> 0] : p \in {"none", "weak"}}]
    /\ links = <<>> /\ link = 0 /\ sends = 0
    /\ session \in {NoCookie} \cup {[acct |-> a, version |-> 0] : a \in
                                       {b \in Accounts : accounts[b].pwd # "none"}}
    /\ view \in {"app", "auth"} /\ authForm = EmptyForm
    /\ store = [user |-> Nobody, hydrated |-> FALSE]
    /\ provs = IF view = "auth" THEN "asked" ELSE "unasked"
    /\ reqs = {Me(session)}

\* A mail is opened: the verification leaves by itself, the reset waits for a password.
OpenLink(i) ==
    /\ view # "provider"
    /\ Load(links[i].purpose, session, i, {"verify"} \cap {links[i].purpose})
    /\ UNCHANGED <<accounts, links>>

\* The provider sends the browser back with a session, or with an error to show.
OAuthReturns(a) ==
    /\ view = "provider"
    /\ IF a = Nobody
       THEN Load("app", session, 0, {}) /\ UNCHANGED accounts
       ELSE /\ accounts' = [accounts EXCEPT ![a].pwd = IF @ = "none" THEN "provider" ELSE @]
            /\ Load("app", [acct |-> a, version |-> accounts[a].version], 0, {})
    /\ UNCHANGED links

-----------------------------------------------------------------------------
(* Moves *)

Show(v) ==
    /\ view' = Settled(v, store, provs')
    /\ UNCHANGED <<accounts, links, session, store, link, reqs, sends>>

\* The button appears once the page knows that nobody is signed in; the form of an
\* earlier visit is not this one.
GoAuth ==
    /\ view \in {"app"} \cup Done /\ store.hydrated /\ store.user = Nobody
    /\ authForm' = EmptyForm /\ provs' = Needed(provs) /\ view' = "auth"
    /\ reqs' = {[r EXCEPT !.owner = IF @ = "page" THEN "left" ELSE @] : r \in reqs}
    /\ UNCHANGED <<accounts, links, session, store, link, sends>>

GoHome == view \in PageViews \cup Done /\ UNCHANGED <<authForm, provs>> /\ Show("app")

\* Each opening of the sheet starts from an empty form.
OpenSheet ==
    /\ view = "app" /\ store.user = Nobody
    /\ authForm' = EmptyForm /\ provs' = Needed(provs) /\ Show("landing")

CloseSheet == view \in SheetViews /\ UNCHANGED <<authForm, provs>> /\ Show("app")

ProvidersAnswer(p) == provs = "asked" /\ provs' = p /\ UNCHANGED authForm /\ Show(view)

GoTo ==
    /\ \E way \in {<<"landing", "email">>, <<"email", "landing">>, <<"email", "recover">>,
                   <<"recover", "email">>} :
           /\ view = way[1]
           /\ view = "email" /\ way[2] = "recover" => authForm.mode = "login"
           /\ view = "landing" => ~authForm.busy
           /\ authForm' = [authForm EXCEPT !.sent = FALSE] /\ UNCHANGED provs /\ Show(way[2])

\* The page goes to and fro without a look at the message.
GoForgot == view = "auth" /\ authForm.mode = "login" /\ UNCHANGED <<authForm, provs>> /\ Show("forgot")
LeaveForgot ==
    /\ view = "forgot"
    /\ authForm' \in {authForm, [authForm EXCEPT !.sent = FALSE]}
    /\ authForm' # authForm => authForm.sent
    /\ UNCHANGED provs /\ Show("auth")

-----------------------------------------------------------------------------
(* The form, and the menu *)

OnForm == view \in {"email", "auth"}
OnForgot == view \in {"recover", "forgot"} /\ ~authForm.sent
OnReset == view = "reset" /\ ~authForm.busy
OffersProviders == view \in {"landing", "auth"} /\ provs = "some"
MenuShown == /\ store.hydrated /\ store.user # Nobody
             /\ view \notin SheetViews \cup {"provider"}
OwnerOf == IF view \in SheetViews THEN "sheet" ELSE "page"

Fill(f) ==
    authForm' = f /\ UNCHANGED <<accounts, links, session, store, view, provs, link, reqs, sends>>

SwitchMode ==
    /\ OnForm
    /\ Fill([authForm EXCEPT !.mode = IF @ = "login" THEN "signup" ELSE "login", !.err = FALSE])

\* What the form lets go: an address, and a password that a signup wants good and twice.
Complete(email, pwd) ==
    /\ email # Nobody
    /\ IF authForm.mode = "login" THEN pwd # "blank" ELSE PasswordValid(pwd)

FormLeaves(r) ==
    /\ SendForm(r) /\ authForm' = [authForm EXCEPT !.err = FALSE, !.busy = TRUE]
    /\ UNCHANGED <<accounts, links, session, store, view, provs, link>>
Refuse == ~authForm.err /\ Fill([authForm EXCEPT !.err = TRUE])

\* Anything less is refused on the spot.
SubmitCredentials(email, pwd) ==
    /\ OnForm /\ ~authForm.busy
    /\ \/ Complete(email, pwd) /\ FormLeaves(FormRequest(authForm.mode, OwnerOf, email, pwd))
       \/ email = Nobody /\ pwd = "blank" /\ Refuse

SubmitForgot(email) ==
    /\ OnForgot /\ ~authForm.busy
    /\ IF email # Nobody THEN FormLeaves(FormRequest("forgot", OwnerOf, email, "blank")) ELSE Refuse

SubmitReset(pwd) ==
    /\ OnReset
    /\ IF PasswordValid(pwd) THEN FormLeaves(FormRequest("reset", "link", Nobody, pwd)) ELSE Refuse

\* The browser leaves for the provider.
StartOAuth ==
    /\ OffersProviders /\ ~authForm.busy
    /\ view' = "provider" /\ authForm' = [authForm EXCEPT !.busy = TRUE] /\ reqs' = Orphans
    /\ Cardinality(Orphans) = Cardinality(SentOff)
    /\ UNCHANGED <<accounts, links, session, store, provs, link, sends>>

Logout ==
    /\ MenuShown
    /\ SendForm(FormRequest("logout", IF view = "app" THEN "app" ELSE "link", Nobody, "blank"))
    /\ UNCHANGED <<accounts, links, session, store, view, authForm, provs, link>>

-----------------------------------------------------------------------------
(* The endpoints *)

\* Mutant: the token is read without a lock.
RowRead(i) == TRUE

\* SELECT ... FOR UPDATE waits for the transaction that has the token's row.
RowFree(i) == ~\E q \in reqs : q.link = i /\ q.answer = "held"

\* A link opens its purpose once.
Valid(i, purpose) == links[i].purpose = purpose /\ links[i].live

Mailed(purpose, a) ==
    IF Len(links) < MaxLinks
    THEN Append(links, [purpose |-> purpose, acct |-> a, live |-> TRUE, honoured |-> 0]) ELSE links

Accepts(r) ==
    CASE r.kind \in {"me", "logout", "forgot"} -> TRUE
      [] r.kind = "login" -> accounts[r.acct].pwd = r.pwd
      [] r.kind = "signup" -> accounts[r.acct].pwd = "none" /\ ValidatePassword(r.pwd)

\* The account an accepted request is about.
About(r) == IF r.kind \in LinkViews THEN links[r.link].acct
            ELSE IF r.kind = "me" THEN Owner(r.cookie) ELSE r.acct

\* The answer says whom it is about.
Served(r, answer, who) ==
    [r EXCEPT !.answer = answer, !.acct = who, !.pwd = "blank", !.link = 0,
              !.cookie = IF who = Nobody THEN NoCookie
                         ELSE [acct |-> who, version |-> accounts'[who].version]]

\* A signup mails a verification, a known address a reset.
ServeForm(r) ==
    LET yes == Accepts(r)
        who == About(r)
    IN /\ r.kind \notin LinkViews /\ r.answer = "waits"
       /\ accounts' = IF yes /\ r.kind = "signup" THEN [accounts EXCEPT ![who].pwd = r.pwd]
                      ELSE accounts
       /\ links' = IF ~yes THEN links
                   ELSE CASE r.kind = "signup" -> Mailed("verify", who)
                          [] r.kind = "forgot" /\ accounts[who].pwd # "none" -> Mailed("reset", who)
                          [] OTHER -> links
       /\ reqs' = (reqs \ {r}) \cup {Served(r, IF yes THEN "ok" ELSE "refused", who)}
       /\ UNCHANGED <<session, store, view, authForm, provs, link, sends>>

\* ConsumeToken, first statement.  A password that is too weak does not come so far.
LookUp(r) ==
    /\ r.kind \in LinkViews /\ r.answer = "waits"
    /\ UNCHANGED <<accounts, links, session, store, view, authForm, provs, link, sends>>
    /\ IF r.kind = "reset" => ValidatePassword(r.pwd)
       THEN /\ RowFree(r.link)
            /\ reqs' = (reqs \ {r}) \cup
                   {IF Valid(r.link, r.kind) THEN [r EXCEPT !.answer = "held"]
                    ELSE Served(r, "refused", About(r))}
       ELSE reqs' = (reqs \ {r}) \cup {Served(r, "refused", About(r))}

\* ConsumeToken, second statement and commit; or it is rolled back, which is refused.
Consume(r, done) ==
    /\ r.answer = "held" /\ (done \/ Faults)
    /\ UNCHANGED <<accounts, session, store, view, authForm, provs, link, sends>>
    /\ links' = IF done THEN [links EXCEPT ![r.link].live = FALSE] ELSE links
    /\ reqs' = (reqs \ {r}) \cup {IF done THEN [r EXCEPT !.answer = "used"]
                                  ELSE Served(r, "refused", About(r))}

\* SetPassword, which makes older cookies worthless, or MarkVerified, whose failure is
\* only logged; the token is used up all the same.
Honour(r, done, told) ==
    /\ r.answer = "used" /\ ((done /\ told) \/ Faults)
    /\ accounts' = IF done /\ r.kind = "reset"
                   THEN [accounts EXCEPT ![About(r)].pwd = r.pwd, ![About(r)].version = @ + 1]
                   ELSE accounts
    /\ links' = IF done THEN [links EXCEPT ![r.link].honoured = @ + 1] ELSE links
    /\ reqs' = (reqs \ {r}) \cup
           {Served(r, IF told /\ (r.kind = "reset" => done) THEN "ok" ELSE "failed", About(r))}
    /\ UNCHANGED <<session, store, view, authForm, provs, link, sends>>

-----------------------------------------------------------------------------
(* The answers *)

\* The cookie an answer carries.
Jar(r) ==
    CASE r.answer # "ok" \/ r.kind \in {"me", "forgot"} -> session
      [] r.kind = "logout" -> NoCookie
      [] OTHER -> r.cookie

\* The store takes what it is told, in the order in which it is told.
Told(r) ==
    CASE r.kind = "me" -> [user |-> IF r.answer = "ok" THEN r.acct ELSE Nobody, hydrated |-> TRUE]
      [] r.kind = "logout" -> [store EXCEPT !.user = Nobody]
      [] r.kind # "forgot" /\ r.answer = "ok" -> [user |-> r.acct, hydrated |-> TRUE]
      [] OTHER -> store

\* What is open when the answer comes hears it, whichever opening it answers.
Hears(r) == \/ r.owner = "sheet" /\ view \notin PageViews \cup LinkViews \cup Done
            \/ r.owner = "page" /\ view \in PageViews
            \/ r.owner = "link" /\ view \in LinkViews
Heard(r) ==
    IF ~Hears(r) \/ r.kind \in {"me", "logout"} THEN authForm
    ELSE [authForm EXCEPT !.busy = FALSE,
                      !.err = @ \/ r.answer # "ok",
                      !.sent = @ \/ (r.kind = "forgot" /\ r.answer = "ok")]

\* A success closes the sheet, or leads home from wherever one is by then.
After(r) ==
    CASE r.kind \in {"login", "signup"} /\ r.answer = "ok" ->
             IF (r.owner = "sheet") = (view \in SheetViews) THEN "app" ELSE view
      [] r.kind \in LinkViews /\ Hears(r) /\ (r.kind = "verify" \/ r.answer # "failed") ->
             IF r.answer = "ok" THEN "linkOk" ELSE "linkErr"
      [] r.kind = "logout" -> IF r.owner = "app" \/ view \in SheetViews THEN view ELSE "app"
      [] OTHER -> view

HasAnswer(r) == r.answer \notin {"waits", "held", "used"}

Answer(r) ==
    /\ HasAnswer(r) /\ r.owner # "gone"
    /\ reqs' = reqs \ {r} /\ session' = Jar(r) /\ store' = Told(r)
    /\ authForm' = Heard(r) /\ view' = Settled(After(r), Told(r), provs)
    /\ UNCHANGED <<accounts, links, provs, link, sends>>

\* The browser has the answer of another tab, perhaps that of a page that was left; or
\* the request is lost, and what the server had begun is rolled back.
AnswerGone(r, heard) ==
    /\ r.owner = "gone" /\ (heard => HasAnswer(r))
    /\ reqs' = reqs \ {r} /\ session' = IF heard THEN Jar(r) ELSE session
    /\ UNCHANGED <<accounts, links, store, view, authForm, provs, link, sends>>

\* The request or its answer is lost, and the server may go on with it; or the server
\* stumbles: a logout that is answered with an error is taken for done, one that is not
\* answered is not.
Fail(r, heard) ==
    /\ Faults /\ r.owner # "gone" /\ r.answer # "failed"
    /\ heard => r.answer \notin {"held", "used"}
    /\ \/ reqs' = reqs \ {r}
       \/ ~heard /\ [r EXCEPT !.owner = "gone"] \notin reqs
          /\ reqs' = (reqs \ {r}) \cup {[r EXCEPT !.owner = "gone"]}
    /\ IF r.kind = "logout" /\ ~heard
       THEN UNCHANGED <<session, store, authForm, view>>
       ELSE LET f == [r EXCEPT !.answer = IF heard /\ r.kind \in LinkViews THEN "refused"
                                          ELSE "failed"]
            IN /\ session' = Jar(f) /\ store' = Told(f)
               /\ authForm' = Heard(f) /\ view' = Settled(After(f), Told(f), provs)
    /\ UNCHANGED <<accounts, links, provs, link, sends>>

AuthNext ==
    \/ GoAuth \/ GoHome \/ OpenSheet \/ CloseSheet \/ GoTo \/ GoForgot \/ LeaveForgot
    \/ SwitchMode \/ StartOAuth \/ Logout
    \/ \E a \in Accounts \cup {Nobody} :
           SubmitForgot(a) \/ \E p \in Passwords : SubmitCredentials(a, p)
    \/ \E p \in Passwords : SubmitReset(p)
    \/ \E i \in DOMAIN links : OpenLink(i)
    \/ \E p \in {"empty", "some"} : ProvidersAnswer(p)
    \/ \E a \in Accounts \cup {Nobody} : OAuthReturns(a)
    \/ \E r \in reqs : ServeForm(r) \/ LookUp(r) \/ Answer(r)
    \/ \E r \in reqs, b \in BOOLEAN : Consume(r, b) \/ AnswerGone(r, b) \/ Fail(r, b)
    \/ \E r \in reqs, done, told \in BOOLEAN : Honour(r, done, told)

AuthSpec == AuthInit /\ [][AuthNext]_authVars

-----------------------------------------------------------------------------
\* tokens.go:54-97 behind app/auth/reset and app/auth/verify: a mailed link changes the
\* account at most once, although the same link is sent by several tabs, by pages that
\* were left and after answers that were lost, and although the token is looked up, used
\* up and honoured in statements of their own.
LinkOnce == \A i \in DOMAIN links : links[i].honoured <= 1
===============================================================================
