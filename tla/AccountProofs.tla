----------------------------- MODULE AccountProofs -----------------------------
(***************************************************************************)
(* Theorems about what a visitor keeps with an account: the session, the   *)
(* notebook, the form of the account page and its photos; and Premium.     *)
(***************************************************************************)
EXTENDS Auth, Vocab, Account, Photos, Billing, CollectionLemmas


-----------------------------------------------------------------------------
(* Signing in *)

Users == [pwd : Passwords \cup {"none", "provider"}, version : Nat]
Stores == [user : Accounts \cup {Nobody}, hydrated : BOOLEAN]
Views == {"app", "provider"} \cup SheetViews \cup PageViews \cup LinkViews \cup Done
AuthForms == [mode : {"login", "signup"}, busy : BOOLEAN, err : BOOLEAN, sent : BOOLEAN]
Mails == [purpose : Purposes, acct : Accounts, live : BOOLEAN, honoured : Nat]
AuthRequests == [kind : Kinds, owner : Owners, cookie : Cookies, pwd : Passwords,
                 acct : Accounts \cup {Nobody}, link : 0..MaxLinks, answer : Answers]

IdentityOK == accounts \in [Accounts -> Users] /\ session \in Cookies /\ store \in Stores

LinksOK == links \in Seq(Mails) /\ Len(links) <= MaxLinks

PageOK == /\ view \in Views /\ authForm \in AuthForms
          /\ provs \in {"unasked", "asked", "empty", "some"}
          /\ link \in 0..MaxLinks /\ (view \in LinkViews => link \in 1..Len(links))
          /\ sends \in 0..MaxForms

\* The server is between the lookup of the token and what the link is for.
Opening(r) == r.answer \in {"held", "used"}

\* A form names an address, and what is not answered about a link is about a mailed one.
RequestOK(r) == /\ r.kind \in {"login", "signup", "forgot"} => r.acct \in Accounts
                /\ r.kind \in LinkViews /\ ~HasAnswer(r) => r.link \in 1..Len(links)
                /\ Opening(r) => r.kind \in LinkViews

ReqsOK == /\ reqs \subseteq AuthRequests /\ \A r \in reqs : RequestOK(r)
          /\ IsFiniteSet(reqs) /\ Cardinality(reqs) <= MaxReqs

AuthInv == IdentityOK /\ LinksOK /\ PageOK /\ ReqsOK

\* A link that was honoured is not live and nobody opens it; one request at a time has it
\* open, and has made it worthless before it honours it.
OpenedOnce ==
    \A i \in 1..Len(links) :
        /\ links[i].honoured <= 1
        /\ links[i].honoured > 0 => ~links[i].live
        /\ \A r \in reqs : Opening(r) /\ r.link = i =>
              links[i].honoured = 0 /\ (links[i].live <=> r.answer = "held")
        /\ \A q, r \in reqs : Opening(q) /\ Opening(r) /\ q.link = i /\ r.link = i => q = r

LEMMA AuthBounds ==
    MaxReqs \in Nat /\ MaxReqs >= 2 /\ MaxLinks \in Nat /\ MaxForms \in Nat
<1>1. MaxReqs \in Nat \ {0, 1}
      BY AuthAssumption DEF AuthAssumption
<1>2. MaxLinks \in Nat /\ MaxForms \in Nat
      BY AuthAssumption DEF AuthAssumption
<1> QED BY <1>1, <1>2

LEMMA CookieOK ==
    /\ NoCookie \in Cookies
    /\ \A a \in Accounts \cup {Nobody}, n \in Nat : [acct |-> a, version |-> n] \in Cookies
BY DEF NoCookie, Cookies

LEMMA EmptyFormOK == EmptyForm \in AuthForms
BY DEF EmptyForm, AuthForms

LEMMA FormRequestOK ==
    ASSUME NEW kind \in Kinds, NEW owner \in Owners, NEW acct \in Accounts \cup {Nobody},
           NEW pwd \in Passwords, link \in 0..MaxLinks
    PROVE  LET r == FormRequest(kind, owner, acct, pwd)
           IN r \in AuthRequests /\ r.kind = kind /\ r.acct = acct /\ r.answer = "waits"
              /\ (kind = "reset" => r.link = link)
<1>1. 0 \in 0..MaxLinks
      BY AuthBounds
<1> QED BY <1>1, CookieOK DEF FormRequest, AuthRequests, Answers

\* A request keeps all but its owner when its page is left.
LEMMA OwnerOK ==
    ASSUME NEW r \in AuthRequests, NEW o \in Owners
    PROVE  LET q == [r EXCEPT !.owner = o]
           IN /\ q \in AuthRequests /\ q.kind = r.kind /\ q.acct = r.acct
              /\ q.answer = r.answer /\ q.link = r.link
BY Zenon DEF AuthRequests

LEMMA SettledOK ==
    ASSUME NEW v, NEW s, NEW p
    PROVE  Settled(v, s, p) \in {v, "app", "email"}
BY DEF Settled

-----------------------------------------------------------------------------
(* What an action may leave alone *)

LEMMA LinksRest == LinksOK /\ UNCHANGED links => LinksOK'
BY Zenon DEF LinksOK

LEMMA ReqsRest == ReqsOK /\ UNCHANGED <<links, reqs>> => ReqsOK'
BY Zenon DEF ReqsOK, RequestOK

\* What outlives its page.
LEMMA OrphansOK ==
    ASSUME ReqsOK
    PROVE  /\ IsFiniteSet(Orphans) /\ Cardinality(Orphans) <= MaxReqs
           /\ \A q \in Orphans :
                 /\ q \in AuthRequests /\ RequestOK(q)
                 /\ \E r \in reqs : /\ q = [r EXCEPT !.owner = "gone"]
                                   /\ q.answer = r.answer /\ q.link = r.link
<1> DEFINE f == [r \in SentOff |-> [r EXCEPT !.owner = "gone"]]
<1>1. SentOff \subseteq reqs /\ reqs \subseteq AuthRequests /\ IsFiniteSet(reqs)
      BY DEF SentOff, ReqsOK
<1>2. IsFiniteSet(SentOff) /\ Cardinality(SentOff) <= Cardinality(reqs)
      BY <1>1, FS_Subset
<1>3. IsFiniteSet(Orphans) /\ Cardinality(Orphans) <= Cardinality(SentOff)
  <2>1. f = [x \in SentOff |-> f[x]] /\ Orphans = {f[x] : x \in SentOff}
        BY DEF Orphans
  <2> HIDE DEF f
  <2> QED BY <1>2, <2>1, ImageIsFinite
<1>4. Cardinality(Orphans) <= MaxReqs
  <2>1. /\ Cardinality(reqs) \in Nat /\ Cardinality(SentOff) \in Nat
        /\ Cardinality(Orphans) \in Nat
        BY <1>1, <1>2, <1>3, FS_CardinalityType
  <2>2. Cardinality(reqs) <= MaxReqs /\ MaxReqs \in Nat
        BY AuthBounds DEF ReqsOK
  <2> QED BY <1>2, <1>3, <2>1, <2>2
<1>5. ASSUME NEW r \in SentOff
      PROVE  LET q == [r EXCEPT !.owner = "gone"]
             IN /\ q \in AuthRequests /\ RequestOK(q) /\ r \in reqs
                /\ q.answer = r.answer /\ q.link = r.link
  <2> DEFINE q == [r EXCEPT !.owner = "gone"]
  <2>1. r \in reqs /\ r \in AuthRequests /\ RequestOK(r) /\ "gone" \in Owners
        BY <1>1 DEF ReqsOK, Owners
  <2>2. /\ q \in AuthRequests /\ q.kind = r.kind /\ q.acct = r.acct
        /\ q.answer = r.answer /\ q.link = r.link
        BY <2>1, OwnerOK
  <2> HIDE DEF q
  <2>3. RequestOK(q)
        BY <2>1, <2>2, Zenon DEF RequestOK, Opening, HasAnswer
  <2> QED BY <2>1, <2>2, <2>3 DEF q
<1> QED BY <1>3, <1>4, <1>5 DEF Orphans

\* A screen that is not behind a link, or the same one.
LEMMA PageKeeps ==
    ASSUME PageOK, UNCHANGED <<links, link, sends>>, view' \in Views,
           view' \in LinkViews => view' = view, authForm' \in AuthForms,
           provs' \in {"unasked", "asked", "empty", "some"}
    PROVE  PageOK'
BY Zenon DEF PageOK

LEMMA ShowKeeps ==
    ASSUME AuthInv, NEW v \in Views, v \in LinkViews => v = view, Show(v),
           authForm' \in AuthForms, provs' \in {"unasked", "asked", "empty", "some"}
    PROVE  AuthInv'
<1>1. /\ UNCHANGED <<accounts, links, session, store, link, reqs, sends>>
      /\ view' \in {v, "app", "email"}
      BY SettledOK DEF Show
<1>2. view' \in Views /\ (view' \in LinkViews => view' = view)
      BY <1>1 DEF Views, SheetViews, LinkViews
<1>3. PageOK'
      BY <1>1, <1>2, PageKeeps DEF AuthInv
<1> QED BY <1>1, <1>3, LinksRest, ReqsRest DEF AuthInv, IdentityOK

LEMMA FillKeeps ==
    ASSUME AuthInv, NEW f \in AuthForms, Fill(f)
    PROVE  AuthInv'
<1>1. PageOK'
      BY PageKeeps DEF AuthInv, Fill, PageOK
<1> QED BY <1>1, LinksRest, ReqsRest DEF Fill, AuthInv, IdentityOK

\* The form with one of its flags set.
LEMMA FlagOK ==
    ASSUME NEW f \in AuthForms, NEW b \in BOOLEAN
    PROVE  /\ [f EXCEPT !.sent = b] \in AuthForms /\ [f EXCEPT !.err = b] \in AuthForms
           /\ [f EXCEPT !.busy = b] \in AuthForms
           /\ [f EXCEPT !.err = FALSE, !.busy = TRUE] \in AuthForms
           /\ \A m \in {"login", "signup"} :
                 [f EXCEPT !.mode = m, !.err = FALSE] \in AuthForms
BY Zenon DEF AuthForms

-----------------------------------------------------------------------------
(* Moves *)

LEMMA MovesKeep ==
    ASSUME AuthInv, \/ GoHome \/ OpenSheet \/ CloseSheet \/ GoForgot \/ LeaveForgot \/ GoTo
                    \/ \E p \in {"empty", "some"} : ProvidersAnswer(p)
    PROVE  AuthInv'
<1> DEFINE Provs == {"unasked", "asked", "empty", "some"}
<1>0. authForm \in AuthForms /\ provs \in Provs /\ Needed(provs) \in Provs /\ view \in Views
      BY DEF AuthInv, PageOK, Needed
<1>1. [authForm EXCEPT !.sent = FALSE] \in AuthForms
      BY <1>0, FlagOK
<1>2. {"app", "landing", "forgot", "auth", "email", "recover"} \subseteq Views \ LinkViews
      BY DEF Views, SheetViews, PageViews, LinkViews, Done
<1>3. CASE GoHome \/ CloseSheet
      BY <1>0, <1>2, <1>3, ShowKeeps DEF GoHome, CloseSheet
<1>4. CASE OpenSheet
      BY <1>0, <1>2, <1>4, ShowKeeps, EmptyFormOK DEF OpenSheet
<1>5. CASE GoForgot
      BY <1>0, <1>2, <1>5, ShowKeeps DEF GoForgot
<1>6. CASE LeaveForgot
  <2>1. authForm' \in AuthForms /\ provs' \in Provs /\ Show("auth")
        BY <1>0, <1>1, <1>6 DEF LeaveForgot
  <2> QED BY <1>2, <2>1, ShowKeeps
<1>7. CASE GoTo
  <2>1. /\ authForm' \in AuthForms /\ provs' \in Provs
        /\ \E v \in {"email", "landing", "recover"} : Show(v)
        BY <1>0, <1>1, <1>7 DEF GoTo
  <2> QED BY <1>2, <2>1, ShowKeeps
<1>8. ASSUME NEW p \in {"empty", "some"}, ProvidersAnswer(p) PROVE AuthInv'
  <2>1. authForm' \in AuthForms /\ provs' \in Provs /\ Show(view)
        BY <1>0, <1>8 DEF ProvidersAnswer
  <2> QED BY <1>0, <2>1, ShowKeeps
<1> QED BY <1>3, <1>4, <1>5, <1>6, <1>7, <1>8

LEMMA FillsKeep ==
    ASSUME AuthInv, SwitchMode \/ Refuse
    PROVE  AuthInv'
<1>1. authForm \in AuthForms /\ authForm.mode \in {"login", "signup"}
      BY DEF AuthInv, PageOK, AuthForms
<1>2. CASE SwitchMode
  <2>1. PICK m \in {"login", "signup"} : Fill([authForm EXCEPT !.mode = m, !.err = FALSE])
    <3>1. Fill([authForm EXCEPT !.mode = IF authForm.mode = "login" THEN "signup" ELSE "login",
                                !.err = FALSE])
          BY <1>1, <1>2, Zenon DEF SwitchMode
    <3> QED BY <3>1, Zenon
  <2> QED BY <1>1, <2>1, FlagOK, FillKeeps
<1>3. CASE Refuse
      BY <1>1, <1>3, FlagOK, FillKeeps DEF Refuse
<1> QED BY <1>2, <1>3

-----------------------------------------------------------------------------
(* Requests that leave *)

LEMMA SendFormKeeps ==
    ASSUME AuthInv, UNCHANGED <<accounts, links, session, store, view, provs, link>>,
           authForm' \in AuthForms,
           NEW r \in AuthRequests, RequestOK(r), SendForm(r)
    PROVE  AuthInv'
<1>1. /\ Cardinality(reqs) < MaxReqs /\ reqs' = reqs \cup {r}
      /\ sends' = sends \/ (sends < MaxForms /\ sends' = sends + 1)
      BY Zenon DEF SendForm
<1>2. ReqsOK'
  <2>1. IsFiniteSet(reqs) /\ Cardinality(reqs) \in Nat /\ MaxReqs \in Nat
        BY FS_CardinalityType, AuthBounds DEF AuthInv, ReqsOK
  <2>2. IsFiniteSet(reqs') /\ Cardinality(reqs') <= Cardinality(reqs) + 1
    <3> DEFINE R == reqs \cup {r}
    <3>1. IsFiniteSet(R) /\ (Cardinality(R) = Cardinality(reqs)
                             \/ Cardinality(R) = Cardinality(reqs) + 1)
          BY <2>1, FS_AddElement
    <3>2. reqs' = R
          BY <1>1
    <3> HIDE DEF R
    <3> QED BY <2>1, <3>1, <3>2
  <2>3. Cardinality(reqs') <= MaxReqs
    <3>1. Cardinality(reqs') \in Nat
          BY <2>2, FS_CardinalityType
    <3> QED BY <1>1, <2>1, <2>2, <3>1
  <2>4. \A q \in reqs' : q \in AuthRequests /\ RequestOK(q)'
        BY <1>1, Zenon DEF AuthInv, ReqsOK, RequestOK
  <2> QED BY <2>2, <2>3, <2>4, Zenon DEF ReqsOK
<1>3. PageOK'
  <2>1. sends' \in 0..MaxForms
    <3>1. sends \in 0..MaxForms /\ MaxForms \in Nat
          BY AuthBounds DEF AuthInv, PageOK
    <3> QED BY <1>1, <3>1
  <2> QED BY <2>1, Zenon DEF AuthInv, PageOK
<1> QED BY <1>2, <1>3, LinksRest DEF AuthInv, IdentityOK

LEMMA LeavesKeeps ==
    ASSUME AuthInv, NEW r \in AuthRequests, RequestOK(r), FormLeaves(r)
    PROVE  AuthInv'
<1>1. authForm' \in AuthForms
      BY FlagOK DEF FormLeaves, AuthInv, PageOK
<1> QED BY <1>1, SendFormKeeps DEF FormLeaves

LEMMA FormsKeep ==
    ASSUME AuthInv, \/ Logout
                    \/ \E a \in Accounts \cup {Nobody} :
                           SubmitForgot(a) \/ \E p \in Passwords : SubmitCredentials(a, p)
                    \/ \E p \in Passwords : SubmitReset(p)
    PROVE  AuthInv'
<1>0. /\ link \in 0..MaxLinks /\ authForm.mode \in {"login", "signup"}
      /\ view \in LinkViews => link \in 1..Len(links)
      /\ OwnerOf \in Owners /\ "link" \in Owners /\ "app" \in Owners
      /\ Nobody \in Accounts \cup {Nobody} /\ "blank" \in Passwords
      BY DEF AuthInv, PageOK, AuthForms, OwnerOf, Owners, Passwords
<1>1. CASE Logout
  <2>1. PICK o \in Owners : SendForm(FormRequest("logout", o, Nobody, "blank"))
        BY <1>0, <1>1 DEF Logout
  <2> DEFINE r == FormRequest("logout", o, Nobody, "blank")
  <2>2. r \in AuthRequests /\ r.kind = "logout" /\ r.answer = "waits"
        BY <1>0, FormRequestOK DEF Kinds
  <2>3. UNCHANGED <<accounts, links, session, store, view, authForm, provs, link>>
        BY <1>1 DEF Logout
  <2>4. authForm' \in AuthForms
        BY <2>3 DEF AuthInv, PageOK
  <2> HIDE DEF r
  <2>5. RequestOK(r)
        BY <2>2 DEF RequestOK, LinkViews, Opening
  <2> QED BY <2>1, <2>2, <2>3, <2>4, <2>5, SendFormKeeps DEF r
<1>2. ASSUME NEW a \in Accounts \cup {Nobody}, SubmitForgot(a) PROVE AuthInv'
  <2> DEFINE r == FormRequest("forgot", OwnerOf, a, "blank")
  <2>1. r \in AuthRequests /\ r.kind = "forgot" /\ r.acct = a /\ r.answer = "waits"
        BY <1>0, FormRequestOK DEF Kinds
  <2>2. Refuse \/ (a # Nobody /\ FormLeaves(r))
        BY <1>2 DEF SubmitForgot
  <2> HIDE DEF r
  <2>3. a # Nobody => RequestOK(r)
        BY <2>1 DEF RequestOK, LinkViews, Opening
  <2> QED BY <2>1, <2>2, <2>3, LeavesKeeps, FillsKeep
<1>3. ASSUME NEW a \in Accounts \cup {Nobody}, NEW p \in Passwords, SubmitCredentials(a, p)
      PROVE  AuthInv'
  <2> DEFINE r == FormRequest(authForm.mode, OwnerOf, a, p)
  <2>1. r \in AuthRequests /\ r.kind = authForm.mode /\ r.acct = a /\ r.answer = "waits"
        BY <1>0, FormRequestOK DEF Kinds
  <2>2. Refuse \/ (a # Nobody /\ FormLeaves(r))
        BY <1>3 DEF SubmitCredentials, Complete
  <2> HIDE DEF r
  <2>3. a # Nobody => RequestOK(r)
        BY <1>0, <2>1 DEF RequestOK, LinkViews, Opening
  <2> QED BY <2>1, <2>2, <2>3, LeavesKeeps, FillsKeep
<1>4. ASSUME NEW p \in Passwords, SubmitReset(p) PROVE AuthInv'
  <2> DEFINE r == FormRequest("reset", "link", Nobody, p)
  <2>1. r \in AuthRequests /\ r.kind = "reset" /\ r.link = link /\ r.answer = "waits"
        BY <1>0, FormRequestOK DEF Kinds
  <2>2. (Refuse \/ FormLeaves(r)) /\ view = "reset"
        BY <1>4 DEF SubmitReset, OnReset
  <2> HIDE DEF r
  <2>3. RequestOK(r)
        BY <1>0, <2>1, <2>2 DEF RequestOK, LinkViews, Opening
  <2> QED BY <2>1, <2>2, <2>3, LeavesKeeps, FillsKeep
<1> QED BY <1>1, <1>2, <1>3, <1>4

\* The browser leaves, and what was under way with it.
LEMMA StartOAuthKeeps ==
    ASSUME AuthInv, StartOAuth
    PROVE  AuthInv'
<1>1. /\ view' = "provider" /\ reqs' = Orphans
      /\ authForm' = [authForm EXCEPT !.busy = TRUE]
      /\ UNCHANGED <<accounts, links, session, store, provs, link, sends>>
      BY Zenon DEF StartOAuth
<1>2. PageOK'
  <2>1. authForm' \in AuthForms
        BY <1>1, FlagOK DEF AuthInv, PageOK
  <2>2. view' \in Views \ LinkViews
        BY <1>1 DEF Views, LinkViews
  <2> QED BY <1>1, <2>1, <2>2, PageKeeps DEF AuthInv, PageOK
<1>3. ReqsOK'
  <2>1. /\ IsFiniteSet(reqs') /\ Cardinality(reqs') <= MaxReqs
        /\ \A q \in reqs' : q \in AuthRequests /\ RequestOK(q)
        BY <1>1, OrphansOK DEF AuthInv
  <2> QED BY <1>1, <2>1, Zenon DEF ReqsOK, RequestOK
<1> QED BY <1>1, <1>2, <1>3, LinksRest DEF AuthInv, IdentityOK

LEMMA GoAuthKeeps ==
    ASSUME AuthInv, GoAuth
    PROVE  AuthInv'
<1> DEFINE g(r) == [r EXCEPT !.owner = IF @ = "page" THEN "left" ELSE @]
           f == [r \in reqs |-> g(r)]
<1>1. /\ authForm' = EmptyForm /\ provs' = Needed(provs) /\ view' = "auth"
      /\ UNCHANGED <<accounts, links, session, store, link, sends>>
      /\ reqs' = {g(r) : r \in reqs}
      BY DEF GoAuth
<1>2. \A r \in AuthRequests :
         /\ g(r) \in AuthRequests /\ g(r).kind = r.kind /\ g(r).acct = r.acct
         /\ g(r).answer = r.answer /\ g(r).link = r.link
  <2> SUFFICES ASSUME NEW r \in AuthRequests
               PROVE  /\ g(r) \in AuthRequests /\ g(r).kind = r.kind /\ g(r).acct = r.acct
                      /\ g(r).answer = r.answer /\ g(r).link = r.link
      OBVIOUS
  <2> DEFINE o == IF r.owner = "page" THEN "left" ELSE r.owner
  <2>1. o \in Owners
        BY DEF AuthRequests, Owners
  <2>2. g(r) = [r EXCEPT !.owner = o]
        OBVIOUS
  <2> HIDE DEF g, o
  <2> QED BY <2>1, <2>2, Zenon DEF AuthRequests
<1>3. IsFiniteSet(reqs') /\ Cardinality(reqs') <= Cardinality(reqs)
  <2>1. f = [x \in reqs |-> f[x]] /\ reqs' = {f[x] : x \in reqs}
        BY <1>1
  <2>2. IsFiniteSet(reqs)
        BY DEF AuthInv, ReqsOK
  <2> HIDE DEF f
  <2> QED BY <2>1, <2>2, ImageIsFinite
<1> HIDE DEF g
<1>4. ReqsOK'
  <2>1. Cardinality(reqs') <= MaxReqs
    <3>1. Cardinality(reqs) \in Nat /\ Cardinality(reqs') \in Nat
          BY <1>3, FS_CardinalityType DEF AuthInv, ReqsOK
    <3>2. Cardinality(reqs) <= MaxReqs /\ MaxReqs \in Nat
          BY AuthBounds DEF AuthInv, ReqsOK
    <3> QED BY <1>3, <3>1, <3>2
  <2>2. \A q \in reqs' : q \in AuthRequests /\ RequestOK(q)'
    <3> SUFFICES ASSUME NEW r \in reqs PROVE g(r) \in AuthRequests /\ RequestOK(g(r))'
        BY <1>1
    <3>1. r \in AuthRequests /\ RequestOK(r)
          BY DEF AuthInv, ReqsOK
    <3> QED BY <1>1, <1>2, <3>1, Zenon DEF RequestOK, Opening, HasAnswer
  <2> QED BY <1>3, <2>1, <2>2, Zenon DEF ReqsOK
<1>5. PageOK'
  <2>1. view' \in Views \ LinkViews
        BY <1>1 DEF Views, PageViews, LinkViews
  <2>2. provs' \in {"unasked", "asked", "empty", "some"}
        BY <1>1 DEF AuthInv, PageOK, Needed
  <2> QED BY <1>1, <2>1, <2>2, EmptyFormOK, PageKeeps DEF AuthInv
<1> QED BY <1>1, <1>4, <1>5, LinksRest DEF AuthInv, IdentityOK

-----------------------------------------------------------------------------
(* Page loads *)

LEMMA LoadKeeps ==
    ASSUME AuthInv, UNCHANGED links, accounts' \in [Accounts -> Users],
           NEW v \in Views, NEW cookie \in Cookies, NEW i \in 0..MaxLinks,
           NEW also \in SUBSET {"verify"}, Load(v, cookie, i, also),
           v \in LinkViews \/ also # {} => i \in 1..Len(links)
    PROVE  AuthInv'
<1> DEFINE me == Me(cookie)
           verify == [FormRequest("verify", "link", Nobody, "blank") EXCEPT !.link = i]
<1>1. /\ view' = v /\ link' = i /\ session' = cookie /\ UNCHANGED sends
      /\ store' = [user |-> Nobody, hydrated |-> FALSE] /\ authForm' = EmptyForm
      /\ provs' = IF v = "auth" THEN "asked" ELSE "unasked"
      /\ reqs' = Orphans \cup {me}
                    \cup {[FormRequest(k, "link", Nobody, "blank") EXCEPT !.link = i] : k \in also}
      /\ Cardinality(reqs') <= MaxReqs
      BY Zenon DEF Load
<1>2. /\ me \in AuthRequests /\ me.kind = "me" /\ me.answer = "waits"
      /\ verify \in AuthRequests /\ verify.kind = "verify" /\ verify.link = i
      /\ verify.answer = "waits"
  <2>1. link \in 0..MaxLinks /\ "me" \in Kinds /\ "verify" \in Kinds /\ "app" \in Owners
        /\ "link" \in Owners /\ Nobody \in Accounts \cup {Nobody} /\ "blank" \in Passwords
        BY DEF AuthInv, PageOK, Kinds, Owners, Passwords
  <2> DEFINE m == FormRequest("me", "app", Nobody, "blank")
             w == FormRequest("verify", "link", Nobody, "blank")
  <2>4. m \in AuthRequests /\ m.kind = "me" /\ m.answer = "waits"
        BY <2>1, FormRequestOK
  <2>5. w \in AuthRequests /\ w.kind = "verify" /\ w.answer = "waits"
        BY <2>1, FormRequestOK
  <2>2. /\ m \in AuthRequests /\ m.kind = "me" /\ w \in AuthRequests /\ w.kind = "verify"
        /\ m.answer = "waits" /\ w.answer = "waits"
        BY <2>4, <2>5
  <2>3. me = [m EXCEPT !.cookie = cookie] /\ verify = [w EXCEPT !.link = i]
        BY DEF Me
  <2> HIDE DEF m, w, me, verify
  <2> QED BY <2>2, <2>3, Zenon DEF AuthRequests
<1>3. reqs' = Orphans \cup {me} \/ (reqs' = Orphans \cup {me, verify} /\ also # {})
  <2>1. also = {} \/ also = {"verify"}
        OBVIOUS
  <2>2. CASE also = {}
        BY <1>1, <2>2, Zenon
  <2>3. CASE also = {"verify"}
    <3>1. {[FormRequest(k, "link", Nobody, "blank") EXCEPT !.link = i] : k \in also} = {verify}
          BY <2>3, Zenon
    <3> HIDE DEF me, verify
    <3> QED BY <1>1, <2>3, <3>1
  <2> QED BY <2>1, <2>2, <2>3
<1> HIDE DEF me, verify
<1>4. ReqsOK'
  <2>1. IsFiniteSet(reqs')
    <3>1. IsFiniteSet(Orphans) /\ IsFiniteSet({me}) /\ IsFiniteSet({me, verify})
          BY OrphansOK, TwoAreFinite DEF AuthInv
    <3>2. IsFiniteSet(Orphans \cup {me})
          BY <3>1, FS_Union
    <3>3. IsFiniteSet(Orphans \cup {me, verify})
          BY <3>1, FS_Union
    <3> QED BY <1>3, <3>2, <3>3
  <2>2. \A q \in reqs' : q \in Orphans \/ q = me \/ (q = verify /\ also # {})
        BY <1>3
  <2>3. ASSUME NEW q \in {me, verify}, q = verify => also # {}
        PROVE  q \in AuthRequests /\ RequestOK(q)
    <3>0. q = me \/ q = verify
          BY <2>3
    <3>2. CASE q = me
          BY <1>2, <3>2 DEF RequestOK, Opening, LinkViews
    <3>1. CASE q = verify
      <4>1. i \in 1..Len(links)
            BY <2>3, <3>1
      <4> QED BY <1>2, <3>1, <4>1 DEF RequestOK, Opening
    <3> QED BY <3>0, <3>1, <3>2
  <2>4. \A q \in reqs' : q \in AuthRequests /\ RequestOK(q)
    <3>1. me # verify
          BY <1>2
    <3>2. \A q \in Orphans : q \in AuthRequests /\ RequestOK(q)
          BY OrphansOK DEF AuthInv
    <3>3. me \in AuthRequests /\ RequestOK(me)
          BY <2>3, <3>1
    <3>4. also # {} => verify \in AuthRequests /\ RequestOK(verify)
          BY <2>3
    <3> QED BY <2>2, <3>2, <3>3, <3>4, Zenon
  <2>5. \A q \in reqs' : q \in AuthRequests /\ RequestOK(q)'
        BY <2>4, Zenon DEF RequestOK
  <2> QED BY <1>1, <2>1, <2>5, Zenon DEF ReqsOK
<1>5. PageOK'
  <2>1. view' \in LinkViews => link' \in 1..Len(links')
        BY <1>1
  <2>2. /\ view' \in Views /\ authForm' \in AuthForms /\ link' \in 0..MaxLinks
        /\ sends' \in 0..MaxForms
        BY <1>1, EmptyFormOK DEF AuthInv, PageOK
  <2>3. provs' \in {"unasked", "asked", "empty", "some"}
        BY <1>1
  <2> QED BY <2>1, <2>2, <2>3, Zenon DEF PageOK
<1>6. IdentityOK'
  <2>1. store' \in Stores
        BY <1>1 DEF Stores
  <2> QED BY <1>1, <2>1 DEF IdentityOK
<1> QED BY <1>4, <1>5, <1>6, LinksRest DEF AuthInv

LEMMA LoadsKeep ==
    ASSUME AuthInv, \/ \E i \in DOMAIN links : OpenLink(i)
                    \/ \E a \in Accounts \cup {Nobody} : OAuthReturns(a)
    PROVE  AuthInv'
<1>0. /\ accounts \in [Accounts -> Users] /\ session \in Cookies
      /\ links \in Seq(Mails) /\ Len(links) <= MaxLinks /\ MaxLinks \in Nat
      BY AuthBounds DEF AuthInv, IdentityOK, LinksOK
<1>1. ASSUME NEW i \in DOMAIN links, OpenLink(i) PROVE AuthInv'
  <2>1. i \in 1..Len(links) /\ i \in 0..MaxLinks
        BY <1>0
  <2>2. links[i].purpose \in Views
    <3>1. links[i] \in Mails
          BY <1>0
    <3> QED BY <3>1 DEF Mails, Purposes, Views
  <2>3. /\ Load(links[i].purpose, session, i, {"verify"} \cap {links[i].purpose})
        /\ UNCHANGED <<accounts, links>>
        BY <1>1, Zenon DEF OpenLink
  <2> DEFINE also == {"verify"} \cap {links[i].purpose}
  <2>4. also \in SUBSET {"verify"}
        OBVIOUS
  <2> HIDE DEF also
  <2> QED BY <1>0, <2>1, <2>2, <2>3, <2>4, LoadKeeps DEF also
<1>2. ASSUME NEW a \in Accounts \cup {Nobody}, OAuthReturns(a) PROVE AuthInv'
  <2>0. 0 \in 0..MaxLinks /\ "app" \in Views \ LinkViews /\ {} \in SUBSET {"verify"}
        BY <1>0 DEF Views, LinkViews
  <2>1. CASE a = Nobody
    <3>1. Load("app", session, 0, {}) /\ UNCHANGED <<accounts, links>>
          BY <1>2, <2>1 DEF OAuthReturns
    <3> QED BY <1>0, <2>0, <3>1, LoadKeeps
  <2>2. CASE a # Nobody
    <3> DEFINE p == IF accounts[a].pwd = "none" THEN "provider" ELSE accounts[a].pwd
               c == [acct |-> a, version |-> accounts[a].version]
    <3>1. /\ accounts' = [accounts EXCEPT ![a].pwd = p] /\ UNCHANGED links
          /\ Load("app", c, 0, {})
          BY <1>2, <2>2 DEF OAuthReturns
    <3>2. a \in Accounts /\ accounts[a] \in Users
          BY <1>0, <2>2
    <3>3. p \in Passwords \cup {"none", "provider"} /\ accounts[a].version \in Nat
          BY <3>2 DEF Users
    <3>4. c \in Cookies
          BY <3>2, <3>3, CookieOK
    <3> HIDE DEF p, c
    <3>5. [accounts[a] EXCEPT !.pwd = p] \in Users
          BY <3>2, <3>3, Zenon DEF Users
    <3>6. accounts' \in [Accounts -> Users]
          BY <1>0, <3>1, <3>2, <3>5
    <3> QED BY <2>0, <3>1, <3>4, <3>6, LoadKeeps
  <2> QED BY <2>1, <2>2
<1> QED BY <1>1, <1>2

-----------------------------------------------------------------------------
(* Answers *)

\* A request that is answered or lost.
LEMMA RemoveReqKeeps ==
    ASSUME ReqsOK, UNCHANGED links, NEW r, reqs' = reqs \ {r}
    PROVE  ReqsOK'
<1>1. IsFiniteSet(reqs) /\ Cardinality(reqs) \in Nat /\ Cardinality(reqs) <= MaxReqs
      /\ MaxReqs \in Nat
      BY FS_CardinalityType, AuthBounds DEF ReqsOK
<1>2. reqs' \in SUBSET reqs
      BY Zenon
<1>3. IsFiniteSet(reqs') /\ Cardinality(reqs') <= Cardinality(reqs)
      BY <1>1, <1>2, FS_Subset
<1>4. Cardinality(reqs') <= MaxReqs
  <2>1. Cardinality(reqs') \in Nat
        BY <1>3, FS_CardinalityType
  <2> QED BY <1>1, <1>3, <2>1
<1>5. \A q \in reqs' : q \in AuthRequests /\ RequestOK(q)'
      BY <1>2, Zenon DEF ReqsOK, RequestOK
<1> QED BY <1>3, <1>4, <1>5, Zenon DEF ReqsOK

\* What an answer does to the browser, for any request of the right type.
LEMMA BrowserKeeps ==
    ASSUME AuthInv, NEW f \in AuthRequests, UNCHANGED <<accounts, links, provs, link, sends>>,
           session' = Jar(f), store' = Told(f), authForm' = Heard(f),
           view' = Settled(After(f), Told(f), provs)
    PROVE  IdentityOK' /\ PageOK'
<1>0. /\ f.acct \in Accounts \cup {Nobody} /\ f.cookie \in Cookies
      /\ session \in Cookies /\ store \in Stores /\ authForm \in AuthForms /\ view \in Views
      BY DEF AuthRequests, AuthInv, IdentityOK, PageOK
<1>1. session' \in {session, NoCookie, f.cookie}
      BY DEF Jar
<1>2. store' \in Stores
  <2> DEFINE u == IF f.answer = "ok" THEN f.acct ELSE Nobody
  <2>1. u \in Accounts \cup {Nobody}
        BY <1>0
  <2>2. [store EXCEPT !.user = Nobody] \in Stores
        BY <1>0, Zenon DEF Stores
  <2>3. \A n \in Accounts \cup {Nobody} : [user |-> n, hydrated |-> TRUE] \in Stores
        BY DEF Stores
  <2>4. \/ store' = [user |-> u, hydrated |-> TRUE]
        \/ store' = [store EXCEPT !.user = Nobody]
        \/ store' = [user |-> f.acct, hydrated |-> TRUE]
        \/ store' = store
        BY DEF Told
  <2> HIDE DEF u
  <2> QED BY <1>0, <2>1, <2>2, <2>3, <2>4
<1>3. authForm' \in AuthForms
  <2>0. authForm.err \in BOOLEAN /\ authForm.sent \in BOOLEAN
        BY <1>0, Zenon DEF AuthForms
  <2> DEFINE e == authForm.err \/ f.answer # "ok"
             s == authForm.sent \/ (f.kind = "forgot" /\ f.answer = "ok")
  <2>1. e \in BOOLEAN /\ s \in BOOLEAN
        BY <2>0, Zenon
  <2>2. \/ authForm' = authForm
        \/ authForm' = [authForm EXCEPT !.busy = FALSE, !.err = e, !.sent = s]
        BY DEF Heard
  <2> HIDE DEF e, s
  <2> QED BY <1>0, <2>1, <2>2, Zenon DEF AuthForms
<1>4. After(f) \in {"app", "linkOk", "linkErr", view}
      BY DEF After
<1>5. view' \in {"app", "linkOk", "linkErr", "email", view}
  <2> DEFINE a == After(f)
             t == Told(f)
  <2>1. view' \in {a, "app", "email"}
    <3>1. view' = Settled(a, t, provs)
          OBVIOUS
    <3> HIDE DEF a, t
    <3> QED BY <3>1, SettledOK
  <2>2. a \in {"app", "linkOk", "linkErr", view}
        BY <1>4
  <2> HIDE DEF a
  <2> QED BY <2>1, <2>2
<1>6. view' \in Views /\ (view' \in LinkViews => view' = view)
      BY <1>0, <1>5 DEF Views, LinkViews, Done, SheetViews
<1>7. PageOK'
  <2>1. provs' \in {"unasked", "asked", "empty", "some"}
        BY DEF AuthInv, PageOK
  <2> QED BY <1>3, <1>6, <2>1, PageKeeps DEF AuthInv
<1>8. IdentityOK'
  <2>1. session' \in Cookies
        BY <1>0, <1>1, CookieOK
  <2> QED BY <1>2, <2>1 DEF AuthInv, IdentityOK
<1> QED BY <1>7, <1>8

\* A request that goes on in another form.
LEMMA ReplaceReqKeeps ==
    ASSUME ReqsOK, links \in Seq(Mails), links' \in Seq(Mails), Len(links') >= Len(links),
           NEW r \in reqs, NEW f \in AuthRequests, RequestOK(f)',
           reqs' = (reqs \ {r}) \cup {f}
    PROVE  ReqsOK'
<1>1. \A n \in 1..Len(links) : n \in 1..Len(links')
  <2>1. Len(links) \in Nat /\ Len(links') \in Nat
        OBVIOUS
  <2> QED BY <2>1
<1>2. \A q \in reqs' : q \in AuthRequests /\ RequestOK(q)'
  <2>1. ASSUME NEW q \in reqs PROVE q \in AuthRequests /\ RequestOK(q)'
        BY <1>1, Zenon DEF ReqsOK, RequestOK
  <2> QED BY <2>1
<1>3. IsFiniteSet(reqs') /\ Cardinality(reqs') <= MaxReqs
  <2> DEFINE rest == reqs \ {r}
  <2>1. IsFiniteSet(reqs) /\ Cardinality(reqs) \in Nat /\ Cardinality(reqs) <= MaxReqs
        /\ MaxReqs \in Nat
        BY FS_CardinalityType, AuthBounds DEF ReqsOK
  <2>2. IsFiniteSet(rest) /\ Cardinality(rest) = Cardinality(reqs) - 1
        BY <2>1, FS_RemoveElement
  <2>3. reqs' = rest \cup {f}
        OBVIOUS
  <2> HIDE DEF rest
  <2> DEFINE all == rest \cup {f}
  <2>4. /\ IsFiniteSet(all)
        /\ Cardinality(all) = Cardinality(rest) \/ Cardinality(all) = Cardinality(rest) + 1
        BY <2>2, FS_AddElement
  <2>5. reqs' = all
        BY <2>3
  <2> HIDE DEF all
  <2> DEFINE m == Cardinality(reqs)
             n == Cardinality(rest)
             k == Cardinality(all)
  <2>6. m \in Nat /\ m <= MaxReqs /\ n = m - 1 /\ (k = n \/ k = n + 1) /\ MaxReqs \in Nat
        BY <2>1, <2>2, <2>4
  <2>7. k <= MaxReqs
    <3> HIDE DEF m, n, k
    <3> QED BY <2>6
  <2> QED BY <2>4, <2>5, <2>7
<1> QED BY <1>2, <1>3, Zenon DEF ReqsOK

\* A failure takes the request away or leaves it to the server.
LEMMA FailedReqsKeep ==
    ASSUME AuthInv, NEW r \in reqs, NEW heard \in BOOLEAN, Fail(r, heard)
    PROVE  ReqsOK'
<1> DEFINE f == [r EXCEPT !.owner = "gone"]
<1>1. /\ UNCHANGED links /\ links \in Seq(Mails) /\ ReqsOK
      /\ reqs' = reqs \ {r} \/ reqs' = (reqs \ {r}) \cup {f}
      BY DEF Fail, AuthInv, LinksOK
<1>2. r \in AuthRequests /\ RequestOK(r) /\ "gone" \in Owners
      BY <1>1 DEF ReqsOK, Owners
<1>3. /\ f \in AuthRequests /\ f.kind = r.kind /\ f.acct = r.acct
      /\ f.answer = r.answer /\ f.link = r.link
      BY <1>2, OwnerOK
<1> HIDE DEF f
<1>4. RequestOK(f)'
      BY <1>1, <1>2, <1>3, Zenon DEF RequestOK, Opening, HasAnswer
<1>5. Len(links') >= Len(links) /\ links' \in Seq(Mails)
      BY <1>1
<1> QED BY <1>1, <1>3, <1>4, <1>5, RemoveReqKeeps, ReplaceReqKeeps

LEMMA AnswersKeep ==
    ASSUME AuthInv, NEW r \in reqs, Answer(r) \/ \E heard \in BOOLEAN : Fail(r, heard)
    PROVE  AuthInv'
<1>1. UNCHANGED <<accounts, links, provs, link, sends>>
      BY DEF Answer, Fail
<1>2. r \in AuthRequests
      BY DEF AuthInv, ReqsOK
<1>3. \/ UNCHANGED <<session, store, authForm, view>>
      \/ \E f \in AuthRequests :
            /\ session' = Jar(f) /\ store' = Told(f) /\ authForm' = Heard(f)
            /\ view' = Settled(After(f), Told(f), provs)
  <2>1. CASE Answer(r)
        BY <1>2, <2>1, Zenon DEF Answer
  <2>2. ASSUME NEW heard \in BOOLEAN, Fail(r, heard),
               ~ UNCHANGED <<session, store, authForm, view>>
        PROVE  \E f \in AuthRequests :
            /\ session' = Jar(f) /\ store' = Told(f) /\ authForm' = Heard(f)
            /\ view' = Settled(After(f), Told(f), provs)
    <3> DEFINE a == IF heard /\ r.kind \in LinkViews THEN "refused" ELSE "failed"
               f == [r EXCEPT !.answer = a]
    <3>1. /\ session' = Jar(f) /\ store' = Told(f) /\ authForm' = Heard(f)
          /\ view' = Settled(After(f), Told(f), provs)
          BY <2>2, Zenon DEF Fail
    <3>2. a \in Answers
          BY DEF Answers
    <3>3. f = [r EXCEPT !.answer = a]
          OBVIOUS
    <3> HIDE DEF a, f
    <3>4. f \in AuthRequests
          BY <1>2, <3>2, <3>3, Zenon DEF AuthRequests
    <3> QED BY <3>1, <3>4
  <2> QED BY <2>1, <2>2
<1>4. ReqsOK'
      BY <1>1, RemoveReqKeeps, FailedReqsKeep DEF AuthInv, Answer
<1>5. IdentityOK' /\ PageOK'
  <2>1. CASE UNCHANGED <<session, store, authForm, view>>
    <3>1. PageOK' BY <1>1, <2>1, PageKeeps DEF AuthInv, PageOK
    <3> QED BY <1>1, <2>1, <3>1 DEF AuthInv, IdentityOK
  <2> QED BY <1>1, <1>3, <2>1, BrowserKeeps
<1> QED BY <1>1, <1>4, <1>5, LinksRest DEF AuthInv

LEMMA AnswerGoneKeeps ==
    ASSUME AuthInv, NEW r \in reqs, NEW heard \in BOOLEAN, AnswerGone(r, heard)
    PROVE  AuthInv'
<1>1. /\ reqs' = reqs \ {r} /\ session' = IF heard THEN Jar(r) ELSE session
      /\ UNCHANGED <<accounts, links, store, view, authForm, provs, link, sends>>
      BY Zenon DEF AnswerGone
<1>2. r \in AuthRequests /\ session \in Cookies
      BY DEF AuthInv, ReqsOK, IdentityOK
<1>3. session' \in Cookies
      BY <1>1, <1>2, CookieOK DEF Jar, AuthRequests
<1>4. IdentityOK' /\ PageOK'
      BY <1>1, <1>3, Zenon DEF AuthInv, IdentityOK, PageOK
<1>5. ReqsOK'
      BY <1>1, RemoveReqKeeps DEF AuthInv
<1> QED BY <1>1, <1>4, <1>5, LinksRest DEF AuthInv

-----------------------------------------------------------------------------
(* The endpoints *)

LEMMA AboutOK ==
    ASSUME AuthInv, NEW r \in reqs, ~HasAnswer(r)
    PROVE  /\ About(r) \in Accounts \cup {Nobody}
           /\ r.kind \in {"login", "signup", "forgot"} \cup LinkViews => About(r) \in Accounts
           /\ r.kind \in LinkViews => r.link \in 1..Len(links) /\ links[r.link] \in Mails
<1>1. /\ r \in AuthRequests /\ RequestOK(r) /\ links \in Seq(Mails)
      BY DEF AuthInv, ReqsOK, LinksOK
<1>2. /\ r.acct \in Accounts \cup {Nobody} /\ r.cookie.acct \in Accounts \cup {Nobody}
      /\ r.kind \in {"login", "signup", "forgot"} => r.acct \in Accounts
      /\ r.kind \in LinkViews => r.link \in 1..Len(links)
      BY <1>1 DEF AuthRequests, Cookies, RequestOK
<1>3. CASE r.kind \in LinkViews
  <2>1. links[r.link] \in Mails
        BY <1>1, <1>2, <1>3
  <2>2. links[r.link].acct \in Accounts
        BY <2>1 DEF Mails
  <2> QED BY <1>2, <1>3, <2>1, <2>2 DEF About
<1>4. CASE r.kind \notin LinkViews
      BY <1>2, <1>4 DEF About, Owner, LinkViews
<1> QED BY <1>3, <1>4

\* A request that the server answers.
LEMMA ServedOK ==
    ASSUME AuthInv, NEW r \in reqs, ~HasAnswer(r), accounts' \in [Accounts -> Users],
           NEW a \in {"ok", "refused", "failed"}
    PROVE  \E g \in AuthRequests :
              g = Served(r, a, About(r)) /\ g.answer = a /\ g.link = 0 /\ RequestOK(g)'
<1> DEFINE who == About(r)
           c == IF who = Nobody THEN NoCookie
                ELSE [acct |-> who, version |-> accounts'[who].version]
           f == [r EXCEPT !.answer = a, !.acct = who, !.pwd = "blank", !.link = 0,
                          !.cookie = c]
<1>1. r \in AuthRequests /\ f = Served(r, a, About(r))
      BY DEF AuthInv, ReqsOK, Served
<1>2. /\ who \in Accounts \cup {Nobody}
      /\ r.kind \in {"login", "signup", "forgot"} => who \in Accounts
      BY AboutOK
<1> HIDE DEF who
<1>3. c \in Cookies
  <2>1. CASE who \in Accounts
    <3>1. accounts'[who].version \in Nat
          BY <2>1 DEF Users
    <3> QED BY <2>1, <3>1, CookieOK
  <2> QED BY <1>2, <2>1, CookieOK
<1>4. a \in Answers /\ "blank" \in Passwords /\ 0 \in 0..MaxLinks
      BY AuthBounds DEF Answers, Passwords
<1> HIDE DEF c
<1>5. f \in AuthRequests /\ f.kind = r.kind /\ f.acct = who /\ f.answer = a /\ f.link = 0
      BY <1>1, <1>2, <1>3, <1>4, Zenon DEF AuthRequests
<1> HIDE DEF f
<1>6. PICK g \in AuthRequests : g = f
      BY <1>5
<1>7. RequestOK(g)'
      BY <1>2, <1>5, <1>6 DEF RequestOK, Opening, HasAnswer
<1> QED BY <1>1, <1>5, <1>6, <1>7

\* A step of the server is noticed in the browser when it is answered, and not before.
LEMMA ServerStepKeeps ==
    ASSUME AuthInv, NEW r \in reqs, NEW f \in AuthRequests, RequestOK(f)',
           reqs' = (reqs \ {r}) \cup {f}, accounts' \in [Accounts -> Users],
           links' \in Seq(Mails), Len(links') <= MaxLinks, Len(links') >= Len(links),
           UNCHANGED <<session, store, view, authForm, provs, link, sends>>
    PROVE  AuthInv'
<1>0. links \in Seq(Mails)
      BY DEF AuthInv, LinksOK
<1>1. ReqsOK'
      BY <1>0, ReplaceReqKeeps DEF AuthInv
<1>2. \A n \in 1..Len(links) : n \in 1..Len(links')
  <2>1. Len(links) \in Nat /\ Len(links') \in Nat
        BY <1>0
  <2> QED BY <2>1
<1>3. PageOK'
      BY <1>2, Zenon DEF AuthInv, PageOK
<1>4. IdentityOK'
      BY DEF AuthInv, IdentityOK
<1> QED BY <1>1, <1>3, <1>4 DEF AuthInv, LinksOK

\* The mail of a signup or of a forgotten password is one more.
LEMMA ServeLinks ==
    ASSUME AuthInv, NEW r \in reqs, ServeForm(r)
    PROVE  \/ links' = links
           \/ \E m \in Mails : /\ links' = Append(links, m) /\ Len(links) < MaxLinks
                               /\ m.honoured = 0 /\ m.live
<1> DEFINE who == About(r)
           m == [purpose |-> IF r.kind = "signup" THEN "verify" ELSE "reset", acct |-> who,
                 live |-> TRUE, honoured |-> 0]
<1>1. ~HasAnswer(r)
      BY DEF ServeForm, HasAnswer
<1>2. \/ links' = links
      \/ /\ r.kind \in {"signup", "forgot"} /\ Len(links) < MaxLinks
         /\ links' = Append(links, m)
      BY DEF ServeForm, Mailed
<1>3. r.kind \in {"signup", "forgot"} => who \in Accounts
      BY <1>1, AboutOK
<1> HIDE DEF who
<1>4. who \in Accounts => m \in Mails /\ m.honoured = 0 /\ m.live
      BY DEF Mails, Purposes, LinkViews
<1> QED BY <1>2, <1>3, <1>4

LEMMA ServeFormKeeps ==
    ASSUME AuthInv, NEW r \in reqs, ServeForm(r)
    PROVE  AuthInv'
<1> DEFINE who == About(r)
           a == IF Accepts(r) THEN "ok" ELSE "refused"
           f == Served(r, a, who)
<1>1. /\ r.answer = "waits" /\ reqs' = (reqs \ {r}) \cup {f}
      /\ UNCHANGED <<session, store, view, authForm, provs, link, sends>>
      /\ accounts' = accounts \/ (r.kind = "signup" /\ accounts' = [accounts EXCEPT ![who].pwd = r.pwd])
      BY Zenon DEF ServeForm
<1>2. /\ accounts \in [Accounts -> Users] /\ r.pwd \in Passwords /\ ~HasAnswer(r)
      /\ links \in Seq(Mails) /\ Len(links) <= MaxLinks /\ MaxLinks \in Nat
      BY <1>1, AuthBounds DEF AuthInv, IdentityOK, LinksOK, ReqsOK, AuthRequests, HasAnswer
<1>3. r.kind = "signup" => who \in Accounts
      BY <1>2, AboutOK
<1>4. a \in {"ok", "refused", "failed"}
      OBVIOUS
<1> HIDE DEF a
<1>5. accounts' \in [Accounts -> Users]
  <2>1. SUFFICES ASSUME who \in Accounts, accounts' = [accounts EXCEPT ![who].pwd = r.pwd]
                 PROVE  accounts' \in [Accounts -> Users]
        BY <1>1, <1>2, <1>3
  <2> HIDE DEF who
  <2>2. accounts[who] \in Users
        BY <1>2, <2>1
  <2>3. [accounts[who] EXCEPT !.pwd = r.pwd] \in Users
        BY <1>2, <2>2, Zenon DEF Users
  <2> QED BY <1>2, <2>1, <2>3
<1>6. PICK g \in AuthRequests : g = f /\ RequestOK(g)'
      BY <1>2, <1>4, <1>5, ServedOK
<1>7. links' \in Seq(Mails) /\ Len(links') <= MaxLinks /\ Len(links') >= Len(links)
  <2>1. CASE links' = links
        BY <1>2, <2>1
  <2>2. ASSUME NEW m \in Mails, links' = Append(links, m), Len(links) < MaxLinks
        PROVE  links' \in Seq(Mails) /\ Len(links') <= MaxLinks /\ Len(links') >= Len(links)
    <3>1. links' \in Seq(Mails) /\ Len(links') = Len(links) + 1 /\ Len(links) \in Nat
          BY <1>2, <2>2, Queued
    <3> QED BY <1>2, <2>2, <3>1
  <2> QED BY <2>1, <2>2, ServeLinks
<1> HIDE DEF f
<1> QED BY <1>1, <1>5, <1>6, <1>7, ServerStepKeeps

\* The request of a link gets on, or is refused.
LEMMA LinkStepOK ==
    ASSUME AuthInv, NEW r \in reqs, NEW a \in {"held", "used"}, r.kind \in LinkViews,
           ~HasAnswer(r), Len(links') >= Len(links), links' \in Seq(Mails)
    PROVE  LET f == [r EXCEPT !.answer = a]
           IN f \in AuthRequests /\ f.answer = a /\ f.link = r.link /\ RequestOK(f)'
<1> DEFINE f == [r EXCEPT !.answer = a]
<1>1. r \in AuthRequests /\ RequestOK(r) /\ a \in Answers /\ links \in Seq(Mails)
      BY DEF AuthInv, ReqsOK, LinksOK, Answers
<1>2. /\ f \in AuthRequests /\ f.kind = r.kind /\ f.acct = r.acct /\ f.answer = a
      /\ f.link = r.link
      BY <1>1, Zenon DEF AuthRequests
<1> HIDE DEF f
<1>3. r.link \in 1..Len(links')
  <2>1. r.link \in 1..Len(links) /\ Len(links) \in Nat /\ Len(links') \in Nat
        BY <1>1 DEF RequestOK
  <2> QED BY <2>1
<1>4. f.kind \notin {"login", "signup", "forgot"}
      BY <1>2 DEF LinkViews
<1>5. RequestOK(f)'
      BY <1>2, <1>3, <1>4 DEF RequestOK
<1> QED BY <1>2, <1>5 DEF f

LEMMA LookUpKeeps ==
    ASSUME AuthInv, NEW r \in reqs, LookUp(r)
    PROVE  /\ AuthInv'
           /\ \E f \in AuthRequests :
                 /\ reqs' = (reqs \ {r}) \cup {f} /\ UNCHANGED links
                 /\ \/ f.answer = "refused"
                    \/ /\ f.answer = "held" /\ f.link = r.link /\ links[r.link].live
                       /\ RowFree(r.link)
<1> DEFINE held == [r EXCEPT !.answer = "held"]
           refused == Served(r, "refused", About(r))
<1>1. /\ r.kind \in LinkViews /\ ~HasAnswer(r)
      /\ UNCHANGED <<accounts, links, session, store, view, authForm, provs, link, sends>>
      /\ \/ reqs' = (reqs \ {r}) \cup {refused}
         \/ reqs' = (reqs \ {r}) \cup {held} /\ links[r.link].live /\ RowFree(r.link)
      BY DEF LookUp, Valid, HasAnswer
<1>2. /\ links' \in Seq(Mails) /\ Len(links') <= MaxLinks /\ Len(links') >= Len(links)
      /\ accounts' \in [Accounts -> Users]
  <2>1. links \in Seq(Mails) /\ Len(links) <= MaxLinks /\ Len(links) \in Nat
        BY DEF AuthInv, LinksOK
  <2> QED BY <1>1, <2>1 DEF AuthInv, IdentityOK
<1>3. PICK g \in AuthRequests : g = refused /\ g.answer = "refused" /\ RequestOK(g)'
      BY <1>1, <1>2, ServedOK
<1>4. /\ held \in AuthRequests /\ held.answer = "held" /\ held.link = r.link
      /\ RequestOK(held)'
      BY <1>1, <1>2, LinkStepOK
<1> HIDE DEF held, refused
<1>5. AuthInv'
      BY <1>1, <1>2, <1>3, <1>4, ServerStepKeeps
<1> QED BY <1>1, <1>3, <1>4, <1>5

\* One mail changes.
LEMMA MailEdited ==
    ASSUME LinksOK, NEW i \in 1..Len(links), NEW l \in Mails,
           links' = [links EXCEPT ![i] = l]
    PROVE  /\ links' \in Seq(Mails) /\ Len(links') = Len(links) /\ Len(links') <= MaxLinks
           /\ Len(links') >= Len(links)
           /\ \A j \in 1..Len(links) : links'[j] = IF j = i THEN l ELSE links[j]
<1>1. links \in Seq(Mails) /\ Len(links) \in Nat /\ Len(links) <= MaxLinks
      BY DEF LinksOK
<1>2. links' \in Seq(Mails) /\ Len(links') = Len(links)
      BY <1>1
<1> QED BY <1>1, <1>2

LEMMA ConsumeKeeps ==
    ASSUME AuthInv, NEW r \in reqs, NEW done \in BOOLEAN, Consume(r, done)
    PROVE  /\ AuthInv'
           /\ r.answer = "held" /\ r.link \in 1..Len(links)
           /\ \E f \in AuthRequests :
                 /\ reqs' = (reqs \ {r}) \cup {f}
                 /\ \/ f.answer = "refused" /\ UNCHANGED links
                    \/ /\ f.answer = "used" /\ f.link = r.link
                       /\ links' = [links EXCEPT ![r.link] = [@ EXCEPT !.live = FALSE]]
<1> DEFINE used == [r EXCEPT !.answer = "used"]
           refused == Served(r, "refused", About(r))
           l == [links[r.link] EXCEPT !.live = FALSE]
<1>1. /\ r.answer = "held" /\ ~HasAnswer(r)
      /\ UNCHANGED <<accounts, session, store, view, authForm, provs, link, sends>>
      /\ \/ reqs' = (reqs \ {r}) \cup {refused} /\ UNCHANGED links
         \/ /\ reqs' = (reqs \ {r}) \cup {used}
            /\ links' = [links EXCEPT ![r.link].live = FALSE]
      BY DEF Consume, HasAnswer
<1>2. r.kind \in LinkViews
      BY <1>1 DEF AuthInv, ReqsOK, RequestOK, Opening
<1>3. r.link \in 1..Len(links) /\ links[r.link] \in Mails
      BY <1>1, <1>2, AboutOK
<1>4. l \in Mails
      BY <1>3 DEF Mails
<1> HIDE DEF l
<1>5. /\ links' \in Seq(Mails) /\ Len(links') <= MaxLinks /\ Len(links') >= Len(links)
      /\ accounts' \in [Accounts -> Users]
  <2>1. CASE UNCHANGED links
    <3>1. links \in Seq(Mails) /\ Len(links) <= MaxLinks /\ Len(links) \in Nat
          BY DEF AuthInv, LinksOK
    <3> QED BY <1>1, <2>1, <3>1 DEF AuthInv, IdentityOK
  <2>2. CASE links' = [links EXCEPT ![r.link].live = FALSE]
    <3>1. links' = [links EXCEPT ![r.link] = l]
          BY <1>3, <2>2 DEF l
    <3> QED BY <1>1, <1>3, <1>4, <3>1, MailEdited DEF AuthInv, IdentityOK
  <2> QED BY <1>1, <2>1, <2>2
<1>6. PICK g \in AuthRequests : g = refused /\ g.answer = "refused" /\ RequestOK(g)'
      BY <1>1, <1>5, ServedOK
<1>7. /\ used \in AuthRequests /\ used.answer = "used" /\ used.link = r.link
      /\ RequestOK(used)'
      BY <1>1, <1>2, <1>5, LinkStepOK
<1> HIDE DEF used, refused
<1>8. AuthInv'
      BY <1>1, <1>5, <1>6, <1>7, ServerStepKeeps
<1> QED BY <1>1, <1>3, <1>6, <1>7, <1>8

LEMMA HonourKeeps ==
    ASSUME AuthInv, NEW r \in reqs, NEW done \in BOOLEAN, NEW told \in BOOLEAN,
           Honour(r, done, told)
    PROVE  /\ AuthInv'
           /\ r.answer = "used" /\ r.link \in 1..Len(links)
           /\ \E f \in AuthRequests :
                 reqs' = (reqs \ {r}) \cup {f} /\ f.answer \in {"ok", "failed"}
           /\ \/ UNCHANGED links
              \/ links' = [links EXCEPT ![r.link] = [@ EXCEPT !.honoured = links[r.link].honoured + 1]]
<1> DEFINE a == IF told /\ (r.kind = "reset" => done) THEN "ok" ELSE "failed"
           f == Served(r, a, About(r))
           who == About(r)
           p == r.pwd
           n == accounts[who].version + 1
           l == [links[r.link] EXCEPT !.honoured = links[r.link].honoured + 1]
<1>1. /\ r.answer = "used" /\ ~HasAnswer(r) /\ reqs' = (reqs \ {r}) \cup {f}
      /\ UNCHANGED <<session, store, view, authForm, provs, link, sends>>
      /\ \/ UNCHANGED links
         \/ links' = [links EXCEPT ![r.link].honoured = @ + 1]
      /\ \/ UNCHANGED accounts
         \/ accounts' = [accounts EXCEPT ![who].pwd = p, ![who].version = @ + 1]
      BY DEF Honour, HasAnswer
<1>2. r.kind \in LinkViews
      BY <1>1 DEF AuthInv, ReqsOK, RequestOK, Opening
<1>3. r.link \in 1..Len(links) /\ links[r.link] \in Mails /\ who \in Accounts
      BY <1>1, <1>2, AboutOK
<1>4. l \in Mails
  <2>1. links[r.link].honoured + 1 \in Nat
        BY <1>3 DEF Mails
  <2> QED BY <1>3, <2>1 DEF Mails
<1>5. accounts' \in [Accounts -> Users]
  <2>1. accounts \in [Accounts -> Users] /\ p \in Passwords
        BY DEF AuthInv, IdentityOK, ReqsOK, AuthRequests
  <2> HIDE DEF who
  <2>2. accounts[who] \in Users
        BY <1>3, <2>1
  <2>3. n \in Nat
        BY <2>2 DEF Users
  <2>4. \/ UNCHANGED accounts
        \/ accounts' = [accounts EXCEPT ![who] = [@ EXCEPT !.pwd = p, !.version = n]]
        BY <1>1, <1>3, <2>1, <2>2 DEF Users
  <2> HIDE DEF n, p
  <2>5. [accounts[who] EXCEPT !.pwd = p, !.version = n] \in Users
        BY <2>1, <2>2, <2>3, Zenon DEF Users
  <2> QED BY <1>3, <2>1, <2>4, <2>5
<1>l. links' = links \/ links' = [links EXCEPT ![r.link] = l]
      BY <1>1, <1>3
<1> HIDE DEF l
<1>6. links' \in Seq(Mails) /\ Len(links') <= MaxLinks /\ Len(links') >= Len(links)
  <2>1. CASE UNCHANGED links
    <3>1. links \in Seq(Mails) /\ Len(links) <= MaxLinks /\ Len(links) \in Nat
          BY DEF AuthInv, LinksOK
    <3> QED BY <2>1, <3>1
  <2>2. CASE links' = [links EXCEPT ![r.link] = l]
        BY <1>3, <1>4, <2>2, MailEdited DEF AuthInv
  <2> QED BY <1>l, <2>1, <2>2
<1>7. a \in {"ok", "refused", "failed"} /\ a \in {"ok", "failed"}
      OBVIOUS
<1> HIDE DEF a
<1>8. PICK g \in AuthRequests : g = f /\ g.answer = a /\ RequestOK(g)'
      BY <1>1, <1>5, <1>7, ServedOK
<1> HIDE DEF f
<1>9. AuthInv'
      BY <1>1, <1>5, <1>6, <1>8, ServerStepKeeps
<1> QED BY <1>1, <1>3, <1>7, <1>8, <1>9, <1>l DEF l

LEMMA AuthStart == AuthInit => AuthInv
<1> SUFFICES ASSUME AuthInit PROVE AuthInv
    OBVIOUS
<1>1. /\ accounts \in [Accounts -> {[pwd |-> p, version |-> 0] : p \in {"none", "weak"}}]
      /\ session = NoCookie \/ \E a \in Accounts : session = [acct |-> a, version |-> 0]
      /\ view \in {"app", "auth"} /\ authForm = EmptyForm
      /\ store = [user |-> Nobody, hydrated |-> FALSE] /\ reqs = {Me(session)}
      BY DEF AuthInit
<1>2. links = <<>> /\ link = 0 /\ sends = 0
      BY Zenon DEF AuthInit
<1>3. provs \in {"unasked", "asked", "empty", "some"}
      BY Zenon DEF AuthInit
<1>4. IdentityOK
  <2>1. {[pwd |-> p, version |-> 0] : p \in {"none", "weak"}} \subseteq Users
        BY DEF Users, Passwords
  <2>2. accounts \in [Accounts -> Users]
        BY <1>1, <2>1
  <2>3. session \in Cookies /\ store \in Stores
        BY <1>1, CookieOK DEF Stores
  <2> QED BY <2>2, <2>3 DEF IdentityOK
<1>5. LinksOK
      BY <1>2, AuthBounds DEF LinksOK
<1>6. PageOK
  <2>1. link \in 0..MaxLinks /\ sends \in 0..MaxForms
        BY <1>2, AuthBounds
  <2>2. view \in Views \ LinkViews
        BY <1>1 DEF Views, PageViews, LinkViews
  <2> QED BY <1>1, <1>3, <2>1, <2>2, EmptyFormOK DEF PageOK
<1>7. ReqsOK
  <2> DEFINE m == FormRequest("me", "app", Nobody, "blank")
             me == Me(session)
  <2>1. link \in 0..MaxLinks /\ "me" \in Kinds /\ "app" \in Owners
        /\ Nobody \in Accounts \cup {Nobody} /\ "blank" \in Passwords
        BY <1>2, AuthBounds DEF Kinds, Owners, Passwords
  <2>2. m \in AuthRequests /\ m.kind = "me" /\ m.answer = "waits"
        BY <2>1, FormRequestOK
  <2>3. me = [m EXCEPT !.cookie = session] /\ session \in Cookies /\ reqs = {me}
        BY <1>1, <1>4 DEF Me, IdentityOK
  <2> HIDE DEF m, me
  <2>4. me \in AuthRequests /\ me.kind = "me" /\ me.answer = "waits"
        BY <2>2, <2>3, Zenon DEF AuthRequests
  <2>5. IsFiniteSet(reqs) /\ Cardinality(reqs) = 1
        BY <2>3, FS_Singleton
  <2>6. Cardinality(reqs) <= MaxReqs
        BY <2>5, AuthBounds
  <2>7. RequestOK(me)
        BY <2>4 DEF RequestOK, LinkViews, Opening
  <2> QED BY <2>3, <2>4, <2>5, <2>6, <2>7 DEF ReqsOK
<1> QED BY <1>4, <1>5, <1>6, <1>7 DEF AuthInv

LEMMA AuthKeeps == AuthInv /\ [AuthNext]_authVars => AuthInv'
<1> SUFFICES ASSUME AuthInv, [AuthNext]_authVars PROVE AuthInv'
    OBVIOUS
<1>1. CASE \/ GoHome \/ OpenSheet \/ CloseSheet \/ GoForgot \/ LeaveForgot \/ GoTo
           \/ \E p \in {"empty", "some"} : ProvidersAnswer(p)
      BY <1>1, MovesKeep
<1>2. CASE GoAuth
      BY <1>2, GoAuthKeeps
<1>3. CASE SwitchMode
      BY <1>3, FillsKeep
<1>4. CASE StartOAuth
      BY <1>4, StartOAuthKeeps
<1>5. CASE \/ Logout
           \/ \E a \in Accounts \cup {Nobody} :
                  SubmitForgot(a) \/ \E p \in Passwords : SubmitCredentials(a, p)
           \/ \E p \in Passwords : SubmitReset(p)
      BY <1>5, FormsKeep
<1>6. CASE \/ \E i \in DOMAIN links : OpenLink(i)
           \/ \E a \in Accounts \cup {Nobody} : OAuthReturns(a)
      BY <1>6, LoadsKeep
<1>7. ASSUME NEW r \in reqs, ServeForm(r) \/ LookUp(r) \/ Answer(r)
      PROVE  AuthInv'
      BY <1>7, ServeFormKeeps, LookUpKeeps, AnswersKeep
<1>9. ASSUME NEW r \in reqs, NEW b \in BOOLEAN, Consume(r, b) \/ AnswerGone(r, b) \/ Fail(r, b)
      PROVE  AuthInv'
      BY <1>9, ConsumeKeeps, AnswerGoneKeeps, AnswersKeep
<1>10. ASSUME NEW r \in reqs, NEW done \in BOOLEAN, NEW told \in BOOLEAN, Honour(r, done, told)
       PROVE  AuthInv'
       BY <1>10, HonourKeeps
<1>8. CASE UNCHANGED authVars
  <2>1. PageOK'
        BY <1>8, Zenon DEF authVars, AuthInv, PageOK
  <2> QED BY <1>8, <2>1, LinksRest, ReqsRest DEF authVars, AuthInv, IdentityOK
<1> QED BY <1>1, <1>2, <1>3, <1>4, <1>5, <1>6, <1>7, <1>8, <1>9, <1>10, Zenon DEF AuthNext

\* Signing in keeps its types, for any accounts and numbers of links, requests and forms.
THEOREM AuthTypes == AuthSpec => []AuthTypeOK
<1>1. AuthInv => AuthTypeOK
  <2> SUFFICES ASSUME AuthInv PROVE AuthTypeOK
      OBVIOUS
  <2>1. /\ IdentityOK /\ links \in Seq(Mails) /\ Len(links) <= MaxLinks /\ PageOK
        /\ reqs \subseteq AuthRequests /\ Cardinality(reqs) <= MaxReqs
        BY DEF AuthInv, LinksOK, ReqsOK
  <2> QED BY <2>1, Zenon DEF AuthTypeOK, IdentityOK, PageOK, Users, Stores, Views, AuthForms,
                             Mails, AuthRequests
<1> QED BY <1>1, AuthStart, AuthKeeps, PTL DEF AuthSpec

-----------------------------------------------------------------------------
(* A link opens once *)

\* Requests that leave, that are given up or that change owner, one into one, open
\* nothing that was not open.
LEMMA OpenersRest ==
    ASSUME OpenedOnce, UNCHANGED links, NEW g,
           \A q \in reqs' : Opening(q) =>
               \E r \in reqs : q = g[r] /\ q.answer = r.answer /\ q.link = r.link
    PROVE  OpenedOnce'
<1>1. \A q \in reqs' : Opening(q) =>
          \E r \in reqs : q = g[r] /\ Opening(r) /\ q.answer = r.answer /\ q.link = r.link
      BY DEF Opening
<1> SUFFICES ASSUME NEW i \in 1..Len(links)
             PROVE  /\ \A q \in reqs' : Opening(q) /\ q.link = i =>
                          links[i].honoured = 0 /\ (links[i].live <=> q.answer = "held")
                    /\ \A p, q \in reqs' :
                          Opening(p) /\ Opening(q) /\ p.link = i /\ q.link = i => p = q
    BY DEF OpenedOnce
<1>o. /\ \A r \in reqs : Opening(r) /\ r.link = i =>
             links[i].honoured = 0 /\ (links[i].live <=> r.answer = "held")
      /\ \A p, r \in reqs : Opening(p) /\ Opening(r) /\ p.link = i /\ r.link = i => p = r
      BY Zenon DEF OpenedOnce
<1>f. ASSUME NEW q \in reqs', Opening(q), q.link = i
      PROVE  \E r \in reqs : q = g[r] /\ Opening(r) /\ r.link = i /\ q.answer = r.answer
  <2>1. PICK r \in reqs : q = g[r] /\ Opening(r) /\ q.answer = r.answer /\ q.link = r.link
        BY <1>1, <1>f
  <2>2. r.link = i
        BY <1>f, <2>1
  <2> QED BY <2>1, <2>2
<1>2. ASSUME NEW q \in reqs', Opening(q), q.link = i
      PROVE  links[i].honoured = 0 /\ (links[i].live <=> q.answer = "held")
  <2>1. PICK r \in reqs : Opening(r) /\ r.link = i /\ q.answer = r.answer
        BY <1>2, <1>f
  <2>2. links[i].honoured = 0 /\ (links[i].live <=> r.answer = "held")
        BY <1>o, <2>1
  <2> QED BY <2>1, <2>2
<1>3. ASSUME NEW p \in reqs', NEW q \in reqs', Opening(p), Opening(q), p.link = i, q.link = i
      PROVE  p = q
  <2>1. PICK r \in reqs : p = g[r] /\ Opening(r) /\ r.link = i
        BY <1>3, <1>f
  <2>2. PICK t \in reqs : q = g[t] /\ Opening(t) /\ t.link = i
        BY <1>3, <1>f
  <2>3. r = t
        BY <1>o, <2>1, <2>2
  <2> QED BY <2>1, <2>2, <2>3
<1> QED BY <1>2, <1>3, Zenon

LEMMA NoOpener ==
    ASSUME OpenedOnce, UNCHANGED links, \A q \in reqs' : Opening(q) => q \in reqs
    PROVE  OpenedOnce'
BY Zenon DEF OpenedOnce

\* A page load.
LEMMA LoadOpens ==
    ASSUME AuthInv, OpenedOnce, UNCHANGED links,
           \A q \in reqs' : q \in Orphans \/ q.answer = "waits"
    PROVE  OpenedOnce'
<1> DEFINE g == [r \in reqs |-> [r EXCEPT !.owner = "gone"]]
<1>1. ASSUME NEW q \in reqs', Opening(q)
      PROVE  \E r \in reqs : q = g[r] /\ q.answer = r.answer /\ q.link = r.link
  <2>1. q \in Orphans
        BY <1>1 DEF Opening
  <2>2. PICK r \in reqs : /\ q = [r EXCEPT !.owner = "gone"]
                         /\ q.answer = r.answer /\ q.link = r.link
        BY <2>1, OrphansOK DEF AuthInv
  <2> QED BY <2>2
<1> HIDE DEF g
<1> QED BY <1>1, OpenersRest

LEMMA LoadsOpen ==
    ASSUME AuthInv, OpenedOnce,
           \/ \E i \in DOMAIN links : OpenLink(i)
           \/ \E a \in Accounts \cup {Nobody} : OAuthReturns(a)
           \/ StartOAuth
    PROVE  OpenedOnce'
<1> DEFINE New(i, also) ==
              {[FormRequest(k, "link", Nobody, "blank") EXCEPT !.link = i] : k \in also}
<1>1. ASSUME NEW v, NEW c, NEW i, NEW also, Load(v, c, i, also)
      PROVE  \A q \in reqs' : q \in Orphans \/ q.answer = "waits"
  <2>1. reqs' = Orphans \cup {Me(c)} \cup New(i, also)
        BY <1>1, Zenon DEF Load
  <2>2. Me(c).answer = "waits"
        BY DEF Me, FormRequest
  <2>3. \A q \in New(i, also) : q.answer = "waits"
        BY DEF FormRequest
  <2> HIDE DEF New
  <2> QED BY <2>1, <2>2, <2>3
<1>2. ASSUME NEW i \in DOMAIN links, OpenLink(i) PROVE OpenedOnce'
  <2>1. UNCHANGED links /\ \E v, c, also : Load(v, c, i, also)
        BY <1>2, Zenon DEF OpenLink
  <2> QED BY <1>1, <2>1, LoadOpens
<1>3. ASSUME NEW a \in Accounts \cup {Nobody}, OAuthReturns(a) PROVE OpenedOnce'
  <2>1. UNCHANGED links /\ \E c : Load("app", c, 0, {})
        BY <1>3 DEF OAuthReturns
  <2> QED BY <1>1, <2>1, LoadOpens
<1>4. CASE StartOAuth
  <2>1. UNCHANGED links /\ reqs' = Orphans
        BY <1>4 DEF StartOAuth
  <2> QED BY <2>1, LoadOpens
<1> QED BY <1>2, <1>3, <1>4

\* A form that is sent waits for the server.
LEMMA FormsOpen ==
    ASSUME OpenedOnce,
           \/ Logout
           \/ \E a \in Accounts \cup {Nobody} :
                  SubmitForgot(a) \/ \E p \in Passwords : SubmitCredentials(a, p)
           \/ \E p \in Passwords : SubmitReset(p)
    PROVE  OpenedOnce'
<1>1. \A kind, owner, acct, pwd : FormRequest(kind, owner, acct, pwd).answer = "waits"
      BY DEF FormRequest
<1>2. ASSUME NEW kind, NEW owner, NEW acct, NEW pwd, UNCHANGED links,
             SendForm(FormRequest(kind, owner, acct, pwd))
      PROVE  OpenedOnce'
  <2>1. reqs' = reqs \cup {FormRequest(kind, owner, acct, pwd)}
        BY <1>2, Zenon DEF SendForm
  <2>2. \A q \in reqs' : Opening(q) => q \in reqs
        BY <1>1, <2>1 DEF Opening
  <2> QED BY <1>2, <2>2, NoOpener
<1>3. CASE UNCHANGED <<links, reqs>>
      BY <1>3, NoOpener
<1>4. UNCHANGED <<links, reqs>>
      \/ \E kind, owner, acct, pwd : UNCHANGED links /\ SendForm(FormRequest(kind, owner, acct, pwd))
      BY Zenon DEF Logout, SubmitForgot, SubmitCredentials, SubmitReset, FormLeaves, Refuse, Fill
<1> QED BY <1>2, <1>3, <1>4

LEMMA GoAuthOpens == ASSUME AuthInv, OpenedOnce, GoAuth PROVE OpenedOnce'
<1> DEFINE g == [r \in reqs |-> [r EXCEPT !.owner = IF @ = "page" THEN "left" ELSE @]]
<1>1. UNCHANGED links /\ reqs' = {g[r] : r \in reqs}
      BY DEF GoAuth
<1>2. ASSUME NEW r \in reqs PROVE g[r].answer = r.answer /\ g[r].link = r.link
  <2> DEFINE o == IF r.owner = "page" THEN "left" ELSE r.owner
  <2>1. r \in AuthRequests /\ o \in Owners
        BY DEF AuthInv, ReqsOK, AuthRequests, Owners
  <2>2. g[r] = [r EXCEPT !.owner = o]
        OBVIOUS
  <2> HIDE DEF g, o
  <2> QED BY <2>1, <2>2, OwnerOK
<1> HIDE DEF g
<1>3. \A q \in reqs' : \E r \in reqs : q = g[r] /\ q.answer = r.answer /\ q.link = r.link
      BY <1>1, <1>2
<1> QED BY <1>1, <1>3, OpenersRest

\* Answers and failures open nothing.
LEMMA AnswersOpen ==
    ASSUME AuthInv, OpenedOnce, NEW r \in reqs, NEW b \in BOOLEAN,
           Answer(r) \/ AnswerGone(r, b) \/ Fail(r, b)
    PROVE  OpenedOnce'
<1> DEFINE f == [r EXCEPT !.owner = "gone"]
           g == [q \in reqs |-> IF q = r THEN f ELSE q]
<1>1. UNCHANGED links /\ (reqs' = reqs \ {r} \/ reqs' = (reqs \ {r}) \cup {f})
      BY DEF Answer, AnswerGone, Fail
<1>2. f.answer = r.answer /\ f.link = r.link
  <2>1. r \in AuthRequests /\ "gone" \in Owners
        BY DEF AuthInv, ReqsOK, Owners
  <2> QED BY <2>1, OwnerOK
<1> HIDE DEF f
<1>3. CASE reqs' = reqs \ {r}
      BY <1>1, <1>3, NoOpener
<1>4. CASE reqs' = (reqs \ {r}) \cup {f}
  <2>1. ASSUME NEW q \in reqs'
        PROVE  \E s \in reqs : q = g[s] /\ q.answer = s.answer /\ q.link = s.link
    <3>1. CASE q = f
          BY <1>2, <3>1
    <3>2. CASE q # f
      <4>1. q \in reqs /\ q # r
            BY <1>4, <3>2
      <4> QED BY <4>1
    <3> QED BY <3>1, <3>2
  <2> HIDE DEF g
  <2> QED BY <1>1, <2>1, OpenersRest
<1> QED BY <1>1, <1>3, <1>4

\* A new mail was never honoured, and nobody can be opening it.
LEMMA ServeOpens == ASSUME AuthInv, OpenedOnce, NEW r \in reqs, ServeForm(r) PROVE OpenedOnce'
<1>0. links \in Seq(Mails) /\ Len(links) \in Nat
      BY DEF AuthInv, LinksOK
<1>1. \A q \in reqs' : Opening(q) => q \in reqs
  <2>1. PICK a \in {"ok", "refused"} : reqs' = (reqs \ {r}) \cup {Served(r, a, About(r))}
        BY Zenon DEF ServeForm
  <2>2. ~HasAnswer(r) /\ accounts' \in [Accounts -> Users]
        BY ServeFormKeeps DEF ServeForm, HasAnswer, AuthInv, IdentityOK
  <2>3. Served(r, a, About(r)).answer = a
        BY <2>2, ServedOK
  <2> QED BY <2>1, <2>3 DEF Opening
<1>2. CASE UNCHANGED links
      BY <1>1, <1>2, NoOpener
<1>3. ASSUME NEW m \in Mails, links' = Append(links, m), m.honoured = 0, m.live
      PROVE  OpenedOnce'
  <2>1. /\ Len(links') = Len(links) + 1 /\ \A i \in 1..Len(links) : links'[i] = links[i]
        /\ links'[Len(links) + 1] = m
        BY <1>0, <1>3
  <2>2. \A q \in reqs : Opening(q) => q.link \in 1..Len(links)
    <3>1. \A q \in reqs : RequestOK(q)
          BY DEF AuthInv, ReqsOK
    <3> QED BY <3>1 DEF RequestOK, Opening, HasAnswer
  <2>3. ASSUME NEW i \in 1..Len(links')
        PROVE  /\ links'[i].honoured <= 1 /\ (links'[i].honoured > 0 => ~links'[i].live)
               /\ \A q \in reqs' : Opening(q) /\ q.link = i =>
                     links'[i].honoured = 0 /\ (links'[i].live <=> q.answer = "held")
               /\ \A p, q \in reqs' :
                     Opening(p) /\ Opening(q) /\ p.link = i /\ q.link = i => p = q
    <3>1. CASE i \in 1..Len(links)
          BY <1>1, <2>1, <3>1 DEF OpenedOnce
    <3>2. CASE i = Len(links) + 1
      <4>1. \A q \in reqs' : Opening(q) => q.link # i
            BY <1>0, <1>1, <2>2, <3>2
      <4> QED BY <1>3, <2>1, <3>2, <4>1
    <3> QED BY <1>0, <2>1, <3>1, <3>2
  <2> QED BY <2>3 DEF OpenedOnce
<1> QED BY <1>2, <1>3, ServeLinks

LEMMA LookUpOpens == ASSUME AuthInv, OpenedOnce, NEW r \in reqs, LookUp(r) PROVE OpenedOnce'
<1>1. PICK f \in AuthRequests :
         /\ reqs' = (reqs \ {r}) \cup {f} /\ UNCHANGED links
         /\ \/ f.answer = "refused"
            \/ f.answer = "held" /\ f.link = r.link /\ links[r.link].live /\ RowFree(r.link)
      BY LookUpKeeps
<1>2. CASE f.answer = "refused"
      BY <1>1, <1>2, NoOpener DEF Opening
<1>3. CASE f.answer = "held" /\ f.link = r.link /\ links[r.link].live /\ RowFree(r.link)
  <2>1. \A q \in reqs : Opening(q) /\ q.link = r.link /\ r.link \in 1..Len(links) => FALSE
        BY <1>3 DEF OpenedOnce, RowFree, Opening
  <2>2. ASSUME NEW i \in 1..Len(links)
        PROVE  /\ links[i].honoured <= 1 /\ (links[i].honoured > 0 => ~links[i].live)
               /\ \A q \in reqs' : Opening(q) /\ q.link = i =>
                     links[i].honoured = 0 /\ (links[i].live <=> q.answer = "held")
               /\ \A p, q \in reqs' :
                     Opening(p) /\ Opening(q) /\ p.link = i /\ q.link = i => p = q
    <3>1. /\ links[i].honoured <= 1 /\ (links[i].honoured > 0 => ~links[i].live)
          /\ links[i] \in Mails
          BY DEF OpenedOnce, AuthInv, LinksOK
    <3>2. CASE i = r.link
      <4>1. \A q \in reqs' : Opening(q) /\ q.link = i => q = f
            BY <1>1, <2>1, <3>2
      <4>2. links[i].honoured = 0
            BY <1>3, <3>1, <3>2 DEF Mails
      <4> QED BY <1>3, <3>1, <3>2, <4>1, <4>2
    <3>3. CASE i # r.link
      <4>1. \A q \in reqs' : q.link = i => q \in reqs
            BY <1>1, <1>3, <3>3
      <4> QED BY <4>1 DEF OpenedOnce
    <3> QED BY <3>2, <3>3
  <2> QED BY <1>1, <2>2 DEF OpenedOnce
<1> QED BY <1>1, <1>2, <1>3

LEMMA ConsumeOpens ==
    ASSUME AuthInv, OpenedOnce, NEW r \in reqs, NEW done \in BOOLEAN, Consume(r, done)
    PROVE  OpenedOnce'
<1>0. r.answer = "held" /\ r.link \in 1..Len(links) /\ Opening(r)
      BY ConsumeKeeps DEF Opening
<1>1. PICK f \in AuthRequests :
         /\ reqs' = (reqs \ {r}) \cup {f}
         /\ \/ f.answer = "refused" /\ UNCHANGED links
            \/ /\ f.answer = "used" /\ f.link = r.link
               /\ links' = [links EXCEPT ![r.link] = [@ EXCEPT !.live = FALSE]]
      BY ConsumeKeeps
<1>2. CASE f.answer = "refused" /\ UNCHANGED links
      BY <1>1, <1>2, NoOpener DEF Opening
<1>3. CASE /\ f.answer = "used" /\ f.link = r.link
           /\ links' = [links EXCEPT ![r.link] = [@ EXCEPT !.live = FALSE]]
  <2> DEFINE l == [links[r.link] EXCEPT !.live = FALSE]
  <2>0. links[r.link] \in Mails /\ links[r.link].honoured = 0
        BY <1>0 DEF AuthInv, LinksOK, OpenedOnce
  <2>1. l \in Mails /\ l.honoured = 0 /\ ~l.live
        BY <2>0 DEF Mails
  <2>2. links' = [links EXCEPT ![r.link] = l]
        BY <1>3
  <2> HIDE DEF l
  <2>3. Len(links') = Len(links)
        /\ \A j \in 1..Len(links) : links'[j] = IF j = r.link THEN l ELSE links[j]
        BY <1>0, <2>1, <2>2, MailEdited DEF AuthInv
  <2>4. ASSUME NEW i \in 1..Len(links')
        PROVE  /\ links'[i].honoured <= 1 /\ (links'[i].honoured > 0 => ~links'[i].live)
               /\ \A q \in reqs' : Opening(q) /\ q.link = i =>
                     links'[i].honoured = 0 /\ (links'[i].live <=> q.answer = "held")
               /\ \A p, q \in reqs' :
                     Opening(p) /\ Opening(q) /\ p.link = i /\ q.link = i => p = q
    <3>1. CASE i = r.link
      <4>1. \A q \in reqs' : Opening(q) /\ q.link = i => q = f
            BY <1>0, <1>1, <3>1 DEF OpenedOnce
      <4>2. links'[i] = l /\ ~(f.answer = "held")
            BY <1>0, <1>3, <2>3, <3>1
      <4>3. \A q \in reqs' : Opening(q) /\ q.link = i =>
                  links'[i].honoured = 0 /\ (links'[i].live <=> q.answer = "held")
            BY <2>1, <4>1, <4>2, Zenon
      <4>4. links'[i].honoured <= 1 /\ (links'[i].honoured > 0 => ~links'[i].live)
            BY <2>1, <4>2
      <4> QED BY <4>1, <4>3, <4>4, Zenon
    <3>2. CASE i # r.link
      <4>1. links'[i] = links[i] /\ i \in 1..Len(links)
            BY <2>3, <3>2
      <4>2. \A q \in reqs' : q.link = i => q \in reqs
            BY <1>1, <1>3, <3>2
      <4> QED BY <4>1, <4>2 DEF OpenedOnce
    <3> QED BY <3>1, <3>2
  <2> QED BY <2>4 DEF OpenedOnce
<1> QED BY <1>1, <1>2, <1>3

LEMMA HonourOpens ==
    ASSUME AuthInv, OpenedOnce, NEW r \in reqs, NEW done \in BOOLEAN, NEW told \in BOOLEAN,
           Honour(r, done, told)
    PROVE  OpenedOnce'
<1>0. r.answer = "used" /\ r.link \in 1..Len(links) /\ Opening(r)
      BY HonourKeeps DEF Opening
<1>1. PICK f \in AuthRequests : reqs' = (reqs \ {r}) \cup {f} /\ f.answer \in {"ok", "failed"}
      BY HonourKeeps
<1>2. \A q \in reqs' : Opening(q) => q \in reqs \ {r}
      BY <1>1 DEF Opening
<1>3. CASE UNCHANGED links
      BY <1>2, <1>3, NoOpener
<1>4. CASE links' = [links EXCEPT ![r.link] = [@ EXCEPT !.honoured = links[r.link].honoured + 1]]
  <2> DEFINE l == [links[r.link] EXCEPT !.honoured = links[r.link].honoured + 1]
  <2>0. links[r.link] \in Mails /\ links[r.link].honoured = 0 /\ ~links[r.link].live
        BY <1>0 DEF AuthInv, LinksOK, OpenedOnce
  <2>1. l \in Mails /\ l.honoured = 1 /\ ~l.live
        BY <2>0 DEF Mails
  <2>2. links' = [links EXCEPT ![r.link] = l]
        BY <1>4
  <2> HIDE DEF l
  <2>3. Len(links') = Len(links)
        /\ \A j \in 1..Len(links) : links'[j] = IF j = r.link THEN l ELSE links[j]
        BY <1>0, <2>1, <2>2, MailEdited DEF AuthInv
  <2>4. ASSUME NEW i \in 1..Len(links')
        PROVE  /\ links'[i].honoured <= 1 /\ (links'[i].honoured > 0 => ~links'[i].live)
               /\ \A q \in reqs' : Opening(q) /\ q.link = i =>
                     links'[i].honoured = 0 /\ (links'[i].live <=> q.answer = "held")
               /\ \A p, q \in reqs' :
                     Opening(p) /\ Opening(q) /\ p.link = i /\ q.link = i => p = q
    <3>1. CASE i = r.link
      <4>1. \A q \in reqs' : ~(Opening(q) /\ q.link = i)
            BY <1>0, <1>2, <3>1 DEF OpenedOnce
      <4> QED BY <1>0, <2>1, <2>3, <3>1, <4>1
    <3>2. CASE i # r.link
      <4>1. links'[i] = links[i] /\ i \in 1..Len(links)
            BY <2>3, <3>2
      <4> QED BY <1>2, <4>1 DEF OpenedOnce
    <3> QED BY <3>1, <3>2
  <2> QED BY <2>4 DEF OpenedOnce
<1> QED BY <1>3, <1>4, HonourKeeps

LEMMA OpenedKeeps == AuthInv /\ OpenedOnce /\ [AuthNext]_authVars => OpenedOnce'
<1> SUFFICES ASSUME AuthInv, OpenedOnce, [AuthNext]_authVars PROVE OpenedOnce'
    OBVIOUS
<1>1. CASE UNCHANGED <<links, reqs>>
      BY <1>1, NoOpener
<1>2. CASE \/ GoHome \/ OpenSheet \/ CloseSheet \/ GoForgot \/ LeaveForgot \/ GoTo \/ SwitchMode
           \/ \E p \in {"empty", "some"} : ProvidersAnswer(p)
           \/ UNCHANGED authVars
  <2>1. UNCHANGED <<links, reqs>>
        BY <1>2, Zenon DEF GoHome, OpenSheet, CloseSheet, GoForgot, LeaveForgot, GoTo, SwitchMode,
                    ProvidersAnswer, Show, Fill, authVars
  <2> QED BY <1>1, <2>1
<1>3. CASE GoAuth
      BY <1>3, GoAuthOpens
<1>4. CASE \/ \E i \in DOMAIN links : OpenLink(i)
           \/ \E a \in Accounts \cup {Nobody} : OAuthReturns(a)
           \/ StartOAuth
      BY <1>4, LoadsOpen
<1>5. CASE \/ Logout
           \/ \E a \in Accounts \cup {Nobody} :
                  SubmitForgot(a) \/ \E p \in Passwords : SubmitCredentials(a, p)
           \/ \E p \in Passwords : SubmitReset(p)
      BY <1>5, FormsOpen
<1>6. ASSUME NEW r \in reqs, ServeForm(r) \/ LookUp(r) \/ Answer(r) PROVE OpenedOnce'
      BY <1>6, ServeOpens, LookUpOpens, AnswersOpen
<1>7. ASSUME NEW r \in reqs, NEW b \in BOOLEAN, Consume(r, b) \/ AnswerGone(r, b) \/ Fail(r, b)
      PROVE  OpenedOnce'
      BY <1>7, ConsumeOpens, AnswersOpen
<1>8. ASSUME NEW r \in reqs, NEW done \in BOOLEAN, NEW told \in BOOLEAN, Honour(r, done, told)
      PROVE  OpenedOnce'
      BY <1>8, HonourOpens
<1> QED BY <1>2, <1>3, <1>4, <1>5, <1>6, <1>7, <1>8, Zenon DEF AuthNext

\* users/tokens.go: for any accounts, links and requests under way, a mailed link changes
\* its account once at most: the lock lets one request at a time between the lookup and
\* the commit, which makes the link worthless before it is honoured.
THEOREM LinkOnceHolds == AuthSpec => []LinkOnce
<1>1. AuthInit => OpenedOnce
  <2> SUFFICES ASSUME AuthInit PROVE OpenedOnce
      OBVIOUS
  <2>1. links = <<>>
        BY Zenon DEF AuthInit
  <2> QED BY <2>1 DEF OpenedOnce
<1>2. AuthInv /\ OpenedOnce => LinkOnce
  <2> SUFFICES ASSUME AuthInv, OpenedOnce, NEW i \in DOMAIN links PROVE links[i].honoured <= 1
      BY DEF LinkOnce
  <2>1. i \in 1..Len(links)
        BY DEF AuthInv, LinksOK
  <2> QED BY <2>1 DEF OpenedOnce
<1> QED BY <1>1, <1>2, AuthStart, AuthKeeps, OpenedKeeps, PTL DEF AuthSpec

-----------------------------------------------------------------------------
(* The notebook *)

Cards == [kept : BOOLEAN, ease : 130..350, interval : Nat, reps : Nat, lapses : Nat,
          due : BOOLEAN]

\* The first two intervals of a word are the fixed ones of the schedule, which is why the
\* fixed steps of a good and of an easy recall never go back.
Scheduled(c) == /\ c.reps = 0 => c.interval = 0
                /\ c.reps = 1 => c.interval <= 6000

CardsInv == cards \in [Words -> Cards] /\ \A w \in Words : Scheduled(cards[w])

\* An interval that is multiplied by one at least.
LEMMA FactorGrows ==
    ASSUME NEW i \in Nat, NEW f \in Nat, NEW d \in Nat \ {0}, f >= d
    PROVE  (i * f) \div d \in Nat /\ (i * f) \div d >= i
<1> DEFINE more == i * (f - d)
<1>1. f - d \in Nat
      OBVIOUS
<1>2. more \in Nat
      BY <1>1
<1>3. i * f = i * d + more
      OBVIOUS
<1> HIDE DEF more
<1>4. \A n \in Nat : (i * d + n) \div d \in Nat /\ (i * d + n) \div d >= i
      OBVIOUS
<1> QED BY <1>2, <1>3, <1>4

LEMMA ClampBounds == \A e \in Int : Clamp(e) \in 130..350
BY DEF Clamp

\* The grade put the word off.
LEMMA NoLongerDue ==
    ASSUME NEW g \in Cards
    PROVE  LET d == [g EXCEPT !.due = FALSE]
           IN d \in Cards /\ d.interval = g.interval /\ d.reps = g.reps /\ d.lapses = g.lapses
BY Zenon DEF Cards

\* What a grade makes of a word, for any word and grade.
LEMMA ReviewKeeps ==
    ASSUME NEW c \in Cards, Scheduled(c), NEW grade \in Grades
    PROVE  /\ NextReview(c, grade) \in Cards /\ Scheduled(NextReview(c, grade))
           /\ NextReview(c, grade).interval < c.interval
                => NextReview(c, grade).lapses > c.lapses
<1>0. /\ c.ease \in 130..350 /\ c.interval \in Nat /\ c.reps \in Nat /\ c.lapses \in Nat
      /\ c.reps = 0 => c.interval = 0
      /\ c.reps = 1 => c.interval <= 6000
      BY DEF Cards, Scheduled
<1>1. /\ c.reps + 1 \in Nat /\ c.lapses + 1 \in Nat /\ c.reps + 1 # 0 /\ 0 \in Nat
      /\ c.ease - 20 \in Int /\ c.ease - 15 \in Int /\ c.ease + 15 \in Int
      /\ c.lapses + 1 > c.lapses /\ (c.reps + 1 = 1 => c.reps = 0)
      /\ c.ease \in Nat /\ c.ease >= 100 /\ 100 \in Nat \ {0} /\ 0 # 1
      BY <1>0
\* It is enough to look at the card before it is put off.
<1>2. ASSUME NEW g \in Cards, NextReview(c, grade) = [g EXCEPT !.due = FALSE],
             Scheduled(g), g.interval >= c.interval \/ g.lapses > c.lapses
      PROVE  /\ NextReview(c, grade) \in Cards /\ Scheduled(NextReview(c, grade))
             /\ NextReview(c, grade).interval < c.interval
                  => NextReview(c, grade).lapses > c.lapses
  <2> DEFINE d == NextReview(c, grade)
  <2>1. d \in Cards /\ d.interval = g.interval /\ d.reps = g.reps /\ d.lapses = g.lapses
        BY <1>2, NoLongerDue
  <2>2. g.interval \in Nat /\ c.interval \in Nat
        BY <1>2 DEF Cards
  <2> HIDE DEF d
  <2>3. Scheduled(d) /\ (d.interval < c.interval => d.lapses > c.lapses)
        BY <1>2, <2>1, <2>2 DEF Scheduled
  <2> QED BY <2>1, <2>3 DEF d
<1>3. CASE grade = "again"
  <2> DEFINE e == Clamp(c.ease - 20)
             g == Lapsed(c)
  <2>1. e \in 130..350
        BY <1>1, ClampBounds
  <2>2. /\ NextReview(c, grade) = [g EXCEPT !.due = FALSE]
        /\ g = [c EXCEPT !.lapses = c.lapses + 1, !.reps = 0, !.interval = 0, !.ease = e]
        BY <1>3 DEF NextReview, Lapsed
  <2> HIDE DEF g, e
  <2>3. g \in Cards /\ g.interval = 0 /\ g.reps = 0 /\ g.lapses = c.lapses + 1
        BY <1>1, <2>1, <2>2, Zenon DEF Cards
  <2>4. Scheduled(g) /\ g.lapses > c.lapses
        BY <1>1, <2>3 DEF Scheduled
  <2> QED BY <1>2, <2>2, <2>3, <2>4
<1>4. CASE grade = "hard"
  <2> DEFINE e == Clamp(c.ease - 15)
             i == IF c.interval < 1000 THEN 1000 ELSE (c.interval * 6) \div 5
             r == c.reps + 1
             g == Hard(c)
  <2>1. e \in 130..350 /\ r \in Nat
        BY <1>1, ClampBounds
  <2>2. i \in Nat /\ i >= c.interval /\ r # 0 /\ (r = 1 => i <= 6000)
        BY <1>0, <1>1
  <2>3. /\ NextReview(c, grade) = [g EXCEPT !.due = FALSE]
        /\ g = [c EXCEPT !.reps = r, !.ease = e, !.interval = i]
        BY <1>4 DEF NextReview, Hard
  <2> HIDE DEF e, i, r, g
  <2>4. g \in Cards /\ g.interval = i /\ g.reps = r
    <3>1. i \in Nat
          BY <2>2
    <3>2. g \in Cards
          BY <2>1, <2>3, <3>1, Zenon DEF Cards
    <3>3. g.interval = i /\ g.reps = r
          BY <2>3, Zenon DEF Cards
    <3> QED BY <3>2, <3>3
  <2>5. Scheduled(g) /\ g.interval >= c.interval
        BY <2>2, <2>4 DEF Scheduled
  <2> QED BY <1>2, <2>3, <2>4, <2>5
<1>5. CASE grade = "good"
  <2> DEFINE i == CASE c.reps = 0 -> 1000
                    [] c.reps = 1 -> 6000
                    [] OTHER      -> (c.interval * c.ease) \div 100
             r == c.reps + 1
             g == Good(c)
  <2>1. /\ (c.interval * c.ease) \div 100 \in Nat
        /\ (c.interval * c.ease) \div 100 >= c.interval
        BY <1>0, <1>1, FactorGrows
  <2>2. i \in Nat /\ i >= c.interval /\ (c.reps = 0 => i = 1000)
        BY <1>0, <2>1
  <2>3. /\ NextReview(c, grade) = [g EXCEPT !.due = FALSE]
        /\ g = [c EXCEPT !.reps = r, !.interval = i]
        BY <1>5 DEF NextReview, Good
  <2> HIDE DEF i, g
  <2>4. r \in Nat /\ r # 0 /\ (r = 1 => i <= 6000)
        BY <1>1, <2>2
  <2> HIDE DEF r
  <2>5. g \in Cards /\ g.interval = i /\ g.reps = r
    <3>1. i \in Nat /\ r \in Nat
          BY <2>2, <2>4
    <3> QED BY <2>3, <3>1, Zenon DEF Cards
  <2>6. Scheduled(g) /\ g.interval >= c.interval
        BY <2>2, <2>4, <2>5 DEF Scheduled
  <2> QED BY <1>2, <2>3, <2>5, <2>6
<1>6. CASE grade = "easy"
  <2> DEFINE e == Clamp(c.ease + 15)
             i == CASE c.reps = 0 -> 4000
                    [] c.reps > 0 /\ c.interval < 6000 -> 6000
                    [] OTHER -> (c.interval * e * 13) \div 1000
             r == c.reps + 1
             g == Easy(c)
  <2>1. e \in 130..350
        BY <1>1, ClampBounds
  <2>2. /\ NextReview(c, grade) = [g EXCEPT !.due = FALSE]
        /\ g = [c EXCEPT !.reps = r, !.ease = e, !.interval = i]
        BY <1>6 DEF NextReview, Easy
  <2> HIDE DEF e, g
  <2>3. /\ (c.interval * e * 13) \div 1000 \in Nat
        /\ (c.interval * e * 13) \div 1000 >= c.interval
    <3>1. e * 13 \in Nat /\ e * 13 >= 1000 /\ 1000 \in Nat \ {0}
          BY <2>1
    <3>2. /\ (c.interval * (e * 13)) \div 1000 \in Nat
          /\ (c.interval * (e * 13)) \div 1000 >= c.interval
          BY <1>0, <3>1, FactorGrows
    <3>3. c.interval * (e * 13) = c.interval * e * 13
          BY <1>0, <2>1
    <3> QED BY <3>2, <3>3
  <2>4. i \in Nat /\ i >= c.interval /\ (c.reps = 0 => i = 4000)
        BY <1>0, <2>3
  <2> HIDE DEF i
  <2>5. r \in Nat /\ r # 0 /\ (r = 1 => i <= 6000)
        BY <1>1, <2>4
  <2> HIDE DEF r
  <2>6. g \in Cards /\ g.interval = i /\ g.reps = r
    <3>1. i \in Nat /\ r \in Nat
          BY <2>4, <2>5
    <3> QED BY <2>1, <2>2, <3>1, Zenon DEF Cards
  <2>7. Scheduled(g) /\ g.interval >= c.interval
        BY <2>4, <2>5, <2>6 DEF Scheduled
  <2> QED BY <1>2, <2>2, <2>6, <2>7
<1> QED BY <1>3, <1>4, <1>5, <1>6 DEF Grades

-----------------------------------------------------------------------------
LEMMA CardsStart == VocabInit => CardsInv
<1> SUFFICES ASSUME VocabInit PROVE CardsInv
    OBVIOUS
<1> DEFINE new == [kept |-> TRUE, ease |-> 250, interval |-> 0, reps |-> 0, lapses |-> 0,
                   due |-> TRUE]
<1>1. cards = [w \in Words |-> new]
      BY DEF VocabInit
<1>2. new \in Cards /\ Scheduled(new)
      BY DEF Cards, Scheduled
<1> HIDE DEF new
<1> QED BY <1>1, <1>2 DEF CardsInv

\* A word that is kept, deleted or due keeps its numbers.
LEMMA FlagOfCard ==
    ASSUME CardsInv, NEW w \in Words, NEW b \in BOOLEAN
    PROVE  /\ [cards[w] EXCEPT !.kept = b] \in Cards /\ [cards[w] EXCEPT !.due = b] \in Cards
           /\ [cards[w] EXCEPT !.kept = b].interval = cards[w].interval
           /\ [cards[w] EXCEPT !.due = b].interval = cards[w].interval
           /\ [cards[w] EXCEPT !.kept = b].reps = cards[w].reps
           /\ [cards[w] EXCEPT !.due = b].reps = cards[w].reps
<1>1. cards[w] \in Cards
      BY DEF CardsInv
<1> DEFINE c == cards[w]
<1> HIDE DEF c
<1>2. ASSUME c \in Cards
      PROVE  /\ [c EXCEPT !.kept = b] \in Cards /\ [c EXCEPT !.due = b] \in Cards
             /\ [c EXCEPT !.kept = b].interval = c.interval
             /\ [c EXCEPT !.due = b].interval = c.interval
             /\ [c EXCEPT !.kept = b].reps = c.reps
             /\ [c EXCEPT !.due = b].reps = c.reps
      BY <1>2, Zenon DEF Cards
<1> QED BY <1>1, <1>2 DEF c

\* Each word is kept as it was but for a flag, or is graded.
LEMMA CardsMove ==
    ASSUME CardsInv, cards' \in [Words -> Cards],
           \A w \in Words :
              \/ cards'[w].interval = cards[w].interval /\ cards'[w].reps = cards[w].reps
              \/ \E grade \in Grades : cards'[w] = NextReview(cards[w], grade)
    PROVE  CardsInv' /\ NeverShortens
<1> SUFFICES ASSUME NEW w \in Words
             PROVE  /\ Scheduled(cards'[w])
                    /\ cards'[w].interval < cards[w].interval
                         => cards'[w].lapses > cards[w].lapses
    BY DEF CardsInv, NeverShortens
<1>1. cards[w] \in Cards /\ Scheduled(cards[w])
      BY DEF CardsInv
<1>2. CASE cards'[w].interval = cards[w].interval /\ cards'[w].reps = cards[w].reps
  <2>1. cards[w].interval \in Nat
        BY <1>1 DEF Cards
  <2> QED BY <1>1, <1>2, <2>1 DEF Scheduled
<1>3. ASSUME NEW grade \in Grades, cards'[w] = NextReview(cards[w], grade)
      PROVE  /\ Scheduled(cards'[w])
             /\ cards'[w].interval < cards[w].interval
                  => cards'[w].lapses > cards[w].lapses
      BY <1>1, <1>3, ReviewKeeps
<1> QED BY <1>2, <1>3

LEMMA ApplyReviewKeeps ==
    ASSUME CardsInv, NEW w, NEW grade \in Grades, ApplyReview(w, grade)
    PROVE  CardsInv' /\ NeverShortens
<1>0. cards \in [Words -> Cards]
      BY DEF CardsInv
<1>1. cards' = [cards EXCEPT ![w] = NextReview(@, grade)]
      BY DEF ApplyReview
<1>2. w \in Words => NextReview(cards[w], grade) \in Cards
      BY ReviewKeeps DEF CardsInv
<1>3. cards' \in [Words -> Cards]
      BY <1>0, <1>1, <1>2
<1>4. \A v \in Words : cards'[v] = cards[v] \/ cards'[v] = NextReview(cards[v], grade)
      BY <1>0, <1>1
<1> QED BY <1>3, <1>4, CardsMove

LEMMA CardsRest == CardsInv /\ UNCHANGED cards => CardsInv' /\ NeverShortens
<1> SUFFICES ASSUME CardsInv, UNCHANGED cards PROVE CardsInv' /\ NeverShortens
    OBVIOUS
<1>1. cards' \in [Words -> Cards] /\ \A w \in Words : cards'[w] = cards[w]
      BY DEF CardsInv
<1> QED BY <1>1, CardsMove

\* The server: reads, deletions, grades of the page.
LEMMA ServeCallKeeps ==
    ASSUME CardsInv, NEW k, ServeCall(k), \A j \in DOMAIN vocabCalls : vocabCalls[j].grade \in Grades
    PROVE  CardsInv' /\ NeverShortens
<1>1. CASE UNCHANGED cards
      BY <1>1, CardsRest
<1>2. ASSUME NEW w, ApplyReview(w, vocabCalls[k].grade), k \in DOMAIN vocabCalls
      PROVE  CardsInv' /\ NeverShortens
      BY <1>2, ApplyReviewKeeps
<1>3. ASSUME NEW of, cards' = [w \in Words |-> IF w \in of THEN [cards[w] EXCEPT !.kept = FALSE]
                                                          ELSE cards[w]]
      PROVE  CardsInv' /\ NeverShortens
  <2>1. cards' \in [Words -> Cards]
        BY <1>3, FlagOfCard DEF CardsInv
  <2>2. \A w \in Words : /\ cards'[w].interval = cards[w].interval
                         /\ cards'[w].reps = cards[w].reps
        BY <1>3, FlagOfCard
  <2> QED BY <2>1, <2>2, CardsMove
<1> QED BY <1>1, <1>2, <1>3, Zenon DEF ServeCall

-----------------------------------------------------------------------------
(* The page around the cards *)

Stacks == [entries : Seq(Words), total : Nat]
Decks == [open : BOOLEAN, idx : Nat, revealed : BOOLEAN, grading : BOOLEAN]

NotebookInv ==
    /\ seen \subseteq Words /\ given \in 0..MaxGrades /\ list \subseteq Words
    /\ loading \in BOOLEAN /\ stack \in Stacks /\ deck \in Decks
    /\ vocabCalls \in Seq(Call) /\ Len(vocabCalls) <= MaxVocabCalls

VocabInv == CardsInv /\ NotebookInv

LEMMA VocabBounds == MaxGrades \in Nat /\ MaxVocabCalls \in Nat /\ MaxVocabCalls >= 2
                     /\ Batch \in Nat /\ IsFiniteSet(Words)
BY VocabAssumption DEF VocabAssumption

LEMMA NewCallOK ==
    ASSUME NEW kind \in {"list", "due", "delete", "grade"}, NEW of \in SUBSET Words,
           NEW grade \in Grades, NEW prev \in SUBSET Words
    PROVE  NewCall(kind, of, grade) \in Call
           /\ [NewCall(kind, of, grade) EXCEPT !.prev = prev] \in Call
<1>1. <<>> \in Seq(Words) /\ 0 \in Nat /\ {} \in SUBSET Words /\ TRUE \in BOOLEAN
      /\ "sent" \in {"sent", "done", "failed"}
      OBVIOUS
<1>2. NewCall(kind, of, grade) \in Call
      BY <1>1, Zenon DEF NewCall, Call
<1> QED BY <1>2, Zenon DEF Call

LEMMA NotebookStart == VocabInit => VocabInv
<1> SUFFICES ASSUME VocabInit PROVE VocabInv
    OBVIOUS
<1>1. /\ seen = {} /\ given = 0 /\ list = {} /\ loading = TRUE
      /\ stack = [entries |-> <<>>, total |-> 0] /\ deck = NoDeck
      /\ vocabCalls = <<NewCall("list", {}, "good"), NewCall("due", {}, "good")>>
      BY DEF VocabInit
<1>2. NewCall("list", {}, "good") \in Call /\ NewCall("due", {}, "good") \in Call
      BY NewCallOK DEF Grades
<1>3. vocabCalls \in Seq(Call) /\ Len(vocabCalls) = 2
      BY <1>1, <1>2
<1>4. stack \in Stacks /\ deck \in Decks
      BY <1>1 DEF Stacks, Decks, NoDeck
<1> QED BY <1>1, <1>3, <1>4, CardsStart, VocabBounds DEF VocabInv, NotebookInv

\* A request that leaves, one that changes on its way, one that is answered.
LEMMA CallsMove ==
    ASSUME NotebookInv
    PROVE  /\ \A c \in Call : SendCall(c) =>
                 vocabCalls' \in Seq(Call) /\ Len(vocabCalls') <= MaxVocabCalls
           /\ \A k \in DOMAIN vocabCalls : vocabCalls[k] \in Call
           /\ \A k \in DOMAIN vocabCalls, c \in Call :
                 vocabCalls' = [vocabCalls EXCEPT ![k] = c] =>
                 vocabCalls' \in Seq(Call) /\ Len(vocabCalls') <= MaxVocabCalls
           /\ \A k \in DOMAIN vocabCalls :
                 vocabCalls' = RemoveAt(vocabCalls, k) =>
                 vocabCalls' \in Seq(Call) /\ Len(vocabCalls') <= MaxVocabCalls
<1>0. vocabCalls \in Seq(Call) /\ Len(vocabCalls) <= MaxVocabCalls /\ Len(vocabCalls) \in Nat
      BY DEF NotebookInv
<1>1. ASSUME NEW c \in Call, SendCall(c)
      PROVE  vocabCalls' \in Seq(Call) /\ Len(vocabCalls') <= MaxVocabCalls
      BY <1>0, <1>1, VocabBounds DEF SendCall, Room
<1>2. ASSUME NEW k \in DOMAIN vocabCalls, vocabCalls' = RemoveAt(vocabCalls, k)
      PROVE  vocabCalls' \in Seq(Call) /\ Len(vocabCalls') <= MaxVocabCalls
      BY <1>0, <1>2, RemoveAtKeeps, VocabBounds
<1>3. ASSUME NEW k \in DOMAIN vocabCalls, NEW c \in Call,
             vocabCalls' = [vocabCalls EXCEPT ![k] = c]
      PROVE  vocabCalls' \in Seq(Call) /\ Len(vocabCalls') <= MaxVocabCalls
      BY <1>0, <1>3
<1>4. \A k \in DOMAIN vocabCalls : vocabCalls[k] \in Call
      BY <1>0
<1> QED BY <1>1, <1>2, <1>3, <1>4

\* A conversation that reviews, and time.
LEMMA ContextKeeps ==
    ASSUME VocabInv, NEW w \in Words, FoundInContext(w) \/ ReviewInContext(w) \/ FallsDue(w)
    PROVE  VocabInv' /\ NeverShortens
<1>0. CardsInv /\ NotebookInv /\ "good" \in Grades
      BY DEF VocabInv, Grades
<1>1. CASE FoundInContext(w)
      BY <1>0, <1>1, CardsRest DEF FoundInContext, Page, VocabInv, NotebookInv
<1>2. CASE ReviewInContext(w)
  <2>1. CardsInv' /\ NeverShortens
        BY <1>0, <1>2, CardsRest, ApplyReviewKeeps DEF ReviewInContext
  <2>2. given' \in 0..MaxGrades
        BY <1>0, <1>2, VocabBounds DEF ReviewInContext, ApplyReview, NotebookInv
  <2> QED BY <1>0, <1>2, <2>1, <2>2 DEF ReviewInContext, Page, VocabInv, NotebookInv
<1>3. CASE FallsDue(w)
  <2>1. cards' = [cards EXCEPT ![w].due = TRUE] /\ cards \in [Words -> Cards]
        BY <1>0, <1>3 DEF FallsDue, CardsInv
  <2>2. cards' \in [Words -> Cards]
        BY <1>0, <2>1, FlagOfCard
  <2>3. \A v \in Words : cards'[v].interval = cards[v].interval
                         /\ cards'[v].reps = cards[v].reps
        BY <1>0, <2>1, FlagOfCard
  <2>4. CardsInv' /\ NeverShortens
        BY <1>0, <2>2, <2>3, CardsMove
  <2> QED BY <1>0, <1>3, <2>4 DEF FallsDue, Page, VocabInv, NotebookInv
<1> QED BY <1>1, <1>2, <1>3

\* The words due, in whatever order, and the first ones of them.
LEMMA DueStack ==
    ASSUME NEW order \in SetToSeqs(DueNow),
           NEW n, n = (IF Len(order) < Batch THEN Len(order) ELSE Batch)
    PROVE  Len(order) \in Nat /\ SubSeq(order, 1, n) \in Seq(Words)
<1>1. IsFiniteSet(DueNow) /\ DueNow \subseteq Words
      BY VocabBounds, FS_Subset DEF DueNow
<1>2. Cardinality(DueNow) \in Nat
      BY <1>1, FS_CardinalityType
<1>3. order \in [1..Cardinality(DueNow) -> Words]
      BY <1>1 DEF SetToSeqs
<1>4. order \in Seq(Words) /\ Len(order) \in Nat
      BY <1>2, <1>3
<1>5. n \in Nat /\ n <= Len(order)
      BY <1>4, VocabBounds
<1> QED BY <1>4, <1>5

\* The server answers, or the network loses the request or the answer.
LEMMA ServedKeeps ==
    ASSUME VocabInv, NEW k, ServeCall(k) \/ LoseCall(k)
    PROVE  VocabInv' /\ NeverShortens
<1>0. CardsInv /\ NotebookInv
      BY DEF VocabInv
<1> DEFINE c == vocabCalls[k]
<1>1. /\ k \in DOMAIN vocabCalls /\ c \in Call
      /\ UNCHANGED <<seen, list, loading, stack, deck>>
      BY <1>0, CallsMove DEF ServeCall, LoseCall
<1>2. \A j \in DOMAIN vocabCalls : vocabCalls[j].grade \in Grades
      BY <1>0, CallsMove, Zenon DEF Call
<1>3. CardsInv' /\ NeverShortens
      BY <1>0, <1>2, ServeCallKeeps, CardsRest DEF LoseCall
<1>4. given' \in 0..MaxGrades
  <2>1. given' = given \/ (given < MaxGrades /\ given' = given + 1)
        BY Zenon DEF ServeCall, LoseCall, ApplyReview
  <2> QED BY <1>0, <2>1, VocabBounds DEF NotebookInv
<1>5. \E d \in Call : vocabCalls' = [vocabCalls EXCEPT ![k] = d]
  <2> HIDE DEF c
  <2>1. /\ [c EXCEPT !.state = "done"] \in Call /\ [c EXCEPT !.state = "failed"] \in Call
        BY <1>1 DEF Call
  <2>2. CASE LoseCall(k)
        BY <2>1, <2>2 DEF LoseCall, c
  <2>3. CASE c.kind = "list" /\ ServeCall(k)
    <3>1. vocabCalls' = [vocabCalls EXCEPT ![k] =
             [[c EXCEPT !.state = "done"] EXCEPT !.of = {w \in Words : cards[w].kept}]]
          BY <2>3 DEF ServeCall, c
    <3>2. {w \in Words : cards[w].kept} \in SUBSET Words
          OBVIOUS
    <3>3. [[c EXCEPT !.state = "done"] EXCEPT !.of = {w \in Words : cards[w].kept}] \in Call
          BY <2>1, <3>2, Zenon DEF Call
    <3> QED BY <3>1, <3>3
  <2>4. CASE c.kind = "due" /\ ServeCall(k)
    <3>1. PICK order \in SetToSeqs(DueNow) :
            vocabCalls' = [vocabCalls EXCEPT ![k] = [[c EXCEPT !.state = "done"] EXCEPT
               !.total = Len(order),
               !.entries = SubSeq(order, 1, IF Len(order) < Batch THEN Len(order) ELSE Batch)]]
          BY <2>4 DEF ServeCall, c
    <3> DEFINE first == SubSeq(order, 1, IF Len(order) < Batch THEN Len(order) ELSE Batch)
    <3>2. Len(order) \in Nat /\ first \in Seq(Words)
          BY DueStack
    <3> HIDE DEF first
    <3>3. [[c EXCEPT !.state = "done"] EXCEPT !.total = Len(order), !.entries = first] \in Call
          BY <2>1, <3>2, Zenon DEF Call
    <3> QED BY <3>1, <3>3 DEF first
  <2>5. CASE c.kind \in {"delete", "grade"} /\ ServeCall(k)
        BY <2>1, <2>5 DEF ServeCall, c
  <2> QED BY <2>2, <2>3, <2>4, <2>5 DEF ServeCall, c
<1>6. vocabCalls' \in Seq(Call) /\ Len(vocabCalls') <= MaxVocabCalls
      BY <1>0, <1>1, <1>5, CallsMove
<1> QED BY <1>0, <1>1, <1>3, <1>4, <1>6 DEF VocabInv, NotebookInv

\* The page and the review player.
LEMMA ReviewPlayerKeeps ==
    ASSUME VocabInv,
           \/ StartReview \/ Reveal \/ CloseReview
           \/ \E w \in Words : Delete(w)
           \/ \E g \in Grades : Grade(g)
    PROVE  VocabInv' /\ NeverShortens
<1>0. CardsInv /\ NotebookInv /\ deck \in Decks /\ list \subseteq Words
      /\ "good" \in Grades /\ {} \in SUBSET Words
      BY DEF VocabInv, NotebookInv, Grades
<1>1. CardsInv' /\ NeverShortens
      BY <1>0, CardsRest DEF StartReview, Reveal, CloseReview, Delete, Grade
<1>2. deck' \in Decks
  <2>1. \/ deck' = deck \/ deck' = NoDeck \/ deck' = [NoDeck EXCEPT !.open = TRUE]
        \/ deck' = [deck EXCEPT !.revealed = TRUE] \/ deck' = [deck EXCEPT !.grading = TRUE]
        BY Zenon DEF StartReview, Reveal, CloseReview, Delete, Grade
  <2>2. NoDeck \in Decks
        BY DEF NoDeck, Decks
  <2>3. \A d \in Decks : /\ [d EXCEPT !.open = TRUE] \in Decks
                         /\ [d EXCEPT !.revealed = TRUE] \in Decks
                         /\ [d EXCEPT !.grading = TRUE] \in Decks
        BY Zenon DEF Decks
  <2> QED BY <1>0, <2>1, <2>2, <2>3
<1>3. UNCHANGED <<seen, given, loading, stack>> /\ list' \subseteq Words
      BY <1>0 DEF StartReview, Reveal, CloseReview, Delete, Grade
<1>4. vocabCalls' \in Seq(Call) /\ Len(vocabCalls') <= MaxVocabCalls
  <2>1. CASE UNCHANGED vocabCalls
        BY <1>0, <2>1 DEF NotebookInv
  <2>2. ASSUME NEW w \in Words, Delete(w)
        PROVE  vocabCalls' \in Seq(Call) /\ Len(vocabCalls') <= MaxVocabCalls
    <3>1. [NewCall("delete", {w}, "good") EXCEPT !.prev = list] \in Call
          BY <1>0, NewCallOK
    <3> QED BY <1>0, <2>2, <3>1, CallsMove DEF Delete
  <2>3. ASSUME NEW g \in Grades, Grade(g)
        PROVE  vocabCalls' \in Seq(Call) /\ Len(vocabCalls') <= MaxVocabCalls
    <3>1. Current \in SUBSET Words
      <4>1. deck.idx \in Nat /\ stack.entries \in Seq(Words)
            BY <1>0 DEF Decks, NotebookInv, Stacks
      <4> QED BY <4>1 DEF Current
    <3>2. NewCall("grade", Current, g) \in Call
          BY <1>0, <3>1, NewCallOK
    <3> QED BY <1>0, <2>3, <3>2, CallsMove DEF Grade
  <2>4. CASE CloseReview
    <3> DEFINE unheard == [k \in DOMAIN vocabCalls |->
                             [vocabCalls[k] EXCEPT !.heard = vocabCalls[k].kind # "grade"]]
    <3>1. /\ vocabCalls' = Append(unheard, NewCall("due", {}, "good"))
          /\ Len(vocabCalls) < MaxVocabCalls
          BY <2>4 DEF CloseReview, Room
    <3>2. \A k \in DOMAIN vocabCalls :
             [vocabCalls[k] EXCEPT !.heard = vocabCalls[k].kind # "grade"] \in Call
      <4>1. \A c \in Call, b \in BOOLEAN : [c EXCEPT !.heard = b] \in Call
            BY Zenon DEF Call
      <4> QED BY <1>0, <4>1, CallsMove
    <3>3. DOMAIN vocabCalls = 1..Len(vocabCalls) /\ Len(vocabCalls) \in Nat
          BY <1>0 DEF NotebookInv
    <3>4. unheard \in [1..Len(vocabCalls) -> Call]
          BY <3>2, <3>3
    <3> HIDE DEF unheard
    <3>5. unheard \in Seq(Call) /\ Len(unheard) = Len(vocabCalls)
          BY <3>3, <3>4
    <3>6. NewCall("due", {}, "good") \in Call
          BY <1>0, NewCallOK
    <3> QED BY <3>1, <3>3, <3>5, <3>6, VocabBounds
  <2> QED BY <2>1, <2>2, <2>3, <2>4 DEF StartReview, Reveal
<1> QED BY <1>0, <1>1, <1>2, <1>3, <1>4 DEF VocabInv, NotebookInv

\* An answer that comes back: a list, a stack, a deletion undone, the next card.
LEMMA CallReturnsKeeps ==
    ASSUME VocabInv, NEW k, CallReturns(k)
    PROVE  VocabInv' /\ NeverShortens
<1>0. CardsInv /\ NotebookInv
      BY DEF VocabInv
<1>1. /\ k \in DOMAIN vocabCalls /\ vocabCalls' = RemoveAt(vocabCalls, k)
      /\ UNCHANGED <<cards, seen, given>>
      BY DEF CallReturns
<1> DEFINE c == vocabCalls[k]
<1>2. c \in Call
      BY <1>0, <1>1, CallsMove
<1>3. /\ list' = list \/ list' = c.of \/ list' = c.prev
      /\ stack' = stack \/ stack' = [entries |-> c.entries, total |-> c.total]
      /\ loading' \in BOOLEAN
      /\ deck' = deck \/ deck' = NextCard
      BY <1>0 DEF CallReturns, NotebookInv
<1> HIDE DEF c
<1>4. list' \subseteq Words
      BY <1>0, <1>2, <1>3 DEF Call, NotebookInv
<1>5. stack' \in Stacks
  <2>1. c.entries \in Seq(Words) /\ c.total \in Nat
        BY <1>2, Zenon DEF Call
  <2>2. [entries |-> c.entries, total |-> c.total] \in Stacks
        BY <2>1 DEF Stacks
  <2> QED BY <1>0, <1>3, <2>2 DEF NotebookInv
<1>6. deck' \in Decks
  <2>1. deck.idx + 1 \in Nat /\ deck \in Decks
        BY <1>0 DEF NotebookInv, Decks
  <2>2. NextCard \in Decks
        BY <2>1, Zenon DEF NextCard, Decks
  <2> QED BY <1>3, <2>1, <2>2
<1>7. vocabCalls' \in Seq(Call) /\ Len(vocabCalls') <= MaxVocabCalls
      BY <1>0, <1>1, CallsMove
<1>8. CardsInv' /\ NeverShortens
      BY <1>0, <1>1, CardsRest
<1> QED BY <1>0, <1>1, <1>3, <1>4, <1>5, <1>6, <1>7, <1>8 DEF VocabInv, NotebookInv

LEMMA VocabKeeps == VocabInv /\ [VocabNext]_vocabVars => VocabInv' /\ NeverShortens
<1> SUFFICES ASSUME VocabInv, [VocabNext]_vocabVars PROVE VocabInv' /\ NeverShortens
    OBVIOUS
<1>1. CASE VocabNext
  <2>1. ASSUME NEW k, ServeCall(k) \/ LoseCall(k) \/ CallReturns(k)
        PROVE  VocabInv' /\ NeverShortens
        BY <2>1, ServedKeeps, CallReturnsKeeps
  <2>2. ASSUME NEW w \in Words, FoundInContext(w) \/ ReviewInContext(w) \/ FallsDue(w)
        PROVE  VocabInv' /\ NeverShortens
        BY <2>2, ContextKeeps
  <2>3. CASE \/ StartReview \/ Reveal \/ CloseReview
             \/ \E w \in Words : Delete(w)
             \/ \E g \in Grades : Grade(g)
        BY <2>3, ReviewPlayerKeeps
  <2> QED BY <1>1, <2>1, <2>2, <2>3, Zenon DEF VocabNext
<1>2. CASE UNCHANGED vocabVars
      BY <1>2, CardsRest DEF vocabVars, VocabInv, NotebookInv
<1> QED BY <1>1, <1>2

\* Every variable of the notebook keeps its type, the eases and intervals of srs.go too.
THEOREM VocabTypes == VocabSpec => []VocabTypeOK
<1>1. VocabInv => VocabTypeOK
      BY DEF VocabInv, CardsInv, Cards, NotebookInv, Stacks, Decks, VocabTypeOK
<1> QED BY <1>1, NotebookStart, VocabKeeps, PTL DEF VocabSpec

\* srs.go: for any words and grades, given in a conversation and in the player, an
\* interval goes back by a lapse only.
THEOREM RecallNeverShortensHolds == VocabSpec => RecallNeverShortens
<1>1. VocabInv /\ [VocabNext]_vocabVars => VocabInv' /\ [NeverShortens]_vocabVars
      BY VocabKeeps
<1> QED BY <1>1, NotebookStart, PTL DEF VocabSpec, RecallNeverShortens

-----------------------------------------------------------------------------
(* The photos *)

\* A request that is still to be served names a slot, and its picture if it has one; the
\* photo that is compared is a photo.
SaneRequest(r) ==
    /\ {"state", "picture"} \subseteq DOMAIN r
    /\ r.state = "sent" /\ r.kind \in {"set", "delete"} => r.at \in Slots
    /\ r.state = "sent" /\ r.kind = "set" => r.picture \in Pictures
    /\ r.state = "compared" => r.picture \in Pictures

CallsOK == \E S : requests \in Seq(S) /\ \A r \in S : SaneRequest(r)

\* A certification is about a photo, the first one when it was given; or about none.
RowsOK ==
    /\ photos \in Seq(Pictures)
    /\ certified => /\ compared \in Pictures
                    /\ vouched = compared => Main(photos) = compared
                    /\ vouched # compared => vouched \in {Main(photos), NoPicture}

PhotosInv == RowsOK /\ CallsOK

LEMMA MainIs ==
    /\ Main(<<>>) = NoPicture /\ NoPicture \notin Pictures
    /\ \A s \in Seq(Pictures) : s # <<>> => Main(s) = s[1] /\ Main(s) \in Pictures
<1>1. NoPicture \notin Pictures
      BY PhotosAssumption DEF PhotosAssumption
<1>2. ASSUME NEW s \in Seq(Pictures), s # <<>> PROVE Main(s) = s[1] /\ Main(s) \in Pictures
      BY <1>2 DEF Main
<1> QED BY <1>1, <1>2 DEF Main

\* A write that takes nothing back leaves the first photo.
LEMMA WriteKeeps ==
    ASSUME RowsOK, NEW s \in Seq(Pictures), NEW resets \in BOOLEAN, Write(s, resets),
           photos # <<>> /\ ~resets => Main(s) = Main(photos)
    PROVE  RowsOK'
<1>1. /\ photos' = s /\ certified' = (certified /\ ~resets)
      /\ certified' => compared' = compared /\ vouched' = vouched
      BY DEF Write
<1>2. Main(photos)' = Main(s)
      BY <1>1 DEF Main
<1>3. ASSUME certified'
      PROVE  /\ compared' \in Pictures
             /\ vouched' = compared' => Main(s) = compared'
             /\ vouched' # compared' => vouched' \in {Main(s), NoPicture}
  <2>1. /\ certified /\ ~resets /\ compared' = compared /\ vouched' = vouched
        /\ compared \in Pictures
        BY <1>1, <1>3 DEF RowsOK
  <2>2. CASE photos # <<>>
    <3>1. Main(s) = Main(photos)
          BY <2>1, <2>2
    <3> QED BY <2>1, <3>1 DEF RowsOK
  <2>3. CASE photos = <<>>
    <3>1. Main(photos) = NoPicture /\ NoPicture \notin Pictures
          BY <2>3, MainIs
    <3> QED BY <2>1, <3>1 DEF RowsOK
  <2> QED BY <2>2, <2>3
<1> QED BY <1>1, <1>2, <1>3 DEF RowsOK

LEMMA SetKeeps ==
    ASSUME RowsOK, NEW at \in Slots, NEW picture \in Pictures, SetPhoto(at, picture)
    PROVE  RowsOK'
<1> DEFINE s == IF at <= Len(photos) THEN [photos EXCEPT ![at] = picture]
                ELSE Append(photos, picture)
           resets == SetResets(at, picture)
<1>1. photos \in Seq(Pictures) /\ at \in Nat /\ at >= 1 /\ Write(s, resets)
      BY PhotosAssumption DEF RowsOK, Slots, SetPhoto, PhotosAssumption
<1>2. s \in Seq(Pictures) /\ resets \in BOOLEAN
      BY <1>1 DEF SetResets
<1>3. ASSUME photos # <<>>, ~resets PROVE Main(s) = Main(photos)
  <2>1. at # 1 \/ photos[1] = picture
        BY <1>3 DEF SetResets
  <2>2. s # <<>> /\ s[1] = photos[1]
    <3>1. Len(photos) \in Nat /\ Len(photos) >= 1
          BY <1>1, <1>3
    <3>2. CASE at <= Len(photos)
          BY <1>1, <2>1, <3>1, <3>2
    <3>3. CASE ~(at <= Len(photos))
          BY <1>1, <3>1, <3>3
    <3> QED BY <3>2, <3>3
  <2> QED BY <1>1, <1>2, <1>3, <2>2, MainIs
<1> HIDE DEF s, resets
<1> QED BY <1>1, <1>2, <1>3, WriteKeeps

LEMMA DeleteKeeps ==
    ASSUME RowsOK, NEW at \in Slots, DeletePhoto(at)
    PROVE  RowsOK'
<1> DEFINE s == IF at <= Len(photos) THEN RemoveAt(photos, at) ELSE photos
           resets == DeleteResets(at)
<1>1. photos \in Seq(Pictures) /\ at \in Nat /\ at >= 1 /\ Write(s, resets)
      BY PhotosAssumption DEF RowsOK, Slots, DeletePhoto, PhotosAssumption
<1>2. at <= Len(photos) => at \in DOMAIN photos
      BY <1>1
<1>3. s \in Seq(Pictures) /\ resets \in BOOLEAN
      BY <1>1, <1>2, RemoveAtKeeps DEF DeleteResets
<1>4. ASSUME photos # <<>>, ~resets PROVE Main(s) = Main(photos)
  <2>1. CASE at <= Len(photos)
    <3>1. at # 1 /\ at \in DOMAIN photos
          BY <1>2, <1>4, <2>1 DEF DeleteResets
    <3>2. s = RemoveAt(photos, at)
          BY <2>1
    <3>3. s[1] = photos[1] /\ Len(s) = Len(photos) - 1
          BY <1>1, <3>1, <3>2, RemoveAtKeeps, FirstRemains
    <3>4. s # <<>>
          BY <1>1, <1>3, <2>1, <3>1, <3>3
    <3> QED BY <1>1, <1>3, <1>4, <3>3, <3>4, MainIs
  <2>2. CASE ~(at <= Len(photos))
        BY <2>2
  <2> QED BY <2>1, <2>2
<1> HIDE DEF s, resets
<1> QED BY <1>1, <1>3, <1>4, WriteKeeps

\* No two rows go to one place, so that every place has a row.
LEMMA Reordering ==
    ASSUME photos \in Seq(Pictures), NEW order, CanReorder(order)
    PROVE  [p \in DOMAIN photos |-> photos[CHOOSE q \in DOMAIN photos : Goal(order, q) = p]]
               \in Seq(Pictures)
<1> DEFINE n == Len(photos)
           goal == [q \in 1..n |-> Goal(order, q)]
<1>1. n \in Nat /\ DOMAIN photos = 1..n /\ Len(order) = n
      BY DEF CanReorder
<1>2. goal \in [1..n -> 1..n]
  <2>1. ASSUME NEW q \in 1..n PROVE Goal(order, q) \in 1..n
    <3>1. CASE \E i \in DOMAIN order : order[i] = q
      <4>1. Goal(order, q) \in DOMAIN order
            BY <3>1 DEF Goal
      <4>2. DOMAIN order = 1..n
            BY <1>1 DEF CanReorder
      <4> QED BY <4>1, <4>2
    <3>2. CASE ~\E i \in DOMAIN order : order[i] = q
          BY <2>1, <3>2 DEF Goal
    <3> QED BY <3>1, <3>2
  <2> QED BY <2>1
<1>3. \A i, j \in 1..n : goal[i] = goal[j] => i = j
      BY <1>1 DEF CanReorder
<1>4. goal \in Injection(1..n, 1..n)
  <2> HIDE DEF goal
  <2>1. DOMAIN goal = 1..n
        BY <1>2
  <2> QED BY <1>2, <1>3, <2>1, Zenon DEF Injection, IsInjective
<1>5. goal \in Surjection(1..n, 1..n)
  <2>1. IsFiniteSet(1..n)
        BY <1>1, FS_Interval
  <2> HIDE DEF goal
  <2> QED BY <1>4, <2>1, FS_Injection
<1>6. ASSUME NEW p \in 1..n
      PROVE  photos[CHOOSE q \in DOMAIN photos : Goal(order, q) = p] \in Pictures
  <2>1. \E q \in 1..n : goal[q] = p
    <3> HIDE DEF goal
    <3> QED BY <1>5, <1>6, Zenon DEF Surjection
  <2>2. \E q \in DOMAIN photos : Goal(order, q) = p
        BY <1>1, <2>1
  <2>3. (CHOOSE q \in DOMAIN photos : Goal(order, q) = p) \in DOMAIN photos
        BY <2>2, Zenon
  <2> QED BY <1>1, <2>3
<1> QED BY <1>1, <1>6

LEMMA ReorderKeeps ==
    ASSUME RowsOK, NEW order, CanReorder(order), ReorderPhotos(order)
    PROVE  RowsOK'
<1> DEFINE s == [p \in DOMAIN photos |->
                   photos[CHOOSE q \in DOMAIN photos : Goal(order, q) = p]]
           resets == ReorderResets(s)
<1>1. s \in Seq(Pictures)
      BY Reordering DEF RowsOK
<1>2. Write(s, resets)
      BY Zenon DEF ReorderPhotos
<1> HIDE DEF s
<1>3. resets \in BOOLEAN /\ (photos # <<>> /\ ~resets => Main(s) = Main(photos))
      BY DEF ReorderResets
<1> HIDE DEF resets
<1> QED BY <1>1, <1>2, <1>3, WriteKeeps

\* A comparison that ends does not look again.
LEMMA VerifiedKeeps ==
    ASSUME RowsOK, NEW picture \in Pictures, MarkVerified(picture)
    PROVE  RowsOK'
<1>1. Main(photos)' = Main(photos)
      BY DEF MarkVerified, Main
<1> QED BY <1>1 DEF MarkVerified, RowsOK

LEMMA RowsRest == RowsOK /\ UNCHANGED Rows => RowsOK'
BY DEF Rows, RowsOK, Main

\* Requests that come and go.
LEMMA CallSent ==
    ASSUME CallsOK, NEW r, SaneRequest(r), SendRequest(r)
    PROVE  CallsOK'
<1>1. PICK S : requests \in Seq(S) /\ \A q \in S : SaneRequest(q)
      BY DEF CallsOK
<1>2. requests' = Append(requests, r)
      BY DEF SendRequest
<1>3. requests \in Seq(S \cup {r})
      BY <1>1
<1>4. requests' \in Seq(S \cup {r})
      BY <1>2, <1>3
<1>5. \A q \in S \cup {r} : SaneRequest(q)
      BY <1>1
<1> QED BY <1>4, <1>5 DEF CallsOK

LEMMA CallMoved ==
    ASSUME CallsOK, NEW k \in DOMAIN requests, NEW r, SaneRequest(r),
           requests' = [requests EXCEPT ![k] = r]
    PROVE  CallsOK'
<1>1. PICK S : requests \in Seq(S) /\ \A q \in S : SaneRequest(q)
      BY DEF CallsOK
<1>2. requests' \in Seq(S \cup {r})
  <2>1. requests \in Seq(S \cup {r}) /\ r \in S \cup {r}
        BY <1>1
  <2> QED BY <2>1
<1>3. \A q \in S \cup {r} : SaneRequest(q)
      BY <1>1
<1> QED BY <1>2, <1>3 DEF CallsOK

LEMMA CallGone ==
    ASSUME CallsOK, NEW k \in DOMAIN requests, requests' = RemoveAt(requests, k)
    PROVE  CallsOK'
<1>1. PICK S : requests \in Seq(S) /\ \A q \in S : SaneRequest(q)
      BY DEF CallsOK
<1>2. requests' \in Seq(S)
      BY <1>1, RemoveAtKeeps
<1> QED BY <1>1, <1>2 DEF CallsOK

\* What is not sent any more may be anything but a comparison.
LEMMA SaneWhenOver ==
    ASSUME NEW r, {"state", "picture"} \subseteq DOMAIN r, r.state \in {"done", "failed"}
    PROVE  SaneRequest(r)
BY DEF SaneRequest

LEMMA FailedIsSane == \A r : SaneRequest(Failed(r))
BY DEF Failed, PhotoRequest, SaneRequest

LEMMA SaneWhenSent ==
    ASSUME NEW kind, NEW at, NEW picture, NEW order,
           kind \in {"set", "delete"} => at \in Slots, kind = "set" => picture \in Pictures
    PROVE  SaneRequest(PhotoRequest(kind, at, picture, order))
BY DEF SaneRequest, PhotoRequest

LEMMA ServeRequestKeeps ==
    ASSUME PhotosInv, NEW k, ServeRequest(k)
    PROVE  PhotosInv'
<1> DEFINE r == requests[k]
<1>0. RowsOK /\ CallsOK /\ k \in DOMAIN requests /\ r.state = "sent" /\ SaneRequest(r)
  <2>1. PICK S : requests \in Seq(S) /\ \A q \in S : SaneRequest(q)
        BY DEF PhotosInv, CallsOK
  <2>2. k \in DOMAIN requests /\ r.state = "sent"
        BY DEF ServeRequest
  <2>3. r \in S
        BY <2>1, <2>2
  <2> QED BY <2>1, <2>2, <2>3 DEF PhotosInv
<1>1. RowsOK'
  <2>1. \/ r.kind = "set" /\ SetPhoto(r.at, r.picture)
        \/ r.kind = "delete" /\ DeletePhoto(r.at)
        \/ CanReorder(r.order) /\ ReorderPhotos(r.order)
        \/ UNCHANGED Rows
        BY Zenon DEF ServeRequest
  <2> QED BY <1>0, <2>1, SetKeeps, DeleteKeeps, ReorderKeeps, RowsRest DEF SaneRequest
<1>2. \E q : SaneRequest(q) /\ requests' = [requests EXCEPT ![k] = q]
  <2> DEFINE a == [r EXCEPT !.state = "done"]
             b == [r EXCEPT !.state = "done", !.order = <<>>, !.photos = photos',
                            !.certified = certified']
             c == Failed(r)
             d == [r EXCEPT !.state = "compared", !.picture = Main(photos)]
  <2>1. \/ requests' = [requests EXCEPT ![k].state = "done"]
        \/ requests' = [requests EXCEPT ![k] = b]
        \/ requests' = [requests EXCEPT ![k] = c]
        \/ photos # <<>> /\ requests' = [requests EXCEPT ![k] = d]
        BY Zenon DEF ServeRequest
  <2>2. {"state", "picture"} \subseteq DOMAIN r
        BY <1>0 DEF SaneRequest
  <2>3. SaneRequest(a) /\ SaneRequest(b) /\ SaneRequest(c)
        BY <2>2, FailedIsSane, SaneWhenOver
  <2>4. photos # <<>> => SaneRequest(d)
    <3>1. photos # <<>> => Main(photos) \in Pictures
          BY <1>0, MainIs DEF RowsOK
    <3> QED BY <2>2, <3>1 DEF SaneRequest
  <2> HIDE DEF b, c, d
  <2>5. \E q : q = a \/ q = b \/ q = c \/ q = d
        OBVIOUS
  <2> QED BY <2>1, <2>3, <2>4
<1> QED BY <1>0, <1>1, <1>2, CallMoved DEF PhotosInv

LEMMA OtherRequestsKeep ==
    ASSUME PhotosInv, NEW k, Verdict(k) \/ LoseRequest(k) \/ RequestAnswered(k)
    PROVE  PhotosInv'
<1> DEFINE r == requests[k]
<1>0. RowsOK /\ CallsOK /\ k \in DOMAIN requests /\ SaneRequest(r)
  <2>1. PICK S : requests \in Seq(S) /\ \A q \in S : SaneRequest(q)
        BY DEF PhotosInv, CallsOK
  <2>2. k \in DOMAIN requests
        BY DEF Verdict, LoseRequest, RequestAnswered
  <2>3. r \in S
        BY <2>1, <2>2
  <2> QED BY <2>1, <2>2, <2>3 DEF PhotosInv
<1>1. {"state", "picture"} \subseteq DOMAIN r
      BY <1>0 DEF SaneRequest
<1>2. SaneRequest(Failed(r)) /\ SaneRequest([r EXCEPT !.state = "done"])
      BY <1>1, FailedIsSane, SaneWhenOver
<1>3. CASE Verdict(k)
  <2>1. r.picture \in Pictures
        BY <1>0, <1>3 DEF Verdict, SaneRequest
  <2>2. MarkVerified(r.picture) \/ UNCHANGED Rows
        BY <1>3 DEF Verdict
  <2>3. \/ requests' = [requests EXCEPT ![k] = [r EXCEPT !.state = "done"]]
        \/ requests' = [requests EXCEPT ![k] = Failed(r)]
        BY <1>0, <1>3 DEF Verdict
  <2>4. CallsOK'
        BY <1>0, <1>2, <2>3, CallMoved
  <2> QED BY <1>0, <2>1, <2>2, <2>4, VerifiedKeeps, RowsRest DEF PhotosInv
<1>4. CASE LoseRequest(k)
  <2>1. requests' = [requests EXCEPT ![k] = Failed(r)] /\ UNCHANGED Rows
        BY <1>0, <1>4 DEF LoseRequest
  <2> QED BY <1>0, <1>2, <2>1, CallMoved, RowsRest DEF PhotosInv
<1>5. CASE RequestAnswered(k)
  <2>1. requests' = RemoveAt(requests, k) /\ UNCHANGED Rows
        BY <1>5 DEF RequestAnswered
  <2> QED BY <1>0, <2>1, CallGone, RowsRest DEF PhotosInv
<1> QED BY <1>3, <1>4, <1>5

LEMMA PageKeepsPhotos ==
    ASSUME PhotosInv,
           \/ \E at \in Slots : Pick(at) \/ Discard(at) \/ PointerDown(at) \/ Drop(at)
           \/ StartCamera \/ StopCamera \/ CaptureAndVerify
    PROVE  PhotosInv'
<1>1. UNCHANGED Rows
      BY Zenon DEF Pick, Discard, PointerDown, Drop, StartCamera, StopCamera, CaptureAndVerify
<1>2. \/ UNCHANGED requests
      \/ \E q : SaneRequest(q) /\ SendRequest(q)
  <2>1. ASSUME NEW at \in Slots, Pick(at) PROVE \E q : SaneRequest(q) /\ SendRequest(q)
    <3>1. PICK picture \in FreshPictures : SendRequest(PhotoRequest("set", at, picture, <<>>))
          BY <2>1 DEF Pick
    <3>2. picture \in Pictures
          BY DEF FreshPictures
    <3> QED BY <3>1, <3>2, SaneWhenSent
  <2>2. ASSUME NEW at \in Slots, Discard(at) PROVE \E q : SaneRequest(q) /\ SendRequest(q)
        BY <2>2, SaneWhenSent DEF Discard
  <2>3. ASSUME NEW at \in Slots, Drop(at)
        PROVE  UNCHANGED requests \/ \E q : SaneRequest(q) /\ SendRequest(q)
    <3>1. \/ UNCHANGED requests
          \/ SendRequest(PhotoRequest("reorder", 0, NoPicture, Reordered(at)))
          BY <2>3, Zenon DEF Drop
    <3>2. SaneRequest(PhotoRequest("reorder", 0, NoPicture, Reordered(at)))
          BY SaneWhenSent
    <3> QED BY <3>1, <3>2
  <2>4. CASE CaptureAndVerify
        BY <2>4, SaneWhenSent DEF CaptureAndVerify
  <2>5. CASE StartCamera \/ StopCamera \/ \E at \in Slots : PointerDown(at)
        BY <2>5 DEF StartCamera, StopCamera, PointerDown
  <2> QED BY <2>1, <2>2, <2>3, <2>4, <2>5
<1>3. CallsOK'
      BY <1>2, CallSent DEF PhotosInv, CallsOK
<1> QED BY <1>1, <1>3, RowsRest DEF PhotosInv

LEMMA PhotosKeep == PhotosInv /\ [PhotosNext]_photosVars => PhotosInv'
<1> SUFFICES ASSUME PhotosInv, [PhotosNext]_photosVars PROVE PhotosInv'
    OBVIOUS
<1>1. ASSUME NEW k, ServeRequest(k) \/ Verdict(k) \/ LoseRequest(k) \/ RequestAnswered(k)
      PROVE  PhotosInv'
      BY <1>1, ServeRequestKeeps, OtherRequestsKeep
<1>2. CASE UNCHANGED photosVars
      BY <1>2, RowsRest DEF photosVars, Rows, PhotosInv, CallsOK
<1> QED BY <1>1, <1>2, PageKeepsPhotos, Zenon DEF PhotosNext

LEMMA PhotosStart == PhotosInit => PhotosInv
<1> SUFFICES ASSUME PhotosInit PROVE PhotosInv
    OBVIOUS
<1>1. photos \in Seq(Pictures)
  <2>1. PICK T \in SUBSET Pictures : photos \in SetToSeqs(T)
        BY Zenon DEF PhotosInit
  <2>2. IsFiniteSet(T)
        BY PhotosAssumption, FS_Subset DEF PhotosAssumption
  <2>3. Cardinality(T) \in Nat /\ photos \in [1..Cardinality(T) -> T]
        BY <2>1, <2>2, FS_CardinalityType DEF SetToSeqs
  <2> QED BY <2>3
<1>2. CallsOK
  <2> DEFINE r == PhotoRequest("load", 0, NoPicture, <<>>)
  <2>1. SaneRequest(r)
        BY SaneWhenSent
  <2>2. requests = <<r>>
        BY Zenon DEF PhotosInit
  <2> HIDE DEF r
  <2>3. requests \in Seq({r})
        BY <2>2
  <2> QED BY <2>1, <2>3 DEF CallsOK
<1> QED BY <1>1, <1>2 DEF PhotosInit, RowsOK, PhotosInv

\* store.go and verification.go: for any photos and requests, in whatever order they are
\* served, a certification is about the photo that is shown first, the compared one or,
\* when that was changed meanwhile, the one that was first when the comparison ended.
THEOREM CertifiedPhotoHolds == PhotosSpec => []CertifiedPhoto
<1>1. PhotosInv => CertifiedPhoto
      BY DEF PhotosInv, RowsOK, CertifiedPhoto
<1> QED BY <1>1, PhotosStart, PhotosKeep, PTL DEF PhotosSpec

-----------------------------------------------------------------------------
(* The account form *)

Entries == {"from", "page", "decoy"}

\* The history while the page is there: what it was opened from, the page, then decoys; one
\* at least while there are edits, which is what a step back lands on.
HistoryOK ==
    /\ hist \in Seq(Entries) /\ backs \in Nat /\ Len(hist) + backs <= MaxHist
    /\ place \in {"loading", "page"} =>
        /\ Len(hist) >= 2 /\ hist[1] = "from"
        /\ \A i \in 2..Len(hist) : hist[i] # "from"
    /\ place = "page" /\ Dirty => Len(hist) >= 3 /\ Len(hist) + backs < MaxHist

FormOK == /\ row \in Drafts /\ snapshot \in Drafts \cup {NoProfile} /\ typed \in Drafts
          /\ place \in {"loading", "page", "gone", "away"}
          /\ place = "loading" => snapshot = NoProfile
          /\ puts \in Seq(Put) /\ Len(puts) <= MaxPuts

AccountInv == FormOK /\ AccountFlagsOK /\ HistoryOK

LEMMA AccountBounds ==
    /\ "" \in Drafts /\ NoProfile \notin Drafts /\ \A d \in Drafts : Trimmed[d] \in Drafts
    /\ MaxHist \in Nat /\ MaxHist >= 3 /\ MaxPuts \in Nat /\ MaxPuts >= 1
<1>1. MaxPuts \in Nat \ {0}
      BY AccountAssumption DEF AccountAssumption
<1>2. Trimmed \in [Drafts -> Drafts]
      BY AccountAssumption DEF AccountAssumption
<1>3. "" \in Drafts /\ NoProfile \notin Drafts
      BY AccountAssumption DEF AccountAssumption
<1>4. MaxHist \in Nat /\ MaxHist >= 3
      BY AccountAssumption DEF AccountAssumption
<1>5. MaxPuts \in Nat /\ MaxPuts >= 1
      BY <1>1
<1>6. \A d \in Drafts : Trimmed[d] \in Drafts
      BY <1>2
<1> QED BY <1>3, <1>4, <1>5, <1>6, Zenon

LEMMA AskedOK ==
    ASSUME NEW kind \in {"load", "save", "leave", "portal"}, NEW text \in Drafts
    PROVE  Asked(kind, text) \in Put
BY DEF Asked, Put

LEMMA AccountStart == AccountInit => AccountInv
<1> SUFFICES ASSUME AccountInit PROVE AccountInv
    OBVIOUS
<1>1. /\ row \in Drafts /\ snapshot = NoProfile /\ typed = "" /\ place = "loading"
      /\ puts = <<Asked("load", "")>> /\ hist = <<"from", "page">> /\ backs = 0
      BY AccountBounds DEF AccountInit
<1>2. puts \in Seq(Put) /\ Len(puts) = 1
  <2>1. Asked("load", "") \in Put
        BY AskedOK, AccountBounds
  <2>2. \A x \in Put : <<x>> \in Seq(Put) /\ Len(<<x>>) = 1
        OBVIOUS
  <2> QED BY <1>1, <2>1, <2>2, Zenon
<1>3. FormOK
      BY <1>1, <1>2, AccountBounds DEF FormOK
<1>4. hist \in Seq(Entries) /\ Len(hist) = 2 /\ hist[1] = "from" /\ hist[2] = "page"
  <2>1. hist = <<"from", "page">>
        BY <1>1, Zenon
  <2> QED BY <2>1 DEF Entries
<1>5. HistoryOK
  <2>1. \A i \in 2..Len(hist) : hist[i] # "from"
        BY <1>4
  <2>2. Len(hist) = 2 /\ backs = 0 /\ MaxHist \in Nat /\ MaxHist >= 3
        BY <1>1, <1>4, AccountBounds, Zenon
  <2>3. Len(hist) >= 2 /\ backs \in Nat /\ Len(hist) + backs <= MaxHist
        BY <2>2
  <2> QED BY <1>1, <1>4, <2>1, <2>3, Zenon DEF HistoryOK, Dirty
<1>6. AccountFlagsOK
      BY DEF AccountInit, AccountFlagsOK
<1> QED BY <1>3, <1>5, <1>6 DEF AccountInv

\* A sequence without its last element, and with another in its place.
LEMMA FrontKeeps ==
    ASSUME NEW S, NEW s \in Seq(S), Len(s) > 0
    PROVE  /\ Front(s) \in Seq(S) /\ Len(Front(s)) = Len(s) - 1
           /\ \A i \in 1..Len(s) - 1 : Front(s)[i] = s[i]
           /\ Len(s) > 1 => Last(Front(s)) = s[Len(s) - 1]
<1>1. PICK n \in Nat : Len(s) = n + 1
  <2>1. Len(s) \in Nat
        OBVIOUS
  <2>2. Len(s) - 1 \in Nat /\ Len(s) = (Len(s) - 1) + 1
        BY <2>1
  <2> QED BY <2>2
<1>2. /\ Front(s) \in Seq(S) /\ Len(Front(s)) = n
      /\ \A i \in 1..n : Front(s)[i] = s[i]
  <2>1. \A i \in 1..n : s[i] \in S
        BY <1>1
  <2>2. n - 1 + 1 = n /\ 1 \in Int /\ n \in Int /\ \A i \in 1..n : 1 + i - 1 = i
        OBVIOUS
  <2>3. SubSeq(s, 1, n) \in Seq(S)
        BY <2>1, <2>2, SubSeqProperties
  <2>4. Len(SubSeq(s, 1, n)) = n
        BY <2>2, SubSeqProperties
  <2>5. \A i \in 1..n - 1 + 1 : SubSeq(s, 1, n)[i] = s[1 + i - 1]
        BY <2>1, <2>2, SubSeqProperties
  <2>6. \A i \in 1..n : SubSeq(s, 1, n)[i] = s[i]
        BY <2>2, <2>5
  <2>7. Len(s) - 1 = n
        BY <1>1
  <2> QED BY <2>3, <2>4, <2>6, <2>7 DEF Front
<1>3. Len(s) - 1 = n /\ (Len(s) > 1 => n \in 1..n)
      BY <1>1
<1>4. Last(Front(s)) = Front(s)[n]
      BY <1>2 DEF Last
<1> QED BY <1>2, <1>3, <1>4

\* A step back: off the page from its own entry only, which is under a decoy while there
\* are edits.
LEMMA StepBackKeeps ==
    ASSUME AccountInv, place \in {"loading", "page"}, StepBack, UNCHANGED <<snapshot, typed>>,
           backs' \in Nat, backs' <= backs
    PROVE  HistoryOK' /\ Leaves /\ place' \in {"loading", "page", "gone"}
           /\ (place' # "gone" => place' = place) /\ (unsaved' = unsaved \/ unsaved' = TRUE)
<1>0. /\ hist \in Seq(Entries) /\ Len(hist) >= 2 /\ backs \in Nat
      /\ Len(hist) + backs <= MaxHist /\ MaxHist \in Nat
      /\ \A i \in 2..Len(hist) : hist[i] # "from"
      /\ place = "page" /\ Dirty => Len(hist) >= 3 /\ Len(hist) + backs < MaxHist
      /\ hist[1] = "from"
      BY AccountBounds, Zenon DEF AccountInv, HistoryOK, FormOK
<1> DEFINE front == Front(hist)
           lands == Last(Front(hist))
<1>1. /\ front \in Seq(Entries) /\ Len(front) = Len(hist) - 1
      /\ \A i \in 1..Len(hist) - 1 : front[i] = hist[i]
      /\ lands = hist[Len(hist) - 1]
      BY <1>0, FrontKeeps
<1>2. lands = "from" => Len(hist) = 2
  <2>1. Len(hist) \in Nat /\ Len(hist) >= 2
        BY <1>0
  <2>0. \A n \in Nat : n >= 2 /\ n # 2 => n - 1 \in 2..n
        OBVIOUS
  <2>2. Len(hist) # 2 => Len(hist) - 1 \in 2..Len(hist)
        BY <2>0, <2>1, Zenon
  <2>3. \A i \in 2..Len(hist) : hist[i] # "from"
        BY <1>0, Zenon
  <2>4. lands = hist[Len(hist) - 1]
        BY <1>1
  <2> HIDE DEF lands
  <2> QED BY <2>2, <2>3, <2>4
<1>3. Dirty' = Dirty
      BY DEF Dirty
<1>4. \/ lands = "from" /\ place' = "gone" /\ hist' = front /\ UNCHANGED unsaved
      \/ lands # "from" /\ Dirty /\ unsaved' = TRUE /\ hist' = Append(front, "decoy")
         /\ UNCHANGED place
      \/ lands # "from" /\ ~Dirty /\ hist' = front /\ UNCHANGED <<unsaved, place>>
      BY Zenon DEF StepBack, Popped
<1> HIDE DEF front, lands
<1>5. CASE lands = "from" /\ place' = "gone" /\ hist' = front /\ UNCHANGED unsaved
  <2>0. Len(hist) = 2 /\ (place = "page" /\ Dirty => Len(hist) >= 3)
        BY <1>0, <1>2, <1>5, Zenon
  <2>1. ~(place = "page" /\ Dirty)
        BY <2>0
  <2>2. hist' \in Seq(Entries) /\ Len(hist') = Len(hist) - 1
        BY <1>1, <1>5, Zenon
  <2>3. Len(hist') + backs' <= MaxHist
        BY <1>0, <2>2
  <2>4. place' \notin {"loading", "page"}
        BY <1>5
  <2>5. HistoryOK'
        BY <2>2, <2>3, <2>4, Zenon DEF HistoryOK
  <2> QED BY <1>5, <2>1, <2>5 DEF Leaves
<1>6. CASE lands # "from" /\ Dirty /\ unsaved' = TRUE /\ hist' = Append(front, "decoy")
           /\ UNCHANGED place
  <2>1. /\ hist' \in Seq(Entries) /\ Len(hist') = Len(hist)
        /\ \A i \in 2..Len(hist) : hist'[i] = (IF i = Len(hist) THEN "decoy" ELSE front[i])
        BY <1>0, <1>1, <1>6 DEF Entries
  <2>2. \A i \in 2..Len(hist') : hist'[i] # "from"
        BY <1>0, <1>1, <2>1
  <2>3. Len(hist') + backs' <= Len(hist) + backs
        BY <1>0, <2>1
  <2>4. Len(hist') + backs' <= MaxHist
        BY <1>0, <2>1, <2>3
  <2>5. hist'[1] = "from"
        BY <1>0, <1>1, <2>1, <1>6
  <2>6. place' = "page" /\ Dirty' => Len(hist') >= 3 /\ Len(hist') + backs' < MaxHist
    <3>1. SUFFICES ASSUME place' = "page" /\ Dirty'
                   PROVE  Len(hist') >= 3 /\ Len(hist') + backs' < MaxHist
          BY Zenon
    <3>2. Len(hist) >= 3 /\ Len(hist) + backs < MaxHist
          BY <1>0, <1>3, <1>6, <3>1, Zenon
    <3> QED BY <1>0, <2>1, <2>3, <3>2
  <2>7. HistoryOK'
    <3>1. Len(hist') >= 2
          BY <1>0, <2>1
    <3> QED BY <2>1, <2>2, <2>4, <2>5, <2>6, <3>1, <1>6, Zenon DEF HistoryOK
  <2> QED BY <1>0, <1>6, <2>7 DEF Leaves
<1>7. CASE lands # "from" /\ ~Dirty /\ hist' = front /\ UNCHANGED <<unsaved, place>>
  <2>1. Len(hist) >= 3
        BY <1>0, <1>1, <1>7
  <2>2. /\ hist' \in Seq(Entries) /\ Len(hist') = Len(hist) - 1
        /\ \A i \in 1..Len(hist') : hist'[i] = hist[i]
        BY <1>0, <1>1, <1>7
  <2>3. Len(hist') >= 2 /\ Len(hist') + backs' <= MaxHist
        BY <1>0, <2>1, <2>2
  <2>4. hist'[1] = "from" /\ \A i \in 2..Len(hist') : hist'[i] # "from"
        BY <1>0, <1>7, <2>1, <2>2, <2>3
  <2>5. ~(place' = "page" /\ Dirty')
        BY <1>3, <1>7
  <2>6. HistoryOK'
        BY <1>0, <2>2, <2>3, <2>4, <2>5 DEF HistoryOK
  <2> QED BY <1>0, <1>7, <2>6 DEF Leaves
<1> QED BY <1>4, <1>5, <1>6, <1>7

\* An action that leaves the history alone, and neither dirties the page nor reopens it.
LEMMA HistoryRest ==
    ASSUME HistoryOK, UNCHANGED <<hist, backs>>,
           place' \in {"loading", "page"} => place \in {"loading", "page"},
           place' = "page" /\ Dirty' => place = "page" /\ Dirty
    PROVE  HistoryOK'
BY Zenon DEF HistoryOK

LEMMA FormRest ==
    ASSUME FormOK, UNCHANGED <<row, snapshot, typed>>,
           place' = place \/ place' \in {"gone", "away"},
           puts' \in Seq(Put), Len(puts') <= MaxPuts
    PROVE  FormOK'
<1>1. place' \in {"loading", "page", "gone", "away"} /\ (place' = "loading" => snapshot = NoProfile)
      BY DEF FormOK
<1>2. row' \in Drafts /\ snapshot' \in Drafts \cup {NoProfile} /\ typed' \in Drafts
      BY DEF FormOK
<1> QED BY <1>1, <1>2, Zenon DEF FormOK

LEMMA SendKeeps ==
    ASSUME FormOK, NEW p \in Put, SendPut(p)
    PROVE  puts' \in Seq(Put) /\ Len(puts') <= MaxPuts
<1>1. puts \in Seq(Put) /\ Len(puts) < MaxPuts /\ puts' = Append(puts, p) /\ MaxPuts \in Nat
      BY AccountBounds, Zenon DEF FormOK, SendPut
<1> QED BY <1>1

\* What a request asked for and answered is a form.
LEMMA PutFields ==
    ASSUME FormOK, NEW k \in DOMAIN puts
    PROVE  puts[k] \in Put /\ puts[k].text \in Drafts
<1>1. puts[k] \in Put
  <2>1. puts \in Seq(Put)
        BY DEF FormOK
  <2> QED BY <2>1
<1> QED BY <1>1, Zenon DEF Put

\* The decoy goes on when the page becomes dirty, and comes off at most once.
LEMMA GuardedKeeps ==
    ASSUME HistoryOK, place = "page", UNCHANGED place, Guarded
    PROVE  HistoryOK'
<1>0. /\ hist \in Seq(Entries) /\ Len(hist) >= 2 /\ backs \in Nat
      /\ Len(hist) + backs <= MaxHist /\ hist[1] = "from"
      /\ \A i \in 2..Len(hist) : hist[i] # "from"
      /\ Dirty => Len(hist) >= 3 /\ Len(hist) + backs < MaxHist
      BY Zenon DEF HistoryOK
<1>1. MaxHist \in Nat
      BY AccountBounds
<1>2. CASE Dirty' = Dirty
  <2>1. UNCHANGED <<hist, backs>>
        BY <1>2 DEF Guarded
  <2> QED BY <1>2, <2>1, HistoryRest
<1>3. CASE Dirty' # Dirty /\ Dirty'
  <2>1. /\ Len(hist) + backs + 1 < MaxHist /\ backs' = backs
        /\ hist' = Append(hist, "decoy")
        BY <1>3, Zenon DEF Guarded
  <2>2. /\ hist' \in Seq(Entries) /\ Len(hist') = Len(hist) + 1
        /\ \A i \in 1..Len(hist) + 1 : hist'[i] = (IF i = Len(hist) + 1 THEN "decoy" ELSE hist[i])
        BY <1>0, <2>1 DEF Entries
  <2>3. Len(hist') >= 3 /\ Len(hist') + backs' < MaxHist /\ backs' \in Nat
        BY <1>0, <1>1, <2>1, <2>2
  <2>4. Len(hist') >= 2 /\ Len(hist') + backs' <= MaxHist
        BY <1>0, <1>1, <2>1, <2>2
  <2>5. hist'[1] = "from" /\ \A i \in 2..Len(hist') : hist'[i] # "from"
        BY <1>0, <2>2
  <2> QED BY <2>2, <2>3, <2>4, <2>5, Zenon DEF HistoryOK
<1>4. CASE Dirty' # Dirty /\ ~Dirty'
  <2>1. hist' = hist /\ (backs' = backs \/ backs' = backs + 1)
        BY <1>4, Zenon DEF Guarded
  <2>2. Dirty
        BY <1>4, Zenon DEF Dirty
  <2>3. Len(hist) + backs < MaxHist /\ Len(hist) \in Nat
        BY <1>0, <2>2
  <2>4. backs' \in Nat /\ Len(hist) + backs' <= MaxHist
        BY <1>0, <1>1, <2>1, <2>3
  <2> QED BY <1>0, <1>4, <2>1, <2>4, Zenon DEF HistoryOK
<1> QED BY <1>2, <1>3, <1>4

LEMMA EditFieldKeeps ==
    ASSUME AccountInv, NEW d \in Drafts, EditField(d)
    PROVE  AccountInv' /\ Leaves
<1>1. /\ place = "page" /\ typed' = d /\ Guarded
      /\ UNCHANGED <<row, snapshot, saving, unsaved, unload, leaving, place, puts>>
      BY Zenon DEF EditField
<1>2. HistoryOK'
      BY <1>1, GuardedKeeps DEF AccountInv
<1>3. FormOK'
      BY <1>1, Zenon DEF AccountInv, FormOK
<1>4. AccountFlagsOK' /\ Leaves
      BY <1>1 DEF AccountInv, AccountFlagsOK, Leaves
<1> QED BY <1>2, <1>3, <1>4 DEF AccountInv

\* The buttons of the page, which send at most a request.
LEMMA ButtonsKeep ==
    ASSUME AccountInv, \/ Save \/ HandleBack \/ SaveAndLeave \/ DiscardAndLeave
                       \/ CancelUnsaved \/ CloseTab \/ AnswerUnload \/ Manage
    PROVE  AccountInv' /\ Leaves
<1>1. UNCHANGED <<row, snapshot, typed, hist, backs>> /\ place = "page"
      BY DEF Save, HandleBack, SaveAndLeave, DiscardAndLeave, CancelUnsaved, CloseTab,
             AnswerUnload, Manage
<1>2. place' = place \/ place' = "gone"
      BY DEF Save, HandleBack, SaveAndLeave, DiscardAndLeave, CancelUnsaved, CloseTab,
             AnswerUnload, Manage, Push, Unloads
<1>3. \/ UNCHANGED puts
      \/ \E kind \in {"load", "save", "leave", "portal"}, text \in Drafts :
            SendPut(Asked(kind, text))
      BY AccountBounds DEF AccountInv, FormOK, Save, HandleBack, SaveAndLeave,
         DiscardAndLeave, CancelUnsaved, CloseTab, AnswerUnload, Manage
<1>4. puts' \in Seq(Put) /\ Len(puts') <= MaxPuts
      BY <1>3, SendKeeps, AskedOK DEF AccountInv, FormOK
<1>5. FormOK'
      BY <1>1, <1>2, <1>4, FormRest DEF AccountInv
<1>6. HistoryOK'
  <2>1. Dirty' = Dirty
        BY <1>1 DEF Dirty
  <2> QED BY <1>1, <1>2, <2>1, HistoryRest DEF AccountInv
<1>7. AccountFlagsOK'
      BY DEF AccountInv, AccountFlagsOK, Save, HandleBack, SaveAndLeave, DiscardAndLeave,
             CancelUnsaved, CloseTab, AnswerUnload, Manage, Unloads
<1>8. place' = "gone" => ~Dirty \/ unsaved \/ unload
      BY <1>1 DEF Save, HandleBack, SaveAndLeave, DiscardAndLeave, CancelUnsaved, CloseTab,
             AnswerUnload, Manage, Unloads, Push
<1> QED BY <1>5, <1>6, <1>7, <1>8 DEF AccountInv, Leaves

\* The browser's step back, and the one the effect's cleanup asked for.
LEMMA BackKeeps ==
    ASSUME AccountInv, BrowserBack \/ OwnBack
    PROVE  AccountInv' /\ Leaves
<1>1. /\ place \in {"loading", "page"} /\ StepBack
      /\ UNCHANGED <<row, snapshot, typed, saving, unload, leaving, puts>>
      BY DEF BrowserBack, OwnBack
<1>2. backs' \in Nat /\ backs' <= backs
  <2>1. backs' = backs \/ (backs > 0 /\ backs' = backs - 1)
        BY DEF BrowserBack, OwnBack
  <2>2. backs \in Nat
        BY DEF AccountInv, HistoryOK
  <2> QED BY <2>1, <2>2
<1>3. /\ HistoryOK' /\ Leaves /\ place' \in {"loading", "page", "gone"}
      /\ place' # "gone" => place' = place
      /\ unsaved' = unsaved \/ unsaved' = TRUE
      BY <1>1, <1>2, StepBackKeeps, Zenon
<1>4. FormOK'
      BY <1>1, <1>3, FormRest DEF AccountInv, FormOK
<1>5. AccountFlagsOK'
      BY <1>1, <1>3 DEF AccountInv, AccountFlagsOK
<1> QED BY <1>3, <1>4, <1>5 DEF AccountInv

\* A request that is served or lost is the same request.
LEMMA PutKept ==
    ASSUME FormOK, NEW k \in DOMAIN puts, NEW text \in Drafts,
           NEW state \in {"sent", "done", "failed"},
           puts' = [puts EXCEPT ![k] = [@ EXCEPT !.state = state, !.text = text]]
    PROVE  puts' \in Seq(Put) /\ Len(puts') <= MaxPuts
<1> DEFINE p == [puts[k] EXCEPT !.state = state, !.text = text]
<1>1. p \in Put
      BY PutFields, Zenon DEF Put
<1>2. puts \in Seq(Put) /\ Len(puts) <= MaxPuts /\ puts' = [puts EXCEPT ![k] = p]
      BY Zenon DEF FormOK
<1> HIDE DEF p
<1>3. puts' \in Seq(Put) /\ Len(puts') = Len(puts)
      BY <1>1, <1>2
<1> QED BY <1>2, <1>3

LEMMA ServePutKeeps ==
    ASSUME AccountInv, NEW k, ServePut(k)
    PROVE  AccountInv' /\ Leaves
<1>1. /\ k \in DOMAIN puts /\ UNCHANGED <<hist, backs>>
      /\ UNCHANGED <<snapshot, typed, saving, unsaved, unload, leaving, place>>
      BY Zenon DEF ServePut
<1>2. puts[k] \in Put /\ puts[k].text \in Drafts
      BY <1>1, PutFields DEF AccountInv
<1>3. row' \in Drafts
      BY <1>2, AccountBounds DEF ServePut, AccountInv, FormOK
<1>4. puts' \in Seq(Put) /\ Len(puts') <= MaxPuts
  <2>1. PICK text \in Drafts :
            puts' = [puts EXCEPT ![k].state = "done", ![k].text = text]
        BY <1>3, AccountBounds, Zenon DEF ServePut
  <2>2. puts' = [puts EXCEPT ![k] = [@ EXCEPT !.state = "done", !.text = text]]
        BY <2>1, <1>1, <1>2 DEF Put
  <2> QED BY <1>1, <2>2, PutKept DEF AccountInv
<1>5. FormOK'
      BY <1>1, <1>3, <1>4, Zenon DEF AccountInv, FormOK
<1>6. HistoryOK'
      BY <1>1, HistoryRest, Zenon DEF AccountInv, Dirty
<1> QED BY <1>1, <1>5, <1>6 DEF AccountInv, AccountFlagsOK, Leaves

LEMMA LosePutKeeps ==
    ASSUME AccountInv, NEW k, LosePut(k)
    PROVE  AccountInv' /\ Leaves
<1>1. /\ k \in DOMAIN puts /\ UNCHANGED <<hist, backs>>
      /\ UNCHANGED <<row, snapshot, typed, saving, unsaved, unload, leaving, place>>
      BY Zenon DEF LosePut
<1>2. puts[k] \in Put /\ puts[k].text \in Drafts
      BY <1>1, PutFields DEF AccountInv
<1>3. puts' \in Seq(Put) /\ Len(puts') <= MaxPuts
  <2>1. puts' = [puts EXCEPT ![k] = [@ EXCEPT !.state = "failed", !.text = puts[k].text]]
        BY <1>1, <1>2 DEF LosePut, Put
  <2> QED BY <1>1, <1>2, <2>1, PutKept DEF AccountInv
<1>4. FormOK'
      BY <1>1, <1>3, FormRest DEF AccountInv
<1>5. HistoryOK'
      BY <1>1, HistoryRest, Zenon DEF AccountInv, Dirty
<1> QED BY <1>1, <1>4, <1>5 DEF AccountInv, AccountFlagsOK, Leaves

\* Only the answer to a save, or the discard that a failed one falls back on, leaves edits.
LEMMA PutAnsweredKeeps ==
    ASSUME AccountInv, NEW k, PutAnswered(k)
    PROVE  AccountInv' /\ Leaves
<1> DEFINE p == puts[k]
<1>1. /\ k \in DOMAIN puts /\ puts' = RemoveAt(puts, k) /\ UNCHANGED row
      /\ Loaded(p) \/ Saved(p) \/ SaveFailed(p) \/ PortalAnswers(p)
      BY Zenon DEF PutAnswered
<1>2. p \in Put /\ p.text \in Drafts
      BY <1>1, PutFields DEF AccountInv
<1>3. puts' \in Seq(Put) /\ Len(puts') <= MaxPuts
  <2>1. puts \in Seq(Put) /\ Len(puts) <= MaxPuts /\ MaxPuts \in Nat
        BY AccountBounds DEF AccountInv, FormOK
  <2>2. puts' \in Seq(Put) /\ Len(puts') = Len(puts) - 1
        BY <1>1, <2>1, RemoveAtKeeps
  <2> QED BY <2>1, <2>2
<1> HIDE DEF p
<1>4. CASE Loaded(p)
  <2>1. /\ place = "loading" /\ place' = "page" /\ UNCHANGED <<hist, backs>>
        /\ \/ snapshot' = p.text /\ typed' = p.text
           \/ UNCHANGED <<snapshot, typed>>
        /\ UNCHANGED <<saving, unsaved, unload, leaving>>
        BY <1>4 DEF Loaded
  <2>2. snapshot = NoProfile
        BY <2>1, Zenon DEF AccountInv, FormOK
  <2>3. ~Dirty'
        BY <2>1, <2>2 DEF Dirty
  <2>4. HistoryOK'
        BY <2>1, <2>3, HistoryRest, Zenon DEF AccountInv
  <2>5. FormOK'
    <3>1. /\ row' \in Drafts /\ snapshot' \in Drafts \cup {NoProfile} /\ typed' \in Drafts
          BY <1>1, <1>2, <2>1 DEF AccountInv, FormOK
    <3> QED BY <1>3, <2>1, <3>1, Zenon DEF FormOK
  <2> QED BY <2>1, <2>4, <2>5 DEF AccountInv, AccountFlagsOK, Leaves
<1>5. CASE Saved(p)
  <2>1. /\ p.kind \in {"save", "leave"} /\ place' = "gone" /\ snapshot' = p.text
        /\ UNCHANGED <<hist, backs>>
        /\ unsaved' = (unsaved /\ p.kind = "save")
        /\ UNCHANGED <<typed, saving, unload, leaving>>
        BY <1>5, Zenon DEF Saved, Push
  <2>2. HistoryOK'
        BY <2>1, HistoryRest, Zenon DEF AccountInv
  <2>3. FormOK'
    <3>1. /\ row' \in Drafts /\ snapshot' \in Drafts \cup {NoProfile} /\ typed' \in Drafts
          BY <1>1, <1>2, <2>1 DEF AccountInv, FormOK
    <3> QED BY <1>3, <2>1, <3>1, Zenon DEF FormOK
  <2>4. Leaves
        BY <1>1, <2>1, Zenon DEF Leaves, p
  <2>5. AccountFlagsOK'
        BY <2>1, Zenon DEF AccountInv, AccountFlagsOK
  <2> QED BY <2>2, <2>3, <2>4, <2>5 DEF AccountInv
<1>6. CASE SaveFailed(p)
  <2>1. /\ UNCHANGED <<snapshot, typed, unload, hist, backs>>
        /\ p.kind = "leave" \/ place' = place
        /\ place' = place \/ place' = "gone"
        BY <1>6 DEF SaveFailed, Push
  <2>2. FormOK'
        BY <1>1, <1>3, <2>1, FormRest DEF AccountInv
  <2>3. HistoryOK'
    <3>1. Dirty' = Dirty
          BY <2>1 DEF Dirty
    <3> QED BY <2>1, <3>1, HistoryRest DEF AccountInv
  <2>4. AccountFlagsOK'
        BY <1>6 DEF SaveFailed, AccountInv, AccountFlagsOK
  <2>5. Leaves
        BY <1>1, <2>1 DEF Leaves, p
  <2> QED BY <2>2, <2>3, <2>4, <2>5 DEF AccountInv
<1>7. CASE PortalAnswers(p)
  <2>1. /\ UNCHANGED <<snapshot, typed, saving, unsaved, leaving, hist, backs>>
        /\ place' = place \/ (place' = "gone" /\ ~Dirty)
        /\ unload' = unload \/ unload' = TRUE
        BY <1>7 DEF PortalAnswers, Unloads, Push
  <2>2. FormOK'
        BY <1>1, <1>3, <2>1, FormRest DEF AccountInv
  <2>3. HistoryOK'
    <3>1. Dirty' = Dirty
          BY <2>1 DEF Dirty
    <3> QED BY <2>1, <3>1, HistoryRest DEF AccountInv
  <2>4. AccountFlagsOK' /\ Leaves
        BY <2>1 DEF AccountInv, AccountFlagsOK, Leaves
  <2> QED BY <2>2, <2>3, <2>4 DEF AccountInv
<1> QED BY <1>1, <1>4, <1>5, <1>6, <1>7

\* The layout's links leave the page as it is, and its edits with it.
LEMMA LayoutLeavesKeeps ==
    ASSUME AccountInv, LayoutLeaves
    PROVE  AccountInv' /\ Leaves
<1>1. /\ place' = "away" /\ UNCHANGED <<row, snapshot, typed, saving, unsaved, unload>>
      /\ UNCHANGED <<leaving, hist, backs, puts>>
      BY DEF LayoutLeaves
<1>2. FormOK'
      BY <1>1, FormRest DEF AccountInv, FormOK
<1>3. HistoryOK'
      BY <1>1, HistoryRest DEF AccountInv
<1> QED BY <1>1, <1>2, <1>3 DEF AccountInv, AccountFlagsOK, Leaves

LEMMA AccountKeeps ==
    AccountInv /\ [AccountNext]_accountVars => AccountInv' /\ [Leaves]_accountVars
<1> SUFFICES ASSUME AccountInv, [AccountNext]_accountVars
             PROVE  AccountInv' /\ [Leaves]_accountVars
    OBVIOUS
<1>1. ASSUME NEW d \in Drafts, EditField(d) PROVE AccountInv' /\ Leaves
      BY <1>1, EditFieldKeeps
<1>2. ASSUME NEW k, ServePut(k) \/ LosePut(k) \/ PutAnswered(k)
      PROVE  AccountInv' /\ Leaves
      BY <1>2, ServePutKeeps, LosePutKeeps, PutAnsweredKeeps
<1>3. CASE Save \/ HandleBack \/ SaveAndLeave \/ DiscardAndLeave \/ CancelUnsaved
           \/ CloseTab \/ AnswerUnload \/ Manage
      BY <1>3, ButtonsKeep
<1>4. CASE BrowserBack \/ OwnBack
      BY <1>4, BackKeeps
<1>5. CASE UNCHANGED accountVars
  <2>1. FormOK' /\ AccountFlagsOK'
        BY <1>5, Zenon DEF accountVars, AccountInv, FormOK, AccountFlagsOK
  <2>2. HistoryOK'
        BY <1>5, HistoryRest, Zenon DEF accountVars, AccountInv, Dirty
  <2> QED BY <1>5, <2>1, <2>2 DEF AccountInv
<1>6. CASE LayoutLeaves
      BY <1>6, LayoutLeavesKeeps
<1> QED BY <1>1, <1>2, <1>3, <1>4, <1>5, <1>6, Zenon DEF AccountNext

\* app/account/page.tsx: the form, its history and its requests keep their types.
THEOREM AccountTypes == AccountSpec => []AccountTypeOK
<1>1. AccountInv => AccountTypeOK
      BY Zenon DEF AccountInv, FormOK, HistoryOK, Entries, AccountTypeOK
<1> QED BY AccountStart, AccountKeeps, <1>1, PTL DEF AccountSpec

\* app/account/page.tsx: for any drafts and any depth of the history, the page's own
\* buttons, the browser's, the portal and the closing of the tab leave edits behind only
\* out of a dialog or by a save; only the layout's menu, logout and toasts may.
THEOREM EditsNotLeftBehindHolds == AccountSpec => EditsNotLeftBehind
BY AccountStart, AccountKeeps, PTL DEF AccountSpec, EditsNotLeftBehind

-----------------------------------------------------------------------------
(* Premium *)

\* An event that has an effect has had it.
Taken(e) == ownerOf[e] # NoCustomer => e \in AppliedEvents

\* A customer that one request created and no row is linked to: nobody pays as it yet,
\* and no other request has it.
Unlinked(t) ==
    LET c == checkout[t].customer IN
    /\ c # linked /\ c \notin payers
    /\ \A u \in Tabs \ {t} : checkout[u].customer # c

\* The row holds an event of its customer that was applied no earlier than any other.
RowOK ==
    \A i \in DOMAIN effects :
        linked # NoCustomer /\ ownerOf[effects[i]] = linked =>
            \E j \in DOMAIN effects : j >= i /\ effects[j] = mirror /\ ownerOf[mirror] = linked

MarkedOK ==
    /\ \A e \in processed : Taken(e)
    /\ \A d \in Deliveries : delivery[d].pc = "applied" => Taken(delivery[d].event)
    /\ \A e \in Emitted \ unanswered : Taken(e)

LinkOK ==
    /\ \A e \in Emitted : ownerOf[e] \in payers \cup {NoCustomer}
    /\ \A t \in Tabs : checkout[t].pc = "created" => Unlinked(t)
    /\ \A t \in Tabs : checkout[t].pc \in {"idle", "unknown"} => checkout[t].customer = 0

BillingInv == BillingTypeOK /\ MarkedOK /\ LinkOK /\ RowOK

\* The type invariant, by who writes the variables.
Requests(n) == [pc : {"idle", "unknown", "created", "known"}, customer : 0..n]
Handlers(E) == [pc : {"idle", "received", "fresh", "applied"}, event : E \cup {NoEvent}]

CheckoutTypesOK ==
    /\ customers \in 0..MaxCustomers /\ linked \in 0..customers /\ payers \subseteq 1..customers
    /\ checkout \in [Tabs -> Requests(customers)]
    /\ \A t \in Tabs : checkout[t].pc \in {"created", "known"} => checkout[t].customer # 0

StripeTypesOK ==
    /\ ownerOf \in Seq(0..customers) /\ Len(ownerOf) <= MaxEvents
    /\ unanswered \subseteq Emitted

WebhookTypesOK ==
    /\ processed \subseteq Emitted /\ delivery \in [Deliveries -> Handlers(Emitted)]
    /\ \A d \in Deliveries : delivery[d].pc # "idle" => delivery[d].event \in Emitted
    /\ effects \in Seq(Emitted) /\ Len(effects) <= MaxEffects
    /\ mirror \in AppliedEvents \cup {NoEvent}

LEMMA BillingTypesSplit ==
    /\ BillingTypeOK <=> CheckoutTypesOK /\ StripeTypesOK /\ WebhookTypesOK
    /\ BillingTypeOK' <=> CheckoutTypesOK' /\ StripeTypesOK' /\ WebhookTypesOK'
<1> USE DEF BillingTypeOK, CheckoutTypesOK, StripeTypesOK, WebhookTypesOK, Requests, Handlers
<1>1. BillingTypeOK <=> CheckoutTypesOK /\ StripeTypesOK /\ WebhookTypesOK
      BY Zenon
<1>2. BillingTypeOK' <=> CheckoutTypesOK' /\ StripeTypesOK' /\ WebhookTypesOK'
      BY Zenon
<1> HIDE DEF BillingTypeOK, CheckoutTypesOK, StripeTypesOK, WebhookTypesOK
<1> QED BY <1>1, <1>2

\* One request moves: the others stay.
LEMMA RequestMoves ==
    ASSUME CheckoutTypesOK, NEW t \in Tabs, NEW n \in {customers, customers + 1},
           NEW p \in {"idle", "unknown", "created", "known"}, NEW c \in 0..n,
           CheckoutAt(t, p, c)
    PROVE  /\ checkout' \in [Tabs -> Requests(n)]
           /\ checkout'[t].pc = p /\ checkout'[t].customer = c
           /\ \A u \in Tabs \ {t} : checkout'[u] = checkout[u]
<1>0. customers \in Nat /\ 0..customers \subseteq 0..n
      BY BillingAssumption DEF CheckoutTypesOK
<1>1. Requests(customers) \subseteq Requests(n)
      BY <1>0 DEF Requests
<1>2. [pc |-> p, customer |-> c] \in Requests(n)
      BY DEF Requests
<1>3. checkout \in [Tabs -> Requests(n)]
      BY <1>1 DEF CheckoutTypesOK
<1> QED BY <1>2, <1>3 DEF CheckoutAt

\* Likewise a handler of the webhook.
LEMMA HandlerMoves ==
    ASSUME WebhookTypesOK, NEW d \in Deliveries,
           NEW p \in {"idle", "received", "fresh", "applied"}, NEW e \in Emitted \cup {NoEvent},
           Handling(d, p, e)
    PROVE  /\ delivery' \in [Deliveries -> Handlers(Emitted)]
           /\ delivery'[d].pc = p /\ delivery'[d].event = e
           /\ \A o \in Deliveries \ {d} : delivery'[o] = delivery[o]
<1>1. [pc |-> p, event |-> e] \in Handlers(Emitted)
      BY DEF Handlers
<1> QED BY <1>1 DEF Handling, WebhookTypesOK

\* What does not look at the requests is kept by a step of one.
LEMMA WebhookRest ==
    ASSUME StripeTypesOK, WebhookTypesOK, MarkedOK, UNCHANGED <<WebhookSide, StripeSide>>,
           customers \in Nat, customers' \in {customers, customers + 1}
    PROVE  StripeTypesOK' /\ WebhookTypesOK' /\ MarkedOK'
<1>1. UNCHANGED <<mirror, processed, delivery, effects, ownerOf, unanswered>>
      BY DEF WebhookSide, StripeSide
<1>2. Emitted' = Emitted /\ AppliedEvents' = AppliedEvents
      BY <1>1 DEF Emitted, AppliedEvents
<1>3. WebhookTypesOK'
      BY <1>1, <1>2, Zenon DEF WebhookTypesOK
<1>4. MarkedOK'
      BY <1>1, <1>2, Zenon DEF MarkedOK, Taken
<1>5. ownerOf \in Seq(0..customers')
  <2>1. 0..customers \subseteq 0..customers'
        OBVIOUS
  <2> QED BY <2>1 DEF StripeTypesOK
<1>6. StripeTypesOK'
      BY <1>1, <1>2, <1>5 DEF StripeTypesOK
<1> QED BY <1>3, <1>4, <1>6

LEMMA RowRest ==
    ASSUME RowOK, UNCHANGED <<linked, effects, mirror, ownerOf>>
    PROVE  RowOK'
BY Zenon DEF RowOK

LEMMA BillingStart == BillingInit => BillingInv
<1> SUFFICES ASSUME BillingInit PROVE BillingInv
    OBVIOUS
<1>1. CheckoutTypesOK
      BY BillingAssumption DEF BillingInit, CheckoutTypesOK, Requests, Idle, NoCustomer
<1>2. Emitted = {} /\ DOMAIN effects = {}
      BY DEF BillingInit, Emitted
<1>3. StripeTypesOK
      BY <1>2, BillingAssumption DEF BillingInit, StripeTypesOK
<1>4. WebhookTypesOK
  <2>1. /\ delivery \in [Deliveries -> Handlers(Emitted)]
        /\ \A d \in Deliveries : delivery[d].pc = "idle"
        BY DEF BillingInit, Handlers, NoDelivery
  <2>2. effects \in Seq(Emitted) /\ Len(effects) <= MaxEffects
        BY BillingAssumption DEF BillingInit
  <2> QED BY <2>1, <2>2 DEF BillingInit, WebhookTypesOK
<1>5. MarkedOK
      BY <1>2 DEF BillingInit, MarkedOK, NoDelivery
<1>6. LinkOK
      BY <1>2 DEF BillingInit, LinkOK, Idle, NoCustomer
<1>7. RowOK
      BY <1>2 DEF RowOK
<1> QED BY <1>1, <1>3, <1>4, <1>5, <1>6, <1>7, BillingTypesSplit DEF BillingInv

\* A request that gets no customer of its own keeps the links.
LEMMA LinkKept ==
    ASSUME CheckoutTypesOK, LinkOK, NEW t \in Tabs, UNCHANGED <<linked, ownerOf>>,
           payers \subseteq payers', payers' \subseteq payers \cup {checkout[t].customer},
           payers' # payers => checkout[t].pc = "known",
           \A u \in Tabs \ {t} : checkout'[u] = checkout[u],
           checkout'[t].pc # "created",
           checkout'[t].customer \in {NoCustomer, linked},
           checkout'[t].pc \in {"idle", "unknown"} => checkout'[t].customer = NoCustomer
    PROVE  LinkOK'
<1>1. Emitted' = Emitted
      BY DEF Emitted
<1>2. \A e \in Emitted' : ownerOf'[e] \in payers' \cup {NoCustomer}
      BY <1>1 DEF LinkOK
<1>3. ASSUME NEW u \in Tabs, checkout'[u].pc = "created" PROVE Unlinked(u)'
  <2>1. u # t /\ checkout'[u] = checkout[u] /\ checkout[u].pc = "created"
        BY <1>3
  <2>2. /\ checkout[u].customer # linked /\ checkout[u].customer \notin payers
        /\ \A v \in Tabs \ {u} : checkout[v].customer # checkout[u].customer
        BY <2>1 DEF LinkOK, Unlinked
  <2>3. checkout[u].customer # NoCustomer
        BY <2>1 DEF CheckoutTypesOK, NoCustomer
  <2>4. ASSUME NEW v \in Tabs \ {u} PROVE checkout'[v].customer # checkout[u].customer
        BY <2>1, <2>2, <2>3, <2>4
  <2>5. checkout[u].customer \notin payers'
        BY <2>1, <2>2
  <2> QED BY <2>1, <2>2, <2>4, <2>5 DEF Unlinked
<1>4. ASSUME NEW u \in Tabs, checkout'[u].pc \in {"idle", "unknown"}
      PROVE  checkout'[u].customer = 0
      BY <1>4 DEF LinkOK, NoCustomer
<1> QED BY <1>2, <1>3, <1>4 DEF LinkOK

\* POST /api/billing/checkout, whatever it does, keeps the invariant.
LEMMA CheckoutKeeps ==
    ASSUME BillingInv, NEW t \in Tabs, Checkout(t)
    PROVE  BillingInv'
<1>0. /\ CheckoutTypesOK /\ StripeTypesOK /\ WebhookTypesOK /\ MarkedOK /\ LinkOK /\ RowOK
      /\ customers \in Nat /\ customers \in 0..MaxCustomers /\ linked \in 0..customers
      /\ payers \subseteq 1..customers /\ NoCustomer = 0 /\ NoCustomer \in 0..customers
      /\ checkout[t].customer \in 0..customers
      BY BillingTypesSplit, BillingAssumption
      DEF BillingInv, CheckoutTypesOK, Requests, NoCustomer
<1>a. UNCHANGED <<WebhookSide, StripeSide>>
      BY DEF Checkout, OpenCheckout, CreateCustomer, LinkCustomer, OpenSession, CheckoutFailed
<1>b. UNCHANGED <<effects, mirror, ownerOf, unanswered>> /\ Emitted' = Emitted
      BY <1>a DEF WebhookSide, StripeSide, Emitted
<1>1. CASE OpenCheckout(t) \/ OpenSession(t) \/ CheckoutFailed(t)
  <2>1. UNCHANGED <<linked, customers>>
        BY <1>1 DEF OpenCheckout, OpenSession, CheckoutFailed
  <2>2. PICK p \in {"idle", "unknown", "known"}, c \in {NoCustomer, linked} :
           /\ CheckoutAt(t, p, c) /\ (p = "known" => c # NoCustomer)
           /\ (p # "known" => c = NoCustomer)
    <3>1. CASE OpenCheckout(t) /\ linked = NoCustomer
          BY <3>1 DEF OpenCheckout
    <3>2. CASE OpenCheckout(t) /\ linked # NoCustomer
          BY <3>2 DEF OpenCheckout
    <3>3. CASE OpenSession(t) \/ CheckoutFailed(t)
          BY <3>3 DEF OpenSession, CheckoutFailed
    <3> QED BY <1>1, <3>1, <3>2, <3>3
  <2>3. /\ payers \subseteq payers' /\ payers' \subseteq payers \cup {checkout[t].customer}
        /\ payers' # payers => checkout[t].pc = "known"
        BY <1>1 DEF OpenCheckout, OpenSession, CheckoutFailed
  <2>4. /\ checkout' \in [Tabs -> Requests(customers)]
        /\ checkout'[t].pc = p /\ checkout'[t].customer = c
        /\ \A u \in Tabs \ {t} : checkout'[u] = checkout[u]
        BY <1>0, <2>2, RequestMoves
  <2>5. payers' \subseteq 1..customers
    <3>1. payers' # payers => checkout[t].customer \in 1..customers
          BY <1>0, <2>3 DEF CheckoutTypesOK
    <3> QED BY <1>0, <2>3, <3>1
  <2>6. CheckoutTypesOK'
        BY <1>0, <2>1, <2>2, <2>4, <2>5 DEF CheckoutTypesOK
  <2>7. LinkOK'
        BY <1>0, <1>b, <2>1, <2>2, <2>3, <2>4, LinkKept
  <2>8. RowOK'
        BY <1>0, <1>b, <2>1, RowRest
  <2>9. StripeTypesOK' /\ WebhookTypesOK' /\ MarkedOK'
        BY <1>0, <1>a, <2>1, WebhookRest
  <2> QED BY <2>6, <2>7, <2>8, <2>9, BillingTypesSplit DEF BillingInv
<1>2. CASE CreateCustomer(t)
  <2> DEFINE n == customers + 1
  <2>1. /\ UNCHANGED <<linked, payers>> /\ customers' = n /\ n \in 0..MaxCustomers
        /\ CheckoutAt(t, "created", n) /\ n \in 0..n /\ n # 0 /\ n \notin 0..customers
        /\ 0..customers \subseteq 0..n /\ 1..customers \subseteq 1..n
        BY <1>0, <1>2, BillingAssumption DEF CreateCustomer
  <2>2. /\ checkout' \in [Tabs -> Requests(n)]
        /\ checkout'[t].pc = "created" /\ checkout'[t].customer = n
        /\ \A u \in Tabs \ {t} : checkout'[u] = checkout[u]
    <3>1. n \in {customers, customers + 1}
          OBVIOUS
    <3> HIDE DEF n
    <3> QED BY <1>0, <2>1, <3>1, RequestMoves
  <2>3. \A u \in Tabs : checkout[u].customer \in 0..customers
        BY <1>0 DEF CheckoutTypesOK, Requests
  <2> HIDE DEF n
  <2>4. CheckoutTypesOK'
        BY <1>0, <2>1, <2>2 DEF CheckoutTypesOK
  <2>5. Unlinked(t)'
        BY <1>0, <2>1, <2>2, <2>3 DEF Unlinked
  <2>6. ASSUME NEW u \in Tabs \ {t}, checkout[u].pc = "created" PROVE Unlinked(u)'
    <3>1. Unlinked(u)
          BY <1>0, <2>6 DEF LinkOK
    <3> QED BY <2>1, <2>2, <2>3, <3>1 DEF Unlinked
  <2>7. LinkOK'
        BY <1>0, <1>b, <2>1, <2>2, <2>5, <2>6 DEF LinkOK
  <2>8. RowOK'
        BY <1>0, <1>b, <2>1, RowRest
  <2>9. StripeTypesOK' /\ WebhookTypesOK' /\ MarkedOK'
    <3>1. customers' \in {customers, customers + 1}
          BY <2>1 DEF n
    <3> QED BY <1>0, <1>a, <3>1, WebhookRest
  <2> QED BY <2>4, <2>7, <2>8, <2>9, BillingTypesSplit DEF BillingInv
<1>3. CASE LinkCustomer(t)
  <2>0. PICK c \in 0..customers : c = checkout[t].customer
        BY <1>0
  <2>1. /\ checkout[t].pc = "created" /\ linked' = c /\ CheckoutAt(t, "known", c)
        /\ UNCHANGED <<customers, payers>>
        BY <1>3, <2>0 DEF LinkCustomer
  <2>2. /\ c # 0 /\ c \notin payers /\ \A u \in Tabs \ {t} : checkout[u].customer # c
        BY <1>0, <2>0, <2>1 DEF LinkOK, Unlinked, CheckoutTypesOK
  <2>3. /\ checkout' \in [Tabs -> Requests(customers)]
        /\ checkout'[t].pc = "known" /\ checkout'[t].customer = c
        /\ \A u \in Tabs \ {t} : checkout'[u] = checkout[u]
        BY <1>0, <2>1, RequestMoves
  <2>4. CheckoutTypesOK'
        BY <1>0, <2>1, <2>2, <2>3 DEF CheckoutTypesOK
  <2>5. ASSUME NEW u \in Tabs \ {t}, checkout[u].pc = "created" PROVE Unlinked(u)'
    <3>1. Unlinked(u)
          BY <1>0, <2>5 DEF LinkOK
    <3> QED BY <2>0, <2>1, <2>2, <2>3, <3>1 DEF Unlinked
  <2>6. LinkOK'
        BY <1>0, <1>b, <2>1, <2>3, <2>5 DEF LinkOK
  <2>7. RowOK'
    <3>1. \A i \in DOMAIN effects : ownerOf[effects[i]] # c
      <4>1. ASSUME NEW i \in DOMAIN effects PROVE effects[i] \in Emitted
            BY <1>0 DEF WebhookTypesOK
      <4> QED BY <1>0, <2>2, <4>1 DEF LinkOK
    <3> QED BY <1>b, <2>1, <3>1 DEF RowOK
  <2>8. StripeTypesOK' /\ WebhookTypesOK' /\ MarkedOK'
        BY <1>0, <1>a, <2>1, WebhookRest
  <2> QED BY <2>4, <2>6, <2>7, <2>8, BillingTypesSplit DEF BillingInv
<1> QED BY <1>1, <1>2, <1>3 DEF Checkout

\* What does not look at the handlers is kept by a step of one.
LEMMA CheckoutRest ==
    ASSUME CheckoutTypesOK, StripeTypesOK, LinkOK, UNCHANGED <<CheckoutSide, ownerOf>>,
           unanswered' \subseteq unanswered
    PROVE  CheckoutTypesOK' /\ StripeTypesOK' /\ LinkOK' /\ Emitted' = Emitted
<1>1. UNCHANGED <<linked, checkout, customers, payers>> /\ Emitted' = Emitted
      BY DEF CheckoutSide, Emitted
<1>2. CheckoutTypesOK'
      BY <1>1, Zenon DEF CheckoutTypesOK
<1>3. LinkOK'
      BY <1>1, Zenon DEF LinkOK, Unlinked
<1>4. StripeTypesOK'
      BY <1>1 DEF StripeTypesOK
<1> QED BY <1>1, <1>2, <1>3, <1>4

\* A handler that applies nothing: what it marks and what Stripe hears of is taken.
LEMMA HandlerRest ==
    ASSUME BillingInv, NEW d \in Deliveries,
           NEW p \in {"idle", "received", "fresh"}, NEW e \in Emitted \cup {NoEvent},
           p # "idle" => e \in Emitted,
           Handling(d, p, e), UNCHANGED <<CheckoutSide, ownerOf, mirror, effects>>,
           unanswered' \subseteq unanswered,
           processed \subseteq processed', processed' \subseteq Emitted,
           \A f \in (unanswered \ unanswered') \cup (processed' \ processed) : Taken(f)
    PROVE  BillingInv'
<1>0. /\ CheckoutTypesOK /\ StripeTypesOK /\ WebhookTypesOK /\ MarkedOK /\ LinkOK /\ RowOK
      BY BillingTypesSplit DEF BillingInv
<1>1. CheckoutTypesOK' /\ StripeTypesOK' /\ LinkOK' /\ Emitted' = Emitted
      BY <1>0, CheckoutRest
<1>2. AppliedEvents' = AppliedEvents /\ \A f : Taken(f)' <=> Taken(f)
      BY DEF AppliedEvents, Taken
<1>3. /\ delivery' \in [Deliveries -> Handlers(Emitted)]
      /\ delivery'[d].pc = p /\ delivery'[d].event = e
      /\ \A o \in Deliveries \ {d} : delivery'[o] = delivery[o]
      BY <1>0, HandlerMoves
<1>4. WebhookTypesOK'
      BY <1>0, <1>1, <1>2, <1>3 DEF WebhookTypesOK
<1>5. MarkedOK'
      BY <1>0, <1>1, <1>2, <1>3 DEF MarkedOK
<1>6. RowOK'
      BY <1>0, RowRest DEF CheckoutSide
<1> QED BY <1>1, <1>4, <1>5, <1>6, BillingTypesSplit DEF BillingInv

\* The effect of an event: it is taken from here on, and the row of its customer holds it.
LEMMA ApplyKeeps ==
    ASSUME BillingInv, NEW d \in Deliveries, ApplyEvent(d)
    PROVE  BillingInv'
<1>0. /\ CheckoutTypesOK /\ StripeTypesOK /\ WebhookTypesOK /\ MarkedOK /\ LinkOK /\ RowOK
      BY BillingTypesSplit DEF BillingInv
<1>e. PICK e \in Emitted : e = delivery[d].event
      BY <1>0 DEF WebhookTypesOK, ApplyEvent
<1>s. /\ UNCHANGED <<CheckoutSide, ownerOf, unanswered, processed>> /\ linked' = linked
      /\ Handling(d, "applied", e)
      BY <1>e DEF ApplyEvent, StripeSide, CheckoutSide
<1>1. CheckoutTypesOK' /\ StripeTypesOK' /\ LinkOK' /\ Emitted' = Emitted
      BY <1>0, <1>s, CheckoutRest
<1>3. /\ delivery' \in [Deliveries -> Handlers(Emitted)]
      /\ delivery'[d].pc = "applied" /\ delivery'[d].event = e
      /\ \A o \in Deliveries \ {d} : delivery'[o] = delivery[o]
      BY <1>0, <1>s, HandlerMoves
<1>4. CASE ownerOf[e] = NoCustomer
  <2>1. UNCHANGED <<mirror, effects>>
        BY <1>4, <1>e DEF ApplyEvent
  <2>2. AppliedEvents' = AppliedEvents /\ \A f : Taken(f)' <=> Taken(f)
        BY <1>s, <2>1 DEF AppliedEvents, Taken
  <2>3. Taken(e)
        BY <1>4 DEF Taken
  <2>4. WebhookTypesOK'
        BY <1>0, <1>s, <1>1, <1>3, <2>1, <2>2 DEF WebhookTypesOK
  <2>5. MarkedOK'
        BY <1>0, <1>s, <1>1, <1>3, <2>2, <2>3 DEF MarkedOK
  <2>6. RowOK'
        BY <1>0, <1>s, <2>1, RowRest
  <2> QED BY <1>1, <2>4, <2>5, <2>6, BillingTypesSplit DEF BillingInv
<1>5. CASE ownerOf[e] # NoCustomer
  <2>1. Len(effects) < MaxEffects /\ MirrorOf(e) /\ effects' = Append(effects, e)
        BY <1>5, <1>e DEF ApplyEvent
  <2>2. /\ effects' \in Seq(Emitted) /\ Len(effects') = Len(effects) + 1
        /\ effects'[Len(effects')] = e /\ Len(effects) \in Nat
        /\ \A i \in 1..Len(effects) : effects'[i] = effects[i]
        /\ DOMAIN effects = 1..Len(effects) /\ DOMAIN effects' = 1..Len(effects')
        BY <1>0, <2>1 DEF WebhookTypesOK
  <2>3. AppliedEvents' = AppliedEvents \cup {e}
        BY <2>2 DEF AppliedEvents
  <2>4. mirror' = (IF ownerOf[e] = linked THEN e ELSE mirror)
        BY <2>1 DEF MirrorOf
  <2>5. \A f : Taken(f) => Taken(f)'
        BY <1>s, <2>3 DEF Taken
  <2>6. Taken(e)'
        BY <2>3 DEF Taken
  <2>7. Len(effects') <= MaxEffects
        BY <2>1, <2>2, BillingAssumption
  <2>8. WebhookTypesOK'
        BY <1>0, <1>s, <1>1, <1>3, <2>2, <2>3, <2>4, <2>7 DEF WebhookTypesOK
  <2>9. MarkedOK'
        BY <1>0, <1>s, <1>1, <1>3, <2>5, <2>6 DEF MarkedOK
  <2>10. RowOK'
    <3>1. CASE ownerOf[e] = linked
      <4>1. mirror' = e /\ Len(effects') \in DOMAIN effects'
            BY <2>2, <2>4, <3>1
      <4>2. \A i \in DOMAIN effects' : Len(effects') >= i
            BY <2>2
      <4> QED BY <1>s, <2>2, <3>1, <4>1, <4>2 DEF RowOK
    <3>2. CASE ownerOf[e] # linked
      <4>1. mirror' = mirror
            BY <2>4, <3>2
      <4>2. SUFFICES ASSUME NEW i \in DOMAIN effects', linked # NoCustomer,
                            ownerOf[effects'[i]] = linked
                     PROVE  \E j \in DOMAIN effects' :
                               j >= i /\ effects'[j] = mirror /\ ownerOf[mirror] = linked
            BY <1>s, <4>1 DEF RowOK
      <4>3. i \in DOMAIN effects
            BY <2>2, <3>2, <4>2
      <4>4. PICK j \in DOMAIN effects :
               j >= i /\ effects[j] = mirror /\ ownerOf[mirror] = linked
            BY <1>0, <2>2, <4>2, <4>3 DEF RowOK
      <4>5. j \in DOMAIN effects' /\ effects'[j] = effects[j]
            BY <2>2
      <4> QED BY <4>4, <4>5
    <3> QED BY <3>1, <3>2
  <2> QED BY <1>1, <2>8, <2>9, <2>10, BillingTypesSplit DEF BillingInv
<1> QED BY <1>4, <1>5

\* A handler of the webhook, wherever it stops.
LEMMA WebhookKeeps ==
    ASSUME BillingInv, NEW d \in Deliveries, Webhook(d)
    PROVE  BillingInv'
<1>0. /\ WebhookTypesOK /\ MarkedOK /\ processed \subseteq Emitted
      /\ delivery[d].pc # "idle" => delivery[d].event \in Emitted
      BY BillingTypesSplit DEF BillingInv, WebhookTypesOK
<1>1. CASE Deliver(d)
  <2>1. PICK e \in Emitted : Handling(d, "received", e)
        BY <1>1 DEF Deliver
  <2>2. UNCHANGED <<CheckoutSide, ownerOf, mirror, effects, unanswered, processed>>
        BY <1>1 DEF Deliver, StripeSide
  <2> QED BY <1>0, <2>1, <2>2, HandlerRest
<1>2. CASE LookupEvent(d)
  <2>1. /\ UNCHANGED <<CheckoutSide, ownerOf, mirror, effects, processed>>
        /\ delivery[d].event \in Emitted
        BY <1>0, <1>2 DEF LookupEvent
  <2>2. CASE delivery[d].event \in processed
    <3>1. /\ Handling(d, "idle", NoEvent)
         /\ unanswered' \in {unanswered, unanswered \ {delivery[d].event}}
          BY <1>2, <2>2 DEF LookupEvent, Answered
    <3>2. Taken(delivery[d].event)
          BY <1>0, <2>2 DEF MarkedOK
    <3> QED BY <1>0, <2>1, <3>1, <3>2, HandlerRest
  <2>3. CASE delivery[d].event \notin processed
    <3>1. Handling(d, "fresh", delivery[d].event) /\ UNCHANGED unanswered
          BY <1>2, <2>3 DEF LookupEvent
    <3> QED BY <1>0, <2>1, <3>1, HandlerRest
  <2> QED BY <2>2, <2>3
<1>3. CASE MarkEvent(d)
  <2>1. /\ UNCHANGED <<CheckoutSide, ownerOf, mirror, effects>>
        /\ processed' \in {processed, processed \cup {delivery[d].event}}
        /\ delivery[d].event \in Emitted /\ Taken(delivery[d].event)
        BY <1>0, <1>3 DEF MarkEvent, MarkedOK
  <2>2. /\ Handling(d, "idle", NoEvent)
         /\ unanswered' \in {unanswered, unanswered \ {delivery[d].event}}
        BY <1>3 DEF MarkEvent, Answered
  <2> QED BY <1>0, <2>1, <2>2, HandlerRest
<1>4. CASE DeliveryFailed(d)
  <2>1. /\ UNCHANGED <<CheckoutSide, ownerOf, mirror, effects, unanswered, processed>>
        /\ Handling(d, "idle", NoEvent)
        BY <1>4 DEF DeliveryFailed, StripeSide
  <2> QED BY <1>0, <2>1, HandlerRest
<1> QED BY <1>1, <1>2, <1>3, <1>4, ApplyKeeps DEF Webhook

\* A new event waits to be delivered: nothing was done for it.
LEMMA EmitKeeps == ASSUME BillingInv, Emit PROVE BillingInv'
<1>0. /\ CheckoutTypesOK /\ StripeTypesOK /\ WebhookTypesOK /\ MarkedOK /\ LinkOK /\ RowOK
      BY BillingTypesSplit DEF BillingInv
<1>1. PICK c \in payers \cup {NoCustomer} : ownerOf' = Append(ownerOf, c)
      BY DEF Emit
<1> DEFINE n == Len(ownerOf) + 1
<1>2. /\ UNCHANGED <<linked, checkout, customers, payers, mirror, processed, delivery, effects>>
      /\ unanswered' = unanswered \cup {n} /\ Len(ownerOf) < MaxEvents
      BY DEF Emit, CheckoutSide, WebhookSide
<1>3. c \in 0..customers
      BY <1>0, BillingAssumption DEF CheckoutTypesOK, NoCustomer
<1>4. /\ ownerOf' \in Seq(0..customers) /\ Len(ownerOf') = n /\ Len(ownerOf) \in Nat
      /\ Emitted = 1..Len(ownerOf) /\ Emitted' = 1..n /\ Emitted' = Emitted \cup {n}
      /\ n \notin Emitted /\ ownerOf'[n] = c /\ \A e \in Emitted : ownerOf'[e] = ownerOf[e]
      BY <1>0, <1>1, <1>3 DEF StripeTypesOK, Emitted
<1>5. n <= MaxEvents
      BY <1>2, <1>4, BillingAssumption
<1> HIDE DEF n
<1>6. AppliedEvents' = AppliedEvents /\ \A e \in Emitted : Taken(e) => Taken(e)'
      BY <1>2, <1>4 DEF AppliedEvents, Taken
<1>7. CheckoutTypesOK'
      BY <1>0, <1>2, Zenon DEF CheckoutTypesOK
<1>8. StripeTypesOK'
      BY <1>0, <1>2, <1>4, <1>5 DEF StripeTypesOK
<1>9. WebhookTypesOK'
  <2>1. Handlers(Emitted) \subseteq Handlers(Emitted')
        BY <1>4 DEF Handlers
  <2>2. delivery' \in [Deliveries -> Handlers(Emitted')]
        BY <1>0, <1>2, <2>1 DEF WebhookTypesOK
  <2>3. effects' \in Seq(Emitted')
        BY <1>0, <1>2, <1>4 DEF WebhookTypesOK
  <2> QED BY <1>0, <1>2, <1>4, <1>6, <2>2, <2>3 DEF WebhookTypesOK
<1>10. MarkedOK'
  <2>1. \A e \in processed : e \in Emitted /\ Taken(e)
        BY <1>0 DEF MarkedOK, WebhookTypesOK
  <2>2. \A d \in Deliveries : delivery[d].pc = "applied" =>
                                 delivery[d].event \in Emitted /\ Taken(delivery[d].event)
        BY <1>0 DEF MarkedOK, WebhookTypesOK
  <2>3. \A e \in Emitted' \ unanswered' : e \in Emitted /\ Taken(e)
        BY <1>0, <1>2, <1>4 DEF MarkedOK
  <2> QED BY <1>2, <1>6, <2>1, <2>2, <2>3 DEF MarkedOK
<1>11. LinkOK'
  <2>1. \A e \in Emitted' : ownerOf'[e] \in payers \cup {NoCustomer}
        BY <1>0, <1>1, <1>4 DEF LinkOK
  <2>2. \A t \in Tabs : Unlinked(t)' <=> Unlinked(t)
        BY <1>2 DEF Unlinked
  <2> QED BY <1>0, <1>2, <2>1, <2>2 DEF LinkOK
<1>12. RowOK'
  <2>1. \A i \in DOMAIN effects : effects[i] \in Emitted
        BY <1>0 DEF WebhookTypesOK
  <2> QED BY <1>0, <1>2, <1>4, <2>1 DEF RowOK
<1> QED BY <1>7, <1>8, <1>9, <1>10, <1>11, <1>12, BillingTypesSplit DEF BillingInv

LEMMA BillingKeeps == BillingInv /\ [BillingNext]_billingVars => BillingInv'
<1> SUFFICES ASSUME BillingInv, [BillingNext]_billingVars PROVE BillingInv'
    OBVIOUS
<1>1. CASE UNCHANGED billingVars
  <2>1. /\ UNCHANGED <<linked, mirror, processed, checkout, customers, payers>>
        /\ UNCHANGED <<ownerOf, unanswered, delivery, effects>>
        BY <1>1 DEF billingVars
  <2>2. Emitted' = Emitted /\ AppliedEvents' = AppliedEvents
        BY <2>1 DEF Emitted, AppliedEvents
  <2>3. BillingTypeOK'
        BY <2>1, <2>2, Zenon DEF BillingInv, BillingTypeOK
  <2>4. MarkedOK'
        BY <2>1, <2>2, Zenon DEF BillingInv, MarkedOK, Taken
  <2>5. LinkOK'
        BY <2>1, <2>2, Zenon DEF BillingInv, LinkOK, Unlinked
  <2>6. RowOK'
        BY <2>1, RowRest DEF BillingInv
  <2> QED BY <2>3, <2>4, <2>5, <2>6 DEF BillingInv
<1> QED BY <1>1, CheckoutKeeps, WebhookKeeps, EmitKeeps, Zenon DEF BillingNext

\* internal/billing: the row, the requests and the handlers hold what they may, and a
\* checkout past ensureCustomer is for a customer that Stripe knows.
THEOREM BillingTypes == BillingSpec => []BillingTypeOK
<1>1. BillingInv => BillingTypeOK
      BY DEF BillingInv
<1> QED BY BillingStart, BillingKeeps, <1>1, PTL DEF BillingSpec

\* HandleWebhook: for any number of handlers, customers and events, and however they fail,
\* a subscription event that Stripe will not deliver again was applied.
THEOREM NoEventLostHolds == BillingSpec => []NoEventLost
<1>1. BillingInv => NoEventLost
      BY DEF BillingInv, MarkedOK, Taken, NoEventLost
<1> QED BY BillingStart, BillingKeeps, <1>1, PTL DEF BillingSpec

\* The row against Stripe: once every event is answered, a row whose events came in order
\* holds the newest of its customer's, for any interleaving of checkouts and handlers.
THEOREM MirrorSettlesHolds == BillingSpec => []MirrorSettles
<1>1. ASSUME BillingInv PROVE MirrorSettles
  <2> SUFFICES ASSUME unanswered = {}, linked # NoCustomer, InOrder, Of(linked) # {}
               PROVE  Newest(mirror, linked)
      BY DEF MirrorSettles
  <2>0. RowOK /\ NoEventLost /\ effects \in Seq(Emitted) /\ Emitted \subseteq Nat
    <3>1. StripeTypesOK /\ WebhookTypesOK
          BY <1>1, BillingTypesSplit DEF BillingInv
    <3> QED BY <1>1, <3>1
            DEF BillingInv, MarkedOK, Taken, NoEventLost, StripeTypesOK, WebhookTypesOK, Emitted
  <2>1. ASSUME NEW f \in Of(linked)
        PROVE  mirror \in Of(linked) /\ f <= mirror
    <3>1. f \in Emitted /\ ownerOf[f] = linked
          BY DEF Of
    <3>2. PICK i \in DOMAIN effects : effects[i] = f
          BY <2>0, <3>1 DEF NoEventLost, AppliedEvents
    <3>3. PICK j \in DOMAIN effects : j >= i /\ effects[j] = mirror /\ ownerOf[mirror] = linked
          BY <2>0, <3>1, <3>2 DEF RowOK
    <3>4. mirror \in Emitted /\ mirror \in Nat /\ f \in Nat /\ i \in Nat /\ j \in Nat
      <4>1. DOMAIN effects = 1..Len(effects) /\ Len(effects) \in Nat
            BY <2>0
      <4>2. effects[j] \in Emitted
            BY <2>0
      <4>3. i \in Nat /\ j \in Nat
            BY <4>1
      <4>4. mirror \in Emitted
            BY <3>3, <4>2
      <4>5. \A e \in Emitted : e \in Nat
            BY <2>0
      <4> QED BY <3>1, <4>3, <4>4, <4>5
    <3>5. i = j \/ i < j
          BY <3>3, <3>4
    <3>6. f <= mirror
          BY <3>1, <3>2, <3>3, <3>4, <3>5 DEF InOrder
    <3> QED BY <3>3, <3>4, <3>6 DEF Of
  <2> QED BY <2>1 DEF Newest
<1> QED BY BillingStart, BillingKeeps, <1>1, PTL DEF BillingSpec
================================================================================
