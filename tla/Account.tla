------------------------------- MODULE Account -------------------------------
(***************************************************************************)
(* The form of app/account/page.tsx and the ways out of the page: its back *)
(* button, the browser's, the save, the subscription portal, the tab's own *)
(* close, and the links and toasts of the layout around the page.  While   *)
(* there are edits the page keeps a decoy entry on top of the browser's    *)
(* history, so that a step back lands on the page itself.                  *)
(*                                                                         *)
(* A draft stands for the whole form.  The grid of photos is in Photos.    *)
(***************************************************************************)
EXTENDS Naturals, Sequences, SequencesExt

CONSTANTS Drafts,  \* values of the form, "" among them
          Trimmed, \* what the server keeps of a draft (sanitizeField)
          NoProfile,
          Premium, \* whether the account has a subscription to manage
          MaxHist, \* bound: entries of the history and steps back to come
          MaxPuts  \* bound: requests under way

ASSUME AccountAssumption ==
    /\ "" \in Drafts /\ NoProfile \notin Drafts /\ Trimmed \in [Drafts -> Drafts]
    /\ Premium \in BOOLEAN /\ MaxHist \in Nat /\ MaxHist >= 3 /\ MaxPuts \in Nat \ {0}

VARIABLES row,      \* the form's columns in user_profiles
          snapshot, \* account.profile, NoProfile before the answer
          typed,    \* the fields
          saving,   \* savingState is "busy"
          unsaved,  \* the dialog about unsaved changes is open
          unload,   \* the browser's own dialog is open
          leaving,  \* leavingRef
          hist,     \* the history below and at the current entry
          backs,    \* history.back() called, not done yet
          place,    \* "loading", "page", "gone", or "away" when the layout left it
          puts      \* requests under way

accountVars == <<row, snapshot, typed, saving, unsaved, unload, leaving, hist, backs,
                 place, puts>>

Put == [kind : {"load", "save", "leave", "portal"}, text : Drafts,
        state : {"sent", "done", "failed"}]

AccountFlagsOK ==
    /\ saving \in BOOLEAN /\ unsaved \in BOOLEAN
    /\ unload \in BOOLEAN /\ leaving \in BOOLEAN

AccountTypeOK ==
    /\ row \in Drafts /\ snapshot \in Drafts \cup {NoProfile} /\ typed \in Drafts
    /\ AccountFlagsOK
    /\ hist \in Seq({"from", "page", "decoy"}) /\ Len(hist) + backs <= MaxHist
    /\ backs \in Nat /\ place \in {"loading", "page", "gone", "away"}
    /\ puts \in Seq(Put) /\ Len(puts) <= MaxPuts

Asked(kind, text) == [kind |-> kind, text |-> text, state |-> "sent"]
SendPut(p) == Len(puts) < MaxPuts /\ puts' = Append(puts, p)

AccountInit ==
    /\ row \in {Trimmed[d] : d \in Drafts} /\ snapshot = NoProfile /\ typed = ""
    /\ saving = FALSE /\ unsaved = FALSE /\ unload = FALSE /\ leaving = FALSE
    /\ hist = <<"from", "page">> /\ backs = 0 /\ place = "loading"
    /\ puts = <<Asked("load", "")>>

Dirty == snapshot # NoProfile /\ typed # snapshot

\* The effect on isDirty, run when it changes: the decoy goes on top, or is taken back
\* unless the page is being left on purpose.
Guarded ==
    IF Dirty' = Dirty THEN UNCHANGED <<hist, backs>>
    ELSE IF Dirty' THEN /\ Len(hist) + backs + 1 < MaxHist /\ UNCHANGED backs
                        /\ hist' = Append(hist, "decoy")
    ELSE /\ backs' = IF ~leaving /\ Last(hist) = "decoy" THEN backs + 1 ELSE backs
         /\ UNCHANGED hist

\* router.push(returnTo)
Push == place' = "gone"

-----------------------------------------------------------------------------
\* A field, a prompt chosen, answered or cleared.
EditField(d) ==
    /\ place = "page" /\ d # typed /\ typed' = d
    /\ UNCHANGED <<row, snapshot, saving, unsaved, unload, leaving, place, puts>>
    /\ Guarded

Save ==
    /\ place = "page" /\ Dirty /\ ~saving /\ saving' = TRUE /\ leaving' = TRUE
    /\ SendPut(Asked("save", typed))
    /\ UNCHANGED <<row, snapshot, typed, unsaved, unload, hist, backs, place>>

HandleBack ==
    /\ place = "page"
    /\ IF Dirty THEN unsaved' = TRUE /\ UNCHANGED <<leaving, place>>
       ELSE leaving' = TRUE /\ Push /\ UNCHANGED unsaved
    /\ UNCHANGED <<row, snapshot, typed, saving, unload, hist, backs, puts>>

SaveAndLeave ==
    /\ place = "page" /\ unsaved /\ leaving' = TRUE /\ SendPut(Asked("leave", typed))
    /\ UNCHANGED <<row, snapshot, typed, saving, unsaved, unload, hist, backs, place>>

DiscardAndLeave ==
    /\ place = "page" /\ unsaved /\ leaving' = TRUE /\ unsaved' = FALSE /\ Push
    /\ UNCHANGED <<row, snapshot, typed, saving, unload, hist, backs, puts>>

CancelUnsaved ==
    /\ place = "page" /\ unsaved /\ unsaved' = FALSE
    /\ UNCHANGED <<row, snapshot, typed, saving, unload, leaving, hist, backs, place, puts>>

-----------------------------------------------------------------------------
(* The browser *)

\* Mutant: the entry that was popped is not put back.
PoppedForGood ==
    /\ unsaved' = TRUE /\ hist' = Front(hist) /\ UNCHANGED place

\* onPop, heard on the page only: the step back is turned into the dialog.
Popped ==
    /\ unsaved' = TRUE /\ hist' = Append(Front(hist), "decoy") /\ UNCHANGED place

StepBack ==
    LET lands == Last(Front(hist))
    IN IF lands = "from" THEN place' = "gone" /\ hist' = Front(hist) /\ UNCHANGED unsaved
       ELSE IF Dirty THEN Popped
       ELSE hist' = Front(hist) /\ UNCHANGED <<unsaved, place>>

BrowserBack ==
    /\ place \in {"loading", "page"} /\ StepBack
    /\ UNCHANGED <<row, snapshot, typed, saving, unload, leaving, backs, puts>>

\* The step asked for by the effect's cleanup.
OwnBack ==
    /\ place \in {"loading", "page"} /\ backs > 0 /\ backs' = backs - 1 /\ StepBack
    /\ UNCHANGED <<row, snapshot, typed, saving, unload, leaving, puts>>

\* beforeunload: a document is left with its edits once the browser has asked.
Unloads == IF Dirty THEN unload' = TRUE /\ UNCHANGED place ELSE Push /\ UNCHANGED unload

CloseTab ==
    /\ place = "page" /\ ~unload /\ Unloads
    /\ UNCHANGED <<row, snapshot, typed, saving, unsaved, leaving, hist, backs, puts>>

AnswerUnload ==
    /\ place = "page" /\ unload /\ unload' = FALSE /\ place' \in {"page", "gone"}
    /\ UNCHANGED <<row, snapshot, typed, saving, unsaved, leaving, hist, backs, puts>>

\* The account menu (its link to /vocab, the logout, which turns the page into a 404)
\* and a toast, which opens a thread: none of them knows of the form.
LayoutLeaves ==
    /\ place \in {"loading", "page"} /\ place' = "away"
    /\ UNCHANGED <<row, snapshot, typed, saving, unsaved, unload, leaving, hist, backs,
                   puts>>

\* PremiumSection, whose button is busy until the portal opens or fails.
Manage ==
    /\ place = "page" /\ Premium /\ \A k \in DOMAIN puts : puts[k].kind # "portal"
    /\ SendPut(Asked("portal", ""))
    /\ UNCHANGED <<row, snapshot, typed, saving, unsaved, unload, leaving, hist, backs,
                   place>>

-----------------------------------------------------------------------------
(* Requests *)

\* HandleGet, and HandlePut with Store.Upsert.
ServePut(k) ==
    LET p == puts[k]
        write == p.kind \in {"save", "leave"}
    IN /\ k \in DOMAIN puts /\ p.state = "sent"
       /\ row' = IF write THEN Trimmed[p.text] ELSE row
       /\ puts' = [puts EXCEPT ![k].state = "done",
                               ![k].text = IF p.kind = "portal" THEN "" ELSE row']
       /\ UNCHANGED <<snapshot, typed, saving, unsaved, unload, leaving, hist, backs, place>>

\* A request that never arrives, or an answer that does not come back.
LosePut(k) ==
    /\ k \in DOMAIN puts /\ puts[k].state # "failed"
    /\ puts' = [puts EXCEPT ![k].state = "failed"]
    /\ UNCHANGED <<row, snapshot, typed, saving, unsaved, unload, leaving, hist, backs,
                   place>>

\* A failed load shows the page with an empty form.
Loaded(p) ==
    /\ p.kind = "load" /\ place = "loading" /\ place' = "page"
    /\ IF p.state = "done" THEN snapshot' = p.text /\ typed' = p.text
       ELSE UNCHANGED <<snapshot, typed>>
    /\ UNCHANGED <<saving, unsaved, unload, leaving, hist, backs>>

\* The page returns where it was opened from, whatever was typed meanwhile.
Saved(p) ==
    /\ p.kind \in {"save", "leave"} /\ place = "page" /\ p.state = "done"
    /\ snapshot' = p.text /\ Push /\ unsaved' = (unsaved /\ p.kind = "save")
    /\ UNCHANGED <<typed, saving, unload, leaving, hist, backs>>

SaveFailed(p) ==
    /\ p.state = "failed" /\ place = "page"
    /\ \/ /\ p.kind = "save" /\ leaving' = FALSE /\ saving' = FALSE
          /\ UNCHANGED <<unsaved, place>>
       \/ /\ p.kind = "leave" /\ unsaved' = FALSE /\ Push
          /\ UNCHANGED <<leaving, saving>>
    /\ UNCHANGED <<snapshot, typed, unload, hist, backs>>

\* openPortal: window.location.assign.
PortalAnswers(p) ==
    /\ p.kind = "portal" /\ place = "page"
    /\ IF p.state = "done" THEN Unloads ELSE UNCHANGED <<unload, place>>
    /\ UNCHANGED <<snapshot, typed, saving, unsaved, leaving, hist, backs>>

PutAnswered(k) ==
    /\ k \in DOMAIN puts /\ puts[k].state # "sent" /\ puts' = RemoveAt(puts, k)
    /\ \/ Loaded(puts[k]) \/ Saved(puts[k]) \/ SaveFailed(puts[k]) \/ PortalAnswers(puts[k])
    /\ UNCHANGED row

AccountNext ==
    \/ \E d \in Drafts : EditField(d)
    \/ Save \/ HandleBack \/ SaveAndLeave \/ DiscardAndLeave \/ CancelUnsaved
    \/ BrowserBack \/ OwnBack \/ CloseTab \/ AnswerUnload \/ LayoutLeaves \/ Manage
    \/ \E k \in 1..MaxPuts : ServePut(k) \/ LosePut(k) \/ PutAnswered(k)

AccountSpec == AccountInit /\ [][AccountNext]_accountVars

-----------------------------------------------------------------------------
\* However often one types, takes the edits back and steps back, and whatever steps of
\* its own the page still has coming, the history, the page's buttons, the portal and
\* the closing of the tab leave edits behind only out of a dialog or after a save.  The
\* layout's menu, logout and toasts do leave them behind without a word ("away").
Leaves ==
    place = "page" /\ place' = "gone" /\ Dirty =>
        unsaved \/ unload \/ \E k \in DOMAIN puts : puts[k].kind \in {"save", "leave"}
EditsNotLeftBehind == [][Leaves]_accountVars
=============================================================================
