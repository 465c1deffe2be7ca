------------------------------- MODULE Composer -------------------------------
(***************************************************************************)
(* The message field of chat/MessageInput.tsx: the confirmation it asks    *)
(* for before personal data leaves (lib/pii.ts), the grammar check behind  *)
(* its button (lib/grammar.ts with its cache and its retry, the            *)
(* translation of the explanations, chat/GrammarPopover.tsx), the throttle *)
(* of "typing" frames, and the partner's "is writing" line.                *)
(*                                                                         *)
(* A draft is a member of Texts; correcting a text gives Corrected[text],  *)
(* which may reveal personal data the mistake had hidden.                  *)
(***************************************************************************)
EXTENDS Naturals, Sequences, FiniteSets

CONSTANTS Texts, NoText, PII, Mistaken, Corrected,
          CacheMax \* CACHE_MAX, 200 in the code

ASSUME ComposerAssumption ==
    /\ NoText \notin Texts /\ PII \subseteq Texts /\ Mistaken \subseteq Texts
    /\ Corrected \in [Mistaken -> Texts] /\ CacheMax \in Nat \ {0}

VARIABLES draft,      \* what is in the field, NoText when it is empty
          check,      \* the grammar request under way
          popover,    \* the text whose suggestions are shown, NoText when closed
          grammarErr,
          piiPending, \* the confirmation is asked for
          cache,      \* texts whose suggestions are kept, oldest first
          typing,     \* [me: throttled, peer: shown as writing]
          warnedFor,  \* history: the text of the last warning since a message, or NoText
          rewritten,  \* history: a correction replaced the field while confirmation was asked
          sent        \* the last message, whether it was warned about, or was rewritten since

composerVars == <<draft, check, popover, grammarErr, piiPending, cache, typing,
                  warnedFor, rewritten, sent>>
Warnings == <<warnedFor, rewritten, sent>>

Maybe == Texts \cup {NoText}

ComposerFlagsOK ==
    grammarErr \in BOOLEAN /\ piiPending \in BOOLEAN /\ rewritten \in BOOLEAN

ComposerTypeOK ==
    /\ ComposerFlagsOK
    /\ draft \in Maybe /\ popover \in Maybe
    /\ check \in [text : Maybe, try : 0..2]
    /\ cache \in Seq(Texts) /\ Len(cache) <= CacheMax
    /\ typing \in [me : BOOLEAN, peer : BOOLEAN]
    /\ warnedFor \in Maybe
    /\ sent \in [text : Maybe, warned : BOOLEAN, rewritten : BOOLEAN]

NoCheck == [text |-> NoText, try |-> 0]

ComposerInit ==
    /\ draft = NoText /\ popover = NoText /\ check = NoCheck
    /\ grammarErr = FALSE /\ piiPending = FALSE /\ cache = <<>>
    /\ typing = [me |-> FALSE, peer |-> FALSE]
    /\ warnedFor = NoText /\ rewritten = FALSE
    /\ sent = [text |-> NoText, warned |-> FALSE, rewritten |-> FALSE]

-----------------------------------------------------------------------------
(* Sending *)

DetectPII(text) == text \in PII

\* reallySend(): a check under way goes on.
ReallySend(body) ==
    /\ sent' = [text |-> body, warned |-> body = warnedFor, rewritten |-> rewritten]
    /\ draft' = NoText /\ popover' = NoText /\ grammarErr' = FALSE
    /\ piiPending' = FALSE /\ warnedFor' = NoText /\ rewritten' = FALSE
    /\ UNCHANGED <<check, cache, typing>>

\* The first submit of a text with personal data only warns.
Submit ==
    /\ draft # NoText
    /\ \/ /\ ~piiPending /\ DetectPII(draft)
          /\ piiPending' = TRUE /\ warnedFor' = draft /\ rewritten' = FALSE
          /\ UNCHANGED <<draft, check, popover, grammarErr, cache, typing, sent>>
       \/ /\ piiPending \/ ~DetectPII(draft)
          /\ ReallySend(draft)

\* The button of the warning, which stays while the text does not change by hand.
SendAnyway == piiPending /\ draft # NoText /\ ReallySend(draft)

\* Mutant: the confirmation outlives the text.
TypeOn(text) ==
    /\ text # draft /\ draft' = text /\ popover' = NoText
    /\ typing' = [typing EXCEPT !.me = @ \/ text # NoText]
    /\ UNCHANGED <<check, grammarErr, piiPending, cache, Warnings>>

\* handleChange(): typing closes the suggestions and the confirmation.
Type(text) ==
    /\ text # draft /\ draft' = text
    /\ popover' = NoText /\ piiPending' = FALSE
    /\ typing' = [typing EXCEPT !.me = @ \/ text # NoText]
    /\ UNCHANGED <<check, grammarErr, cache, Warnings>>

\* Two seconds after a "typing" frame another one may leave.
ThrottleOver ==
    /\ typing.me /\ typing' = [typing EXCEPT !.me = FALSE]
    /\ UNCHANGED <<draft, check, popover, grammarErr, piiPending, cache, Warnings>>

\* receivePeerTyping() lights the line; a message, the partner's departure or
\* 3.5 s of silence put it out.
WritingShown == typing.peer

PeerTyping ==
    /\ ~WritingShown /\ typing' = [typing EXCEPT !.peer = TRUE]
    /\ UNCHANGED <<draft, check, popover, grammarErr, piiPending, cache, Warnings>>

PeerQuiet ==
    /\ WritingShown /\ typing' = [typing EXCEPT !.peer = FALSE]
    /\ UNCHANGED <<draft, check, popover, grammarErr, piiPending, cache, Warnings>>

-----------------------------------------------------------------------------
(* Grammar *)

\* The key is in the map once.
Without(s, x) ==
    IF \A i \in DOMAIN s : s[i] # x THEN s
    ELSE LET i == CHOOSE j \in DOMAIN s : s[j] = x
         IN SubSeq(s, 1, i - 1) \o SubSeq(s, i + 1, Len(s))

\* Mutant: nothing is evicted.
CachedForever(text) == Append(Without(cache, text), text)

\* A map keeps the order of insertion; beyond CacheMax the first key goes.
Cached(text) ==
    LET kept == Append(Without(cache, text), text)
    IN IF Len(kept) > CacheMax THEN Tail(kept) ELSE kept

CanCheck == check.text = NoText /\ draft # NoText

\* runCheck(): a hit of the cache needs no request, but is shown only later, as its
\* explanations are translated again.
RunCheck ==
    /\ CanCheck /\ grammarErr' = FALSE
    /\ IF \E i \in DOMAIN cache : cache[i] = draft
       THEN check' = [text |-> draft, try |-> 0] /\ cache' = Cached(draft)
       ELSE check' = [text |-> draft, try |-> 1] /\ UNCHANGED cache
    /\ UNCHANGED <<draft, popover, piiPending, typing, Warnings>>

\* The answer, with its explanations translated when they can be, is shown beside
\* whatever the field holds by now.
CheckDone ==
    /\ check.text # NoText
    /\ popover' = check.text /\ check' = NoCheck
    /\ cache' = IF check.try = 0 THEN cache ELSE Cached(check.text)
    /\ UNCHANGED <<draft, grammarErr, piiPending, typing, Warnings>>

\* One more try after a network failure or a 5xx, none after a refusal or a timeout.
CheckFails(transient) ==
    /\ check.text # NoText /\ check.try # 0
    /\ IF transient /\ check.try = 1
       THEN check' = [check EXCEPT !.try = 2] /\ UNCHANGED grammarErr
       ELSE check' = NoCheck /\ grammarErr' = TRUE
    /\ UNCHANGED <<draft, popover, piiPending, cache, typing, Warnings>>

\* applyReplacement(): the corrected form of the text that was checked replaces the
\* field.  A confirmation asked for another text stays.
ApplyReplacement ==
    /\ popover \in Mistaken
    /\ draft' = Corrected[popover] /\ popover' = NoText /\ rewritten' = (rewritten \/ piiPending)
    /\ UNCHANGED <<check, grammarErr, piiPending, cache, typing, warnedFor, sent>>

ClosePopover ==
    /\ popover # NoText /\ popover' = NoText
    /\ UNCHANGED <<draft, check, grammarErr, piiPending, cache, typing, Warnings>>

ComposerNext ==
    \/ Submit \/ SendAnyway \/ ThrottleOver \/ PeerTyping \/ PeerQuiet \/ RunCheck
    \/ CheckDone \/ ApplyReplacement \/ ClosePopover
    \/ \E text \in Maybe : Type(text)
    \/ \E transient \in BOOLEAN : CheckFails(transient)

ComposerSpec == ComposerInit /\ [][ComposerNext]_composerVars

-----------------------------------------------------------------------------
\* MessageInput.tsx:26-27, 64: a confirmation holds for the text it was asked for, so that
\* personal data leaves only after a warning about this very text, although late answers
\* of the grammar check open suggestions beside it; unless the user took one of them in
\* the meantime, since applyReplacement() changes the text and keeps the confirmation.
WarnedBeforePII == sent.text \in PII => sent.warned \/ sent.rewritten
=============================================================================
