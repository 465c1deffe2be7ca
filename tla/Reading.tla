-------------------------------- MODULE Reading --------------------------------
(***************************************************************************)
(* Reading aids around the messages of chat/MessageList.tsx: immersion     *)
(* (lib/autoTranslate.ts translates the partner's messages one after the   *)
(* other), the tooltip that translates the word one selects and saves it   *)
(* in the notebook (chat/TranslationPopover.tsx), the hint and the         *)
(* introduction that are shown once per browser, and the messages left     *)
(* with the AI teacher (chat/BotQuotaCounter.tsx).                         *)
(*                                                                         *)
(* The list unmounts with its tab and mounts again with the same messages: *)
(* what a former instance had asked for still comes back.                  *)
(***************************************************************************)
EXTENDS Naturals

CONSTANTS MaxMsgs,   \* bound: messages of the partner
          MaxMounts, \* bound: times the list is mounted
          MaxSelects \* bound: words that are selected

ASSUME ReadingAssumption == {MaxMsgs, MaxMounts, MaxSelects} \subseteq Nat \ {0}

VARIABLES arrived,     \* messages of the partner so far
          mounted,     \* number of the instance of the list
          immersion,   \* autoTranslate
          reserved,    \* done: messages that are not to be asked for again
          toTranslate, \* [instance -> [message -> times it is in the queue]]
          tried,       \* [instance -> [message -> requests]]
          lines,       \* messages with a translation under them
          selects,     \* selections so far
          tooltip,     \* the selection the tooltip shows, 0 when it is closed
          body,        \* the tooltip's translation: its state, and of which selection
          mark,        \* the tooltip's saveState
          words,       \* [selection -> its instance of the tooltip, its requests, what is kept]
          once,        \* localStorage flags of the hint and of the introduction
          counter      \* messages after which the quota was read, and is being read

readingVars == <<arrived, mounted, immersion, reserved, toTranslate, tried, lines,
                 selects, tooltip, body, mark, words, once, counter>>

Msgs == 1..MaxMsgs
Mounts == 1..MaxMounts
Selects == 1..MaxSelects
Flags == {"unseen", "shown", "seen"}
Once == {"hint", "intro"}

ReadingTypeOK ==
    /\ arrived \in 0..MaxMsgs /\ mounted \in Mounts /\ immersion \in BOOLEAN
    /\ reserved \subseteq Msgs /\ lines \subseteq reserved
    /\ {toTranslate, tried} \subseteq [Mounts -> [Msgs -> Nat]]
    /\ selects \in 0..MaxSelects /\ tooltip \in 0..selects
    /\ body \in [state : {"loading", "ok", "err"}, of : 0..selects]
    /\ mark \in {"idle", "saving", "saved", "error"}
    /\ words \in [Selects -> [inst : 0..MaxSelects, asked : BOOLEAN, saving : Nat,
                              saved : BOOLEAN, kept : 0..MaxSelects]]
    /\ once \in [Once -> Flags]
    /\ counter \in [read : 0..MaxMsgs, asked : 0..MaxMsgs]

Loading == [state |-> "loading", of |-> 0]
NoWord == [inst |-> 0, asked |-> FALSE, saving |-> 0, saved |-> FALSE, kept |-> 0]

ReadingInit ==
    /\ arrived = 0 /\ mounted = 1 /\ immersion \in BOOLEAN
    /\ reserved = {} /\ lines = {} /\ tried = [i \in Mounts |-> [n \in Msgs |-> 0]]
    /\ toTranslate = [i \in Mounts |-> [n \in Msgs |-> 0]]
    /\ selects = 0 /\ tooltip = 0 /\ body = Loading /\ mark = "idle"
    /\ words = [w \in Selects |-> NoWord]
    /\ once \in [Once -> {"unseen", "seen"}]
    /\ counter = [read |-> 0, asked |-> 0]

Immersion == <<mounted, immersion, reserved, toTranslate, tried, lines>>
Tooltip   == <<selects, tooltip, body, mark, words>>

-----------------------------------------------------------------------------
(* lib/autoTranslate.ts *)

\* Mutant: a message is reserved by its translation, not by its request.
FreshUntilShown(n) == {i \in 1..n : i \notin lines}

Fresh(n) == {i \in 1..n : i \notin reserved}

\* The effect of a render: every message that is not reserved is queued.  A message
\* comes after those that are queued already, so the first of a queue is the least.
Enqueue(n, on) ==
    IF ~on THEN UNCHANGED <<reserved, toTranslate>>
    ELSE /\ reserved' = reserved \cup Fresh(n)
         /\ toTranslate' = [toTranslate EXCEPT ![mounted] =
                [i \in Msgs |-> IF i \in Fresh(n) THEN @[i] + 1 ELSE @[i]]]

\* A message: immersion, the hint on the first one, and the counter's new request,
\* which makes the one under way count for nothing.
MessageArrives ==
    /\ arrived < MaxMsgs /\ arrived' = arrived + 1
    /\ Enqueue(arrived + 1, immersion)
    /\ once' = [f \in Once |-> IF once[f] = "unseen" THEN "shown" ELSE once[f]]
    /\ counter' = [counter EXCEPT !.asked = arrived + 1]
    /\ UNCHANGED <<mounted, immersion, tried, lines, Tooltip>>

ToggleImmersion ==
    /\ immersion' = ~immersion /\ Enqueue(arrived, ~immersion)
    /\ UNCHANGED <<arrived, mounted, tried, lines, once, counter, Tooltip>>

\* The first message of an instance's queue is translated: a line, nothing new, or
\* a failure that is not tried again.
Translate(i, n, useful) ==
    /\ toTranslate[i][n] > 0 /\ \A m \in Msgs : m < n => toTranslate[i][m] = 0
    /\ toTranslate' = [toTranslate EXCEPT ![i][n] = @ - 1]
    /\ tried' = [tried EXCEPT ![i][n] = @ + 1]
    /\ lines' = IF useful /\ i = mounted THEN lines \cup {n} ELSE lines
    /\ UNCHANGED <<arrived, mounted, immersion, reserved, once, counter, Tooltip>>

\* Another tab and back.
Remount ==
    /\ mounted < MaxMounts /\ mounted' = mounted + 1
    /\ lines' = {} /\ tooltip' = 0
    /\ reserved' = IF immersion THEN 1..arrived ELSE {}
    /\ toTranslate' = [toTranslate EXCEPT ![mounted + 1] =
                   [i \in Msgs |-> IF immersion /\ i <= arrived THEN 1 ELSE 0]]
    /\ UNCHANGED <<arrived, immersion, tried, selects, body, mark, words, once, counter>>

-----------------------------------------------------------------------------
(* chat/TranslationPopover.tsx *)

\* A press anywhere else, or Escape, closes the tooltip.
CloseTooltip ==
    /\ tooltip # 0 /\ tooltip' = 0
    /\ UNCHANGED <<arrived, once, counter, selects, body, mark, words, Immersion>>

\* A press that selects has closed the tooltip before; the keyboard, whose button
\* translates a whole message, replaces the request of the instance that is open.
SelectWord ==
    /\ arrived > 0 /\ selects < MaxSelects
    /\ selects' = selects + 1 /\ tooltip' = selects + 1 /\ body' = Loading /\ mark' = "idle"
    /\ words' = [words EXCEPT ![selects + 1] =
           [NoWord EXCEPT !.asked = TRUE,
                          !.inst = IF tooltip = 0 THEN selects + 1 ELSE words[tooltip].inst]]
    /\ once' = [once EXCEPT !["hint"] = IF @ = "shown" THEN "seen" ELSE @]
    /\ UNCHANGED <<arrived, counter, Immersion>>

\* An answer counts as long as the tooltip shows its selection.
WordAnswered(w, result) ==
    /\ words[w].asked /\ words' = [words EXCEPT ![w].asked = FALSE]
    /\ body' = IF tooltip = w THEN [state |-> result, of |-> w] ELSE body
    /\ UNCHANGED <<arrived, once, counter, selects, tooltip, mark, Immersion>>

\* The couple that leaves is the request's text and the translation that is shown.
SaveSelection ==
    /\ tooltip # 0 /\ body.state = "ok" /\ mark \notin {"saving", "saved"} /\ mark' = "saving"
    /\ words' = [words EXCEPT ![tooltip].saving = @ + 1, ![tooltip].kept = body.of]
    /\ UNCHANGED <<arrived, once, counter, selects, tooltip, body, Immersion>>

\* Mutant: the answer marks whichever tooltip is open.
MarkedOpen(w) == tooltip # 0

\* handleSave() marks the instance it was called in, whatever this one shows by now; an
\* instance that is gone has nothing to mark.
Marked(w) == tooltip # 0 /\ words[tooltip].inst = words[w].inst

SaveAnswered(w, ok) ==
    /\ words[w].saving > 0
    /\ words' = [words EXCEPT ![w].saving = @ - 1, ![w].saved = @ \/ ok]
    /\ mark' = IF ~Marked(w) THEN mark ELSE IF ok THEN "saved" ELSE "error"
    /\ UNCHANGED <<arrived, once, counter, selects, tooltip, body, Immersion>>

-----------------------------------------------------------------------------
(* Hints and the counter *)

\* Dismissed, or its time is over.
HintOver ==
    /\ once["hint"] = "shown" /\ once' = [once EXCEPT !["hint"] = "seen"]
    /\ UNCHANGED <<arrived, counter, Immersion, Tooltip>>

IntroOver ==
    /\ once["intro"] = "shown" /\ once' = [once EXCEPT !["intro"] = "seen"]
    /\ UNCHANGED <<arrived, counter, Immersion, Tooltip>>

QuotaRead ==
    /\ counter.asked > counter.read
    /\ counter' = [counter EXCEPT !.read = counter.asked]
    /\ UNCHANGED <<arrived, once, Immersion, Tooltip>>

ReadingNext ==
    \/ MessageArrives \/ ToggleImmersion \/ Remount \/ CloseTooltip \/ SelectWord \/ SaveSelection
    \/ HintOver \/ IntroOver \/ QuotaRead
    \/ \E b \in BOOLEAN : \/ \E i \in Mounts, n \in Msgs : Translate(i, n, b)
                          \/ \E w \in Selects : SaveAnswered(w, b)
    \/ \E w \in Selects, result \in {"ok", "err"} : WordAnswered(w, result)

ReadingSpec == ReadingInit /\ [][ReadingNext]_readingVars

-----------------------------------------------------------------------------
\* autoTranslate.ts:30-31: one instance of the list asks at most once for a message,
\* however often immersion is switched while translations are under way.
TranslatedOnce == \A i \in Mounts, n \in Msgs : tried[i][n] <= 1

\* A word is kept in the notebook with its own translation, and the tooltip says "saved"
\* only when the word it shows is kept, although translations and saves come back after
\* other words were selected; or when the save of another word answers in the same
\* instance, which that word was replaced in: handleSave() does not look at the request.
SavedIsThisWord ==
    /\ \A w \in Selects : words[w].kept \in {0, w}
    /\ tooltip # 0 /\ mark = "saved" =>
         \E w \in Selects : words[w].saved /\ words[w].inst = words[tooltip].inst
=============================================================================
