-------------------------------- MODULE Vocab --------------------------------
(***************************************************************************)
(* The notebook: app/vocab/page.tsx with the deck of                       *)
(* vocab/ReviewPlayer.tsx, and behind it the entries of internal/vocab     *)
(* with their SM-2 schedule (srs.go, srs_store.go), which the              *)
(* conversations of the AI teacher review as well.                         *)
(*                                                                         *)
(* An ease is in hundredths and an interval in thousandths of a day; time  *)
(* passes when an entry is due again.  Saving a word is in Reading.        *)
(***************************************************************************)
EXTENDS Integers, Sequences, FiniteSets, SequencesExt

CONSTANTS Words,
          Batch,        \* reviewBatchSize, 20 in the code
          MaxGrades,    \* bound: grades given
          MaxVocabCalls \* bound: requests under way

ASSUME VocabAssumption ==
    /\ IsFiniteSet(Words)
    /\ Batch \in Nat /\ MaxGrades \in Nat /\ MaxVocabCalls \in Nat \ {0, 1}

VARIABLES cards,     \* the rows of vocab_entries
          seen,      \* the word a conversation has found due, not graded yet
          given,     \* grades given so far
          list,      \* the notebook as the page shows it
          loading,
          stack,     \* due: entries and total
          deck,      \* the review player
          vocabCalls \* requests under way

vocabVars == <<cards, seen, given, list, loading, stack, deck, vocabCalls>>
Page == <<list, loading, stack, deck, vocabCalls>>

Grades == {"again", "hard", "good", "easy"}
Call == [kind : {"list", "due", "delete", "grade"}, of : SUBSET Words, prev : SUBSET Words,
         grade : Grades, state : {"sent", "done", "failed"}, heard : BOOLEAN,
         entries : Seq(Words), total : Nat]

VocabTypeOK ==
    /\ cards \in [Words -> [kept : BOOLEAN, ease : 130..350, interval : Nat, reps : Nat,
                            lapses : Nat, due : BOOLEAN]]
    /\ seen \subseteq Words /\ given \in 0..MaxGrades
    /\ list \subseteq Words /\ loading \in BOOLEAN
    /\ stack \in [entries : Seq(Words), total : Nat]
    /\ deck \in [open : BOOLEAN, idx : Nat, revealed : BOOLEAN, grading : BOOLEAN]
    /\ vocabCalls \in Seq(Call) /\ Len(vocabCalls) <= MaxVocabCalls

NewCall(kind, of, grade) ==
    [kind |-> kind, of |-> of, prev |-> {}, grade |-> grade, state |-> "sent",
     heard |-> TRUE, entries |-> <<>>, total |-> 0]
Room == Len(vocabCalls) < MaxVocabCalls
SendCall(c) == Room /\ vocabCalls' = Append(vocabCalls, c)

NoDeck == [open |-> FALSE, idx |-> 0, revealed |-> FALSE, grading |-> FALSE]

VocabInit ==
    /\ cards = [w \in Words |-> [kept |-> TRUE, ease |-> 250, interval |-> 0, reps |-> 0,
                                 lapses |-> 0, due |-> TRUE]]
    /\ seen = {} /\ given = 0 /\ list = {} /\ loading = TRUE
    /\ stack = [entries |-> <<>>, total |-> 0] /\ deck = NoDeck
    /\ vocabCalls = <<NewCall("list", {}, "good"), NewCall("due", {}, "good")>>

-----------------------------------------------------------------------------
(* srs.go *)

Clamp(ease) == IF ease < 130 THEN 130 ELSE IF ease > 350 THEN 350 ELSE ease

Lapsed(c) == [c EXCEPT !.lapses = @ + 1, !.reps = 0, !.interval = 0, !.ease = Clamp(@ - 20)]

\* Mutant: a hard recall starts the interval over.
HardAnew(c) == [c EXCEPT !.reps = @ + 1, !.ease = Clamp(@ - 15), !.interval = 1000]

Hard(c) ==
    [c EXCEPT !.reps = @ + 1, !.ease = Clamp(@ - 15),
              !.interval = IF @ < 1000 THEN 1000 ELSE (@ * 6) \div 5]

Good(c) ==
    [c EXCEPT !.reps = @ + 1,
              !.interval = CASE c.reps = 0 -> 1000
                             [] c.reps = 1 -> 6000
                             [] OTHER      -> (@ * c.ease) \div 100]

Easy(c) ==
    LET ease == Clamp(c.ease + 15)
    IN [c EXCEPT !.reps = @ + 1, !.ease = ease,
                 !.interval = CASE c.reps = 0 -> 4000
                                [] c.reps > 0 /\ @ < 6000 -> 6000
                                [] OTHER -> (@ * ease * 13) \div 1000]

NextReview(c, grade) ==
    LET next == CASE grade = "again" -> Lapsed(c)
                  [] grade = "hard"  -> Hard(c)
                  [] grade = "good"  -> Good(c)
                  [] grade = "easy"  -> Easy(c)
    IN [next EXCEPT !.due = FALSE]

-----------------------------------------------------------------------------
(* srs_store.go and store.go *)

\* ApplyReview, one transaction that locks the row.
ApplyReview(w, grade) ==
    /\ given < MaxGrades /\ given' = given + 1
    /\ cards' = [cards EXCEPT ![w] = NextReview(@, grade)]

DueNow == {w \in Words : cards[w].kept /\ cards[w].due}

\* ReviewTermsInContext, one word after the other: found due, then graded.
FoundInContext(w) ==
    /\ seen = {} /\ w \in DueNow /\ seen' = {w}
    /\ UNCHANGED <<cards, given, Page>>

ReviewInContext(w) ==
    /\ w \in seen /\ seen' = {}
    /\ IF cards[w].kept THEN ApplyReview(w, "good") ELSE UNCHANGED <<cards, given>>
    /\ UNCHANGED <<Page>>

\* The interval of an entry passes.
FallsDue(w) ==
    /\ cards[w].kept /\ ~cards[w].due
    /\ cards' = [cards EXCEPT ![w].due = TRUE]
    /\ UNCHANGED <<seen, given, Page>>

ServeCall(k) ==
    LET c == vocabCalls[k]
        Done(d) == vocabCalls' = [vocabCalls EXCEPT ![k] = d]
        done == [c EXCEPT !.state = "done"]
    IN /\ k \in DOMAIN vocabCalls /\ c.state = "sent"
       /\ \/ /\ c.kind = "list"
             /\ Done([done EXCEPT !.of = {w \in Words : cards[w].kept}])
             /\ UNCHANGED <<cards, given>>
          \/ /\ c.kind = "due"
             /\ \E order \in SetToSeqs(DueNow) :
                  Done([done EXCEPT !.total = Len(order),
                          !.entries = SubSeq(order, 1, IF Len(order) < Batch THEN Len(order)
                                                       ELSE Batch)])
             /\ UNCHANGED <<cards, given>>
          \/ /\ c.kind = "delete" /\ Done(done)
             /\ cards' = [w \in Words |-> IF w \in c.of THEN [cards[w] EXCEPT !.kept = FALSE]
                                                        ELSE cards[w]]
             /\ UNCHANGED given
          \/ /\ c.kind = "grade"
             /\ \E w \in c.of :
                  IF cards[w].kept THEN ApplyReview(w, c.grade) /\ Done(done)
                  ELSE /\ Done([c EXCEPT !.state = "failed"]) /\ UNCHANGED <<cards, given>>
       /\ UNCHANGED <<seen, list, loading, stack, deck>>

\* A request that never arrives, or an answer that does not come back.
LoseCall(k) ==
    /\ k \in DOMAIN vocabCalls /\ vocabCalls[k].state # "failed"
    /\ vocabCalls' = [vocabCalls EXCEPT ![k].state = "failed"]
    /\ UNCHANGED <<cards, seen, given, list, loading, stack, deck>>

-----------------------------------------------------------------------------
(* page.tsx *)

\* A deletion carries the list as it was before it, to put it back.
Delete(w) ==
    /\ ~loading /\ w \in list /\ list' = list \ {w}
    /\ SendCall([NewCall("delete", {w}, "good") EXCEPT !.prev = list])
    /\ UNCHANGED <<cards, seen, given, loading, stack, deck>>

StartReview ==
    /\ ~loading /\ stack.total > 0 /\ ~deck.open
    /\ deck' = [NoDeck EXCEPT !.open = TRUE]
    /\ UNCHANGED <<cards, seen, given, list, loading, stack, vocabCalls>>

-----------------------------------------------------------------------------
(* ReviewPlayer.tsx *)

Current == IF deck.open /\ deck.idx < Len(stack.entries) THEN {stack.entries[deck.idx + 1]}
           ELSE {}

Reveal ==
    /\ Current # {} /\ ~deck.revealed /\ deck' = [deck EXCEPT !.revealed = TRUE]
    /\ UNCHANGED <<cards, seen, given, list, loading, stack, vocabCalls>>

Grade(g) ==
    /\ Current # {} /\ deck.revealed /\ ~deck.grading
    /\ deck' = [deck EXCEPT !.grading = TRUE] /\ SendCall(NewCall("grade", Current, g))
    /\ UNCHANGED <<cards, seen, given, list, loading, stack>>

\* The next card, whether the grade was kept or not.
NextCard == [deck EXCEPT !.grading = FALSE, !.revealed = FALSE, !.idx = @ + 1]

\* Nobody listens to a grade under way any more; the cards due are asked for again.
CloseReview ==
    /\ deck.open /\ deck' = NoDeck /\ Room
    /\ vocabCalls' = Append([k \in DOMAIN vocabCalls |->
                          [vocabCalls[k] EXCEPT !.heard = vocabCalls[k].kind # "grade"]],
                       NewCall("due", {}, "good"))
    /\ UNCHANGED <<cards, seen, given, list, loading, stack>>

CallReturns(k) ==
    LET c == vocabCalls[k]
        ok == c.state = "done"
    IN /\ k \in DOMAIN vocabCalls /\ c.state # "sent" /\ vocabCalls' = RemoveAt(vocabCalls, k)
       /\ list' = CASE c.kind = "list" /\ ok    -> c.of
                    [] c.kind = "delete" /\ ~ok -> c.prev
                    [] OTHER                    -> list
       /\ loading' = (loading /\ c.kind # "list")
       /\ stack' = IF c.kind = "due" /\ ok THEN [entries |-> c.entries, total |-> c.total]
                   ELSE stack
       /\ deck' = IF c.kind = "grade" /\ c.heard THEN NextCard ELSE deck
       /\ UNCHANGED <<cards, seen, given>>

VocabNext ==
    \/ \E k \in 1..MaxVocabCalls : ServeCall(k) \/ LoseCall(k) \/ CallReturns(k)
    \/ \E w \in Words : FoundInContext(w) \/ ReviewInContext(w) \/ FallsDue(w) \/ Delete(w)
    \/ StartReview \/ Reveal \/ CloseReview
    \/ \E g \in Grades : Grade(g)

VocabSpec == VocabInit /\ [][VocabNext]_vocabVars

-----------------------------------------------------------------------------
\* Whoever grades a word, from whichever stale stack, and in whatever order: its interval
\* goes back by a lapse only, so that a word one remembers never comes sooner than last
\* time.
NeverShortens ==
    \A w \in Words :
        cards'[w].interval < cards[w].interval => cards'[w].lapses > cards[w].lapses
RecallNeverShortens == [][NeverShortens]_vocabVars
=============================================================================
