-------------------------------- MODULE Lesson --------------------------------
(***************************************************************************)
(* A lesson played from its first exercise to the answer of the server:    *)
(* components/learn/LessonPlayer.tsx, ScriptLessonPlayer.tsx,              *)
(* DailyLessonPlayer.tsx, PracticePlayer.tsx and ScriptDiagnostic.tsx,     *)
(* with the exercises they share, over backend/internal/learn/store.go.    *)
(*                                                                         *)
(* An exercise keeps of its texts whether what was picked is the answer.   *)
(* The network may lose the request or only the answer of the server.  The *)
(* page reads the hearts again when a lesson is over; the answer may come  *)
(* while the next one is played, and counts there.                         *)
(***************************************************************************)
EXTENDS Naturals, Sequences, FiniteSets, SequencesExt

CONSTANTS Playlist,  \* the lessons on offer: a kind, and the classes of its items
          MaxHearts, \* hearts of the learner
          MinPoints, \* points that make a tracing
          MaxMiss,   \* bound: wrong pairs of one exercise
          MaxFaults, \* bound: requests that fail
          MaxPlays,  \* bound: lessons played
          MaxReads   \* bound: readings of the hearts under way

LessonKinds == {"vocab", "script", "daily", "practice", "diagnostic"}
Items == {"word", "phrase", "jamo", "letter", "sign", "fault"}

ASSUME LessonAssumption ==
    /\ Playlist \subseteq LessonKinds \X Seq(Items)
    /\ \A l \in Playlist : l[2] # <<>>
    /\ MaxHearts \in Nat \ {0} /\ MinPoints \in Nat \ {0}
    /\ {MaxMiss, MaxFaults, MaxPlays, MaxReads} \subseteq Nat

VARIABLES lesson,      \* the one on the screen
          at,          \* its phase, the exercise it is at, the mistakes counted so far
          ex,          \* the exercise on the screen
          heartsShown, \* hearts the page last read, a live property of the player
          reads,       \* readings of the hearts under way
          word,        \* the button that saves a word: idle, saving, saved, error
          posts,       \* completions on their way: kind of lesson, mistakes, failed
          learner,     \* the server: hearts, lessons done, review items, awards
          faults, plays

lessonVars == <<lesson, at, ex, heartsShown, reads, word, posts, learner, faults, plays>>

Blank == [sel |-> "none", checked |-> FALSE, left |-> 0, right |-> 0, matched |-> {},
          timers |-> 0, miss |-> 0, points |-> 0]
Phases == {"path", "intro", "play", "submit", "error", "result", "claim", "verdict", "hearts"}
Post == [kind : LessonKinds, mistakes : Nat, failed : BOOLEAN]
Read == [hearts : 0..MaxHearts, served : BOOLEAN]
Pairs == 1..2

LessonTypeOK ==
    /\ lesson \in Playlist
    /\ at \in [phase : Phases, idx : Nat, mistakes : Nat, failed : BOOLEAN]
    /\ ex \in [sel : {"none", "right", "wrong"}, checked : BOOLEAN, left : 0..2, right : 0..2,
               matched : SUBSET Pairs, timers : 0..MaxMiss, miss : 0..MaxMiss,
               points : 0..MinPoints]
    /\ heartsShown \in 0..MaxHearts /\ word \in {"idle", "saving", "saved", "error"}
    /\ posts \in Seq(Post) /\ reads \in Seq(Read) /\ Len(reads) <= MaxReads
    /\ learner \in [hearts : 0..MaxHearts, premium : BOOLEAN, done : BOOLEAN,
                    review : BOOLEAN, full : Nat, daily : Nat]
    /\ faults \in 0..MaxFaults /\ plays \in 0..MaxPlays

-----------------------------------------------------------------------------
(* The exercises of a lesson (lib/learnExercises.ts, lib/scriptExercises.ts) *)

\* The classes the counterpart of an item asks for: every other phrase is assembled.
VocabExercise(items, i) == IF items[i] = "phrase" /\ i % 2 = 0 THEN "build" ELSE "choose"

\* Three items are enough to end on pairs.
Closing(items) == IF Len(items) >= 3 THEN <<"match">> ELSE <<>>

BuildExercises(items) == [i \in DOMAIN items |-> VocabExercise(items, i)] \o Closing(items)

\* A block is composed, a letter asked by its position, the rest alternates; the first two
\* lone signs are traced as well.
ScriptExercise(items, i) ==
    LET singles == {j \in DOMAIN items : items[j] # "word"}
    IN <<IF items[i] = "jamo" THEN "build" ELSE "choose">>
       \o IF i \in singles /\ Cardinality({j \in singles : j < i}) < 2 THEN <<"trace">> ELSE <<>>

BuildScriptExercises(items) ==
    LET upTo[n \in 0..Len(items)] ==
          IF n = 0 THEN <<>> ELSE upTo[n - 1] \o ScriptExercise(items, n)
    IN upTo[Len(items)] \o Closing(items)

\* The daily lesson and the diagnostic ask each item once.
Exercises ==
    CASE lesson[1] \in {"vocab", "practice"} -> BuildExercises(lesson[2])
      [] lesson[1] = "script" -> BuildScriptExercises(lesson[2])
      [] OTHER -> [i \in DOMAIN lesson[2] |-> "quiz"]

Total == Len(Exercises)
CurrentExercise == Exercises[at.idx]
Scored == lesson[1] \in {"vocab", "script"}
Playing == at.phase = "play"

-----------------------------------------------------------------------------
(* An exercise *)

Turn(e) ==
    /\ ex' = e
    /\ UNCHANGED <<lesson, at, heartsShown, word, posts, learner, reads, faults, plays>>

\* An option, or the tiles laid in a row; they can be changed until they are checked.
Select(s) ==
    /\ Playing /\ CurrentExercise \in {"choose", "build"} /\ ~ex.checked
    /\ s = "none" => CurrentExercise = "build"
    /\ s # ex.sel /\ Turn([ex EXCEPT !.sel = s])

Check ==
    /\ Playing /\ CurrentExercise \in {"choose", "build"} /\ ~ex.checked /\ ex.sel # "none"
    /\ Turn([ex EXCEPT !.checked = TRUE])

\* The answer of the daily lesson and of the diagnostic is final at once.
PickOption(s) ==
    /\ Playing /\ CurrentExercise = "quiz" /\ ex.sel = "none"
    /\ Turn([ex EXCEPT !.sel = s, !.checked = TRUE])

\* A side of a pair: with one chosen on the other side the two are compared, even while a
\* wrong pair is still on the screen.
Tap(l, r) ==
    /\ Playing /\ CurrentExercise = "match"
    /\ l \notin ex.matched /\ r \notin ex.matched
    /\ LET e == [ex EXCEPT !.left = l, !.right = r]
       IN Turn(IF l = 0 \/ r = 0 THEN e
               ELSE IF l = r THEN [e EXCEPT !.matched = @ \cup {l}, !.left = 0, !.right = 0]
               ELSE [e EXCEPT !.miss = @ + 1, !.timers = @ + 1])

TapLeft(l) == l # ex.left /\ (ex.miss < MaxMiss \/ ex.right \in {0, l}) /\ Tap(l, ex.right)
TapRight(r) == r # ex.right /\ (ex.miss < MaxMiss \/ ex.left \in {0, r}) /\ Tap(ex.left, r)

\* Half a second after a wrong pair, whatever is chosen by then.
WrongOver ==
    /\ Playing /\ ex.timers > 0
    /\ Turn([ex EXCEPT !.timers = @ - 1, !.left = 0, !.right = 0])

Trace ==
    /\ Playing /\ CurrentExercise = "trace" /\ ex.points < MinPoints
    /\ Turn([ex EXCEPT !.points = @ + 1])

Clear == Playing /\ CurrentExercise = "trace" /\ ex.points > 0 /\ Turn([ex EXCEPT !.points = 0])

ExerciseOver ==
    CASE CurrentExercise \in {"choose", "build", "quiz"} -> ex.checked
      [] CurrentExercise = "match" -> ex.matched = Pairs
      [] OTHER -> ex.points >= MinPoints

\* Tracing costs nothing, pairs cost each wrong one.
ExerciseMistakes ==
    CASE CurrentExercise \in {"choose", "build", "quiz"} -> IF ex.sel = "right" THEN 0 ELSE 1
      [] CurrentExercise = "match" -> ex.miss
      [] OTHER -> 0

-----------------------------------------------------------------------------
(* The players *)

Finish(mistakes, failed) ==
    /\ at' = [at EXCEPT !.phase = "submit", !.mistakes = mistakes, !.failed = failed]
    /\ posts' = Append(posts, [kind |-> lesson[1], mistakes |-> mistakes, failed |-> failed])

OutOfHearts(mistakes) == Scored /\ ~learner.premium /\ mistakes >= heartsShown

\* The bar with the button "continue" mounts anew with the next exercise.
HandleExerciseDone ==
    /\ Playing /\ ExerciseOver
    /\ LET mistakes == at.mistakes + ExerciseMistakes
       IN IF OutOfHearts(mistakes) THEN Finish(mistakes, TRUE)
          ELSE IF at.idx < Total
          THEN /\ at' = [at EXCEPT !.idx = @ + 1, !.mistakes = mistakes]
               /\ UNCHANGED posts
          ELSE IF Scored THEN Finish(mistakes, FALSE)
          ELSE /\ at' = [at EXCEPT !.mistakes = mistakes,
                                   !.phase = CASE lesson[1] = "daily" -> "claim"
                                               [] lesson[1] = "practice" -> "result"
                                               [] OTHER -> "verdict"]
               /\ UNCHANGED posts
    /\ ex' = Blank /\ word' = "idle"
    /\ UNCHANGED <<lesson, heartsShown, learner, reads, faults, plays>>

\* Eighty per cent of right answers; the module of signs may be skipped anyway.
Passed == 5 * (Total - at.mistakes) >= 4 * Total

\* The diagnostic is offered at the head of a course, a lesson with a heart at least.
Open(l) ==
    /\ at.phase = "path" /\ plays < MaxPlays
    /\ l[1] \in {"vocab", "script"} => learner.premium \/ heartsShown > 0
    /\ l[1] = "daily" => learner.review
    /\ lesson' = l /\ ex' = Blank /\ word' = "idle" /\ plays' = plays + 1
    /\ at' = [phase |-> IF l[1] = "script" THEN "intro" ELSE "play", idx |-> 1,
              mistakes |-> 0, failed |-> FALSE]
    /\ UNCHANGED <<heartsShown, posts, learner, reads, faults>>

StartScript ==
    /\ at.phase = "intro" /\ at' = [at EXCEPT !.phase = "play"]
    /\ UNCHANGED <<lesson, ex, heartsShown, word, posts, learner, reads, faults, plays>>

\* refreshState and refreshCourse.  A reading that fails is dropped, and so is one beyond
\* the bound.
Refreshes ==
    \/ UNCHANGED reads
    \/ /\ Len(reads) < MaxReads
       /\ reads' = Append(reads, [hearts |-> 0, served |-> FALSE])

\* A scored lesson can be left while its answer is awaited, the end of the daily one cannot.
\* The hearts are read again after a result, and after a request made to a friend.
Leave ==
    /\ at.phase # "path" /\ ~(lesson[1] = "daily" /\ at.phase \in {"claim", "submit"})
    /\ at' = [at EXCEPT !.phase = "path"]
    /\ IF at.phase = "hearts" \/ (at.phase = "result" /\ lesson[1] # "practice")
       THEN Refreshes ELSE UNCHANGED reads
    /\ UNCHANGED <<lesson, ex, heartsShown, word, posts, learner, faults, plays>>

Claim ==
    /\ at.phase = "claim" /\ Finish(at.mistakes, FALSE)
    /\ UNCHANGED <<lesson, ex, heartsShown, word, learner, reads, faults, plays>>

Retry ==
    /\ at.phase = "error" /\ Finish(at.mistakes, at.failed)
    /\ UNCHANGED <<lesson, ex, heartsShown, word, learner, reads, faults, plays>>

SaveWord ==
    /\ at.phase = "result" \/ (Playing /\ CurrentExercise \in {"choose", "build"} /\ ex.checked)
    /\ word \in {"idle", "error"} /\ word' = "saving"
    /\ UNCHANGED <<lesson, at, ex, heartsShown, posts, learner, reads, faults, plays>>

WordSaved(ok) ==
    /\ word = "saving" /\ word' = IF ok THEN "saved" ELSE "error"
    /\ UNCHANGED <<lesson, at, ex, heartsShown, posts, learner, reads, faults, plays>>

-----------------------------------------------------------------------------
(* The server *)

Less(hearts, n) == IF learner.premium THEN hearts ELSE IF n > hearts THEN 0 ELSE hearts - n

\* Mutant: a lesson is paid as new each time.
CompleteAnew(p) ==
    [learner EXCEPT !.hearts = Less(@, p.mistakes),
                    !.done = @ \/ ~p.failed \/ learner.premium,
                    !.full = IF p.failed /\ ~learner.premium THEN @ ELSE @ + 1]

\* A failed lesson costs its hearts and gives nothing; one that was done before gives the
\* points of a review only.
CompleteLesson(p) ==
    [learner EXCEPT !.hearts = Less(@, p.mistakes),
                    !.done = @ \/ ~p.failed \/ learner.premium,
                    !.full = IF (p.failed /\ ~learner.premium) \/ learner.done THEN @ ELSE @ + 1]

\* The items are consumed once.
CompleteDailyReview ==
    IF learner.review THEN [learner EXCEPT !.review = FALSE, !.daily = @ + 1] ELSE learner

Completion(p) == IF p.kind = "daily" THEN CompleteDailyReview ELSE CompleteLesson(p)
Taken(p) == p.kind # "daily" \/ learner.review

\* The request the player waits for is the last one that left.
Awaited(i) == at.phase = "submit" /\ i = Len(posts)

\* The answer of a failed lesson that was left closes the one that was opened since.
PhaseAfter(i, p) ==
    IF ~Awaited(i) THEN IF p.failed THEN "hearts" ELSE at.phase
    ELSE IF p.failed THEN "hearts" ELSE IF Taken(p) THEN "result" ELSE "path"

CompletionAnswered(i) ==
    /\ posts' = RemoveAt(posts, i) /\ learner' = Completion(posts[i])
    /\ at' = [at EXCEPT !.phase = PhaseAfter(i, posts[i])]
    /\ IF posts[i].failed THEN Refreshes ELSE UNCHANGED reads
    /\ UNCHANGED <<lesson, ex, heartsShown, word, faults, plays>>

\* The request never arrives, or it was served and its answer is lost: the player offers
\* to try again, the daily lesson closes.
CompletionFails(i, served) ==
    /\ posts' = RemoveAt(posts, i) /\ faults < MaxFaults /\ faults' = faults + 1
    /\ learner' = IF served THEN Completion(posts[i]) ELSE learner
    /\ at' = IF Awaited(i)
             THEN [at EXCEPT !.phase = IF posts[i].kind = "daily" THEN "path" ELSE "error"]
             ELSE at
    /\ UNCHANGED <<lesson, ex, heartsShown, reads, word, plays>>

\* A heart grows back, or a friend gives one.
HeartReturns ==
    /\ learner.hearts < MaxHearts /\ learner' = [learner EXCEPT !.hearts = @ + 1]
    /\ UNCHANGED <<lesson, at, ex, heartsShown, word, posts, reads, faults, plays>>

\* From the path the course is left for the list, or a friend's request is answered.
RefreshState ==
    /\ at.phase = "path" /\ Refreshes
    /\ UNCHANGED <<lesson, at, ex, heartsShown, word, posts, learner, faults, plays>>

ReadServed(k) ==
    /\ ~reads[k].served
    /\ reads' = [reads EXCEPT ![k] = [hearts |-> learner.hearts, served |-> TRUE]]
    /\ UNCHANGED <<lesson, at, ex, heartsShown, word, posts, learner, faults, plays>>

\* Whichever was asked for last, and whatever is played by then.
ReadAnswered(k) ==
    /\ reads[k].served /\ heartsShown' = reads[k].hearts /\ reads' = RemoveAt(reads, k)
    /\ UNCHANGED <<lesson, at, ex, word, posts, learner, faults, plays>>

LessonInit ==
    /\ lesson \in Playlist
    /\ at = [phase |-> "path", idx |-> 1, mistakes |-> 0, failed |-> FALSE]
    /\ ex = Blank /\ word = "idle" /\ posts = <<>> /\ reads = <<>> /\ faults = 0 /\ plays = 0
    /\ heartsShown = MaxHearts
    /\ \E premium \in BOOLEAN :
         learner = [hearts |-> MaxHearts, premium |-> premium, done |-> FALSE, review |-> TRUE,
                    full |-> 0, daily |-> 0]

LessonNext ==
    \/ Check \/ WrongOver \/ Trace \/ Clear \/ HandleExerciseDone \/ StartScript \/ Leave
    \/ Claim \/ Retry \/ SaveWord \/ HeartReturns \/ RefreshState
    \/ \E s \in {"none", "right", "wrong"} : Select(s) \/ (s # "none" /\ PickOption(s))
    \/ \E p \in Pairs : TapLeft(p) \/ TapRight(p)
    \/ \E l \in Playlist : Open(l)
    \/ \E b \in BOOLEAN : WordSaved(b)
    \/ \E i \in DOMAIN posts : CompletionAnswered(i) \/ \E b \in BOOLEAN : CompletionFails(i, b)
    \/ \E k \in DOMAIN reads : ReadServed(k) \/ ReadAnswered(k)

LessonSpec == LessonInit /\ [][LessonNext]_lessonVars

-----------------------------------------------------------------------------
\* learn/store.go:735-753 and daily.go:25-45: however often a completion is sent again
\* because its answer was lost, the full points of a lesson and those of the daily one
\* are given once.
PaidOnce == learner.full <= 1 /\ learner.daily <= 1
=============================================================================
