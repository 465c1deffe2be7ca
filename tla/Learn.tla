-------------------------------- MODULE Learn --------------------------------
(***************************************************************************)
(* The courses: the list, the path of one course and what opens over it    *)
(* (components/learn/LearnMode.tsx, CoursePath.tsx, LevelChooser.tsx,      *)
(* OutOfHearts.tsx, HeartRequestsBanner.tsx), over the progress the server *)
(* keeps (backend/internal/learn/store.go).                                *)
(*                                                                         *)
(* Navigation is a matter of state and no request is ever called off: an   *)
(* answer is written in the page as it is when it comes, be it for a       *)
(* course that was left.  A lesson is its rank in the course; the first    *)
(* ones teach the script.                                                  *)
(***************************************************************************)
EXTENDS Naturals, FiniteSets

CONSTANTS Courses,  \* the languages that can be learnt
          NoCourse,
          Lessons,  \* lessons of a course
          Script,   \* lessons of its module of signs
          MaxCalls, \* bound: requests under way
          MaxAsks   \* bound: hearts asked for or given

ASSUME LearnAssumption ==
    /\ NoCourse \notin Courses /\ Lessons \in Nat \ {0} /\ Script \in 0..Lessons
    /\ MaxCalls \in Nat /\ MaxAsks \in Nat

VARIABLES lang,       \* the course that was opened
          tree,       \* the path on the screen: its course, what is done, whether enrolled
          daily,      \* course of the daily lesson on offer
          active,     \* the lesson on the screen: its course and rank
          over,       \* what else is open over the page
          busy,       \* a lesson or a level is being asked for
          heartKnown, \* whether the state last read had a heart
          calls,      \* requests under way
          school,     \* lessons done and enrolment of each course, whether a heart is left
          hearts,     \* the screen without hearts, requests to friends, and the banner
          asks        \* hearts asked for, and those friends asked for before

learnVars == <<lang, tree, daily, active, over, busy, heartKnown, calls, school, hearts, asks>>

Opt == Courses \cup {NoCourse}
NoTree == [lang |-> NoCourse, done |-> {}, enrolled |-> FALSE]
Tree == [lang : Opt, done : SUBSET (1..Lessons), enrolled : BOOLEAN]
NoLesson == [lang |-> NoCourse, rank |-> 1]
Overlays == {"practice", "daily", "diagnostic", "hearts"}
LearnCall == [what : {"open", "refresh", "enroll", "skip", "lesson", "daily", "state"},
         lang : Opt, rank : 0..Lessons]

LearnTypeOK ==
    /\ lang \in Opt /\ tree \in Tree /\ daily \in Opt
    /\ active \in [lang : Opt, rank : 1..Lessons] /\ over \subseteq Overlays
    /\ busy \in BOOLEAN /\ heartKnown \in BOOLEAN
    /\ calls \subseteq LearnCall /\ Cardinality(calls) <= MaxCalls
    /\ school \in [done : [Courses -> SUBSET (1..Lessons)], enrolled : [Courses -> BOOLEAN],
                   heart : BOOLEAN]
    /\ hearts \in [screen : {"ask", "friends", "quota"}, asking : BOOLEAN,
                   gifts : 0..MaxAsks, giving : BOOLEAN]
    /\ asks \in 0..MaxAsks

-----------------------------------------------------------------------------
(* The path (CoursePath.tsx) over the locks of the server (store.go:232-243) *)

TreeOf(c) == [lang |-> c, done |-> school.done[c], enrolled |-> school.enrolled[c]]
\* Mutant: off by one, the second lesson is always open.
LockedFromThird(t, n) == n > 2 /\ n - 1 \notin t.done

Locked(t, n) == n > 1 /\ n - 1 \notin t.done

\* The bubbles that can be tapped; the button above the path takes the first one that is
\* not done.
Playable(t) == {n \in 1..Lessons : ~Locked(t, n)}
Continue(t) == LET open == Playable(t) \ t.done
               IN {n \in open : \A m \in open : n <= m}

DiagnosticShown == tree.enrolled /\ Script > 0 /\ tree.done = {}

\* The levels of LevelChooser.tsx, each a number of lessons that are taken as done.
StartUnits == {u \in {0, 1, 2, Lessons \div 2, (2 * Lessons) \div 3, Lessons - 1} :
                 u < Lessons}

-----------------------------------------------------------------------------
(* Requests *)

Ask(cs) == /\ Cardinality(calls \cup cs) <= MaxCalls /\ calls' = calls \cup cs
Want(what, c, n) == [what |-> what, lang |-> c, rank |-> n]

\* The list and the state are asked for when the tab opens.
LearnInit ==
    /\ lang = NoCourse /\ tree = NoTree /\ daily = NoCourse /\ active = NoLesson
    /\ over = {} /\ busy = FALSE /\ calls = {}
    /\ heartKnown \in BOOLEAN
    /\ school = [done |-> [c \in Courses |-> {}], enrolled |-> [c \in Courses |-> FALSE],
                 heart |-> heartKnown]
    /\ asks \in 0..MaxAsks
    /\ hearts = [screen |-> "ask", asking |-> FALSE, gifts |-> asks, giving |-> FALSE]

OpenCourse(c) ==
    /\ lang = NoCourse /\ over = {}
    /\ lang' = c /\ tree' = NoTree /\ daily' = NoCourse
    /\ Ask({Want("open", c, 0), Want("daily", c, 0)})
    /\ UNCHANGED <<active, over, busy, heartKnown, school, hearts, asks>>

PathShown == lang # NoCourse /\ tree # NoTree
OnPath == PathShown /\ over = {} /\ (active = NoLesson)

\* The button is drawn with the path only.
BackToList ==
    /\ OnPath /\ lang' = NoCourse /\ tree' = NoTree /\ daily' = NoCourse
    /\ Ask({Want("state", NoCourse, 0)})
    /\ UNCHANGED <<active, over, busy, heartKnown, school, hearts, asks>>

RefreshCourse == IF lang = NoCourse THEN UNCHANGED calls
                 ELSE Ask({Want("refresh", lang, 0), Want("daily", lang, 0)})

\* The level is recorded for the course that is open.
Choose(u) ==
    /\ OnPath /\ ~tree.enrolled /\ ~busy /\ busy' = TRUE
    /\ Ask({Want("enroll", lang, u)})
    /\ UNCHANGED <<lang, tree, daily, active, over, heartKnown, school, hearts, asks>>

StartLesson(n) ==
    /\ OnPath /\ tree.enrolled /\ ~busy /\ n \in Playable(tree) \cup Continue(tree)
    /\ IF ~heartKnown
       THEN over' = over \cup {"hearts"} /\ UNCHANGED <<busy, calls>>
       ELSE busy' = TRUE /\ Ask({Want("lesson", tree.lang, n)}) /\ UNCHANGED over
    /\ UNCHANGED <<lang, tree, daily, active, heartKnown, school, hearts, asks>>

OpenDiagnostic ==
    /\ OnPath /\ DiagnosticShown /\ over' = {"diagnostic"}
    /\ UNCHANGED <<lang, tree, daily, active, busy, heartKnown, calls, school, hearts, asks>>

\* Passed, or skipped anyway: the module of signs is taken as done.
SkipScript ==
    /\ "diagnostic" \in over /\ over' = over \ {"diagnostic"}
    /\ IF lang = NoCourse THEN UNCHANGED calls ELSE Ask({Want("skip", lang, Script)})
    /\ UNCHANGED <<lang, tree, daily, active, busy, heartKnown, school, hearts, asks>>

OpenOver(o) ==
    /\ OnPath /\ tree.enrolled
    /\ o = "practice" \/ (o = "daily" /\ daily # NoCourse)
    /\ over' = {o}
    /\ UNCHANGED <<lang, tree, daily, active, busy, heartKnown, calls, school, hearts, asks>>

\* The daily lesson goes with its card, played or not.
CloseOver(o, completed) ==
    /\ o \in over /\ over' = over \ {o}
    /\ daily' = IF o = "daily" THEN NoCourse ELSE daily
    /\ IF o = "daily" /\ completed THEN RefreshCourse ELSE UNCHANGED calls
    /\ UNCHANGED <<lang, tree, active, busy, heartKnown, school, hearts, asks>>

PlayerShown == active # NoLesson /\ lang # NoCourse

\* The end of a lesson: left, done, or out of hearts.
EndLesson(how) ==
    /\ PlayerShown /\ over = {} /\ active' = NoLesson
    /\ \E heart \in {b \in BOOLEAN : b => school.heart} :
         school' = CASE how = "left" -> school
                     [] how = "done" -> [school EXCEPT
                          !.done[active.lang] = @ \cup {active.rank}, !.heart = heart]
                     [] how = "hearts" -> [school EXCEPT !.heart = FALSE]
    /\ over' = IF how = "hearts" THEN {"hearts"} ELSE over
    /\ IF how = "left" THEN UNCHANGED calls ELSE RefreshCourse
    /\ UNCHANGED <<lang, tree, daily, busy, heartKnown, hearts, asks>>

-----------------------------------------------------------------------------
(* Answers *)

Placed(c, u) == [school EXCEPT !.done[c] = @ \cup 1..u, !.enrolled[c] = TRUE]

\* An answer is taken whatever is on the screen; one that fails leaves it as it is.
CallAnswered(q, ok) ==
    /\ calls' = calls \ {q}
    /\ school' = IF ok /\ q.what \in {"enroll", "skip"} THEN Placed(q.lang, q.rank) ELSE school
    /\ tree' = IF ok /\ q.what \in {"open", "refresh"} THEN TreeOf(q.lang)
               ELSE IF ok /\ q.what \in {"enroll", "skip"}
               THEN [lang |-> q.lang, done |-> school'.done[q.lang], enrolled |-> TRUE]
               ELSE tree
    /\ heartKnown' = IF ok /\ q.what \in {"open", "refresh", "state"} THEN school.heart ELSE heartKnown
    /\ active' = IF ok /\ q.what = "lesson" THEN [lang |-> q.lang, rank |-> q.rank] ELSE active
    /\ busy' = (busy /\ q.what \notin {"enroll", "lesson"})
    /\ daily' \in IF q.what # "daily" THEN {daily}
                  ELSE IF ok THEN {q.lang, NoCourse} ELSE {daily, NoCourse}
    /\ UNCHANGED <<lang, over, hearts, asks>>

-----------------------------------------------------------------------------
(* Hearts *)

OpenPicker ==
    /\ "hearts" \in over /\ hearts.screen = "ask"
    /\ hearts' = [hearts EXCEPT !.screen = "friends"]
    /\ UNCHANGED <<lang, tree, daily, active, over, busy, heartKnown, calls, school, asks>>

AskFriend ==
    /\ "hearts" \in over /\ hearts.screen = "friends" /\ ~hearts.asking /\ asks < MaxAsks
    /\ hearts' = [hearts EXCEPT !.asking = TRUE] /\ asks' = asks + 1
    /\ UNCHANGED <<lang, tree, daily, active, over, busy, heartKnown, calls, school>>

\* Sent, the screen closes at once; over the daily number, it says so.
AskAnswered(sent) ==
    /\ hearts.asking
    /\ hearts' = [hearts EXCEPT !.asking = FALSE, !.screen = IF sent THEN "ask" ELSE "quota"]
    /\ over' = IF sent THEN over \ {"hearts"} ELSE over
    /\ IF sent THEN RefreshCourse ELSE UNCHANGED calls
    /\ UNCHANGED <<lang, tree, daily, active, busy, heartKnown, school, asks>>

HeartBannerShown == hearts.gifts > 0

Give ==
    /\ HeartBannerShown /\ ~hearts.giving /\ over = {} /\ active = NoLesson
    /\ hearts' = [hearts EXCEPT !.giving = TRUE]
    /\ UNCHANGED <<lang, tree, daily, active, over, busy, heartKnown, calls, school, asks>>

Given(ok) ==
    /\ hearts.giving
    /\ hearts' = [hearts EXCEPT !.giving = FALSE, !.gifts = IF ok THEN @ - 1 ELSE @]
    /\ IF ok THEN Ask({Want("state", NoCourse, 0)}) ELSE UNCHANGED calls
    /\ UNCHANGED <<lang, tree, daily, active, over, busy, heartKnown, school, asks>>

\* A heart grows back on the server, or a friend gives one.
HeartBack ==
    /\ ~school.heart /\ school' = [school EXCEPT !.heart = TRUE]
    /\ UNCHANGED <<lang, tree, daily, active, over, busy, heartKnown, calls, hearts, asks>>

LearnNext ==
    \/ BackToList \/ OpenDiagnostic \/ SkipScript \/ OpenPicker \/ AskFriend \/ Give
    \/ HeartBack
    \/ \E c \in Courses : OpenCourse(c)
    \/ \E u \in StartUnits : Choose(u)
    \/ \E n \in 1..Lessons : StartLesson(n)
    \/ \E o \in Overlays : OpenOver(o) \/ \E b \in BOOLEAN : CloseOver(o, b)
    \/ \E how \in {"left", "done", "hearts"} : EndLesson(how)
    \/ \E b \in BOOLEAN : AskAnswered(b) \/ Given(b) \/ \E q \in calls : CallAnswered(q, b)

LearnSpec == LearnInit /\ [][LearnNext]_learnVars

-----------------------------------------------------------------------------
\* CoursePath.tsx:36-37, learn/store.go:232-243: whichever answers come late and whichever
\* course they are for, what is done of a course is always its beginning.
NoHoleInPath ==
    \A c \in Courses : \E n \in 0..Lessons : school.done[c] = 1..n
=============================================================================
