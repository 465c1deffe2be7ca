---------------------------- MODULE StreaksProofs ----------------------------
(***************************************************************************)
(* Theorems about Streaks, for any calendar, window, quota and set of      *)
(* milestones.  Each layer is inductive together with those before it:     *)
(*    StreaksTypeOK    types                                               *)
(*    ClockInv         who has seen a noon or a midnight                      *)
(*    CalendarInv      which days the row and the transactions may name    *)
(*    EarnedInv        streaks counted up to a day, not only in all        *)
(*    ViewInv          how far what a repair has read can be from the row     *)
(*    PostInv          which losses may still be announced                 *)
(***************************************************************************)
EXTENDS Streaks, TLAPS, FiniteSetTheorems

UpTo(S, d) == {x \in S : x <= d}

\* Days on which both wrote, up to d.
Earned(d) == Cardinality(UpTo(Together, d))

\* A loss is at least two days old.
LossIsOld(r) == r.lost # 0 => r.lostAt <= day - 2

\* After noon, and whoever has seen neither noon nor midnight, a transaction
\* under way began today.
ClockInv ==
    \A u \in Users : doing[u] # "none" /\ (noon \/ u \notin old) => on[u] = day

\* Nothing is dated in the future, a transaction sees one midnight at most, and
\* whoever has a message under way has none committed on a later day.
CalendarInv ==
    /\ row.lastDay <= day /\ LossIsOld(row)
    /\ \A u \in Users :
          /\ row.msgDay[u] <= day
          /\ row.msgDay[u] # 0 => <<u, row.msgDay[u]>> \in wrote
          /\ seen[u].lastDay <= day /\ LossIsOld(seen[u])
          /\ doing[u] # "none" => on[u] \in Days /\ day - 1 <= on[u] /\ on[u] <= day
          /\ doing[u] = "message" => row.msgDay[u] <= on[u]

EarnedRow(r) == r.current <= Earned(r.lastDay) /\ r.lost <= Earned(r.lostAt)

\* A message under way that is older than the last day counted was overtaken by
\* a repair: what was repaired is older than both.
EarnedInv ==
    /\ EarnedRow(row)
    /\ \A u \in Users :
          /\ EarnedRow(seen[u])
          /\ doing[u] = "message" /\ on[u] < row.lastDay => row.current <= Earned(on[u])
------------------------------------------------------------------------------
(***************************************************************************)
(* Types.                                                                  *)
(***************************************************************************)
\* The calendar has a day.
LEMMA Calendar == MaxDay \in Nat \ {0} /\ 0 \in 0..MaxDay
BY StreaksAssumption

\* The snapshot of a loss is a row.
LEMMA LoseType == ASSUME NEW r \in Row PROVE Lose(r) \in Row
BY DEF Lose, Row

\* A month is the month of one of the calendar's days.
LEMMA MonthType == ASSUME NEW d \in 0..MaxDay PROVE Month(d) \in Months
BY DEF Months

\* Counting a day keeps the row a row.
LEMMA CountType ==
  ASSUME NEW r \in Row, NEW today \in 0..MaxDay
  PROVE  Count(r, today) \in Row
<1>1. Grow(r, today) \in Nat
  BY DEF Grow, Row
<1>2. ASSUME NEW b \in Row PROVE [b EXCEPT !.current = Grow(r, today), !.lastDay = today] \in Row
  BY <1>1, <1>2 DEF Row
<1>3. ASSUME NEW b \in Row PROVE [b EXCEPT !.notified = FALSE] \in Row
  BY <1>3 DEF Row
<1>4. QED
  BY <1>2, <1>3, LoseType DEF Count

\* So does celebrating a milestone.
LEMMA CelebrateType == ASSUME NEW r \in Row PROVE Celebrate(r) \in Row
<1>1. Reached(r) \subseteq Nat
  BY StreaksAssumption DEF Reached, Crossed
<1>2. (IF Reached(r) = {} THEN r.milestone ELSE CHOOSE m \in Reached(r) : TRUE) \in Nat
  BY <1>1 DEF Row
<1>3. QED
  BY <1>2 DEF Celebrate, Row

\* What a message of u makes of the row.
LEMMA MarkedType ==
  ASSUME StreaksTypeOK, NEW u \in Users
  PROVE  Marked(u) \in Row
<1>1. [row EXCEPT !.msgDay = [@ EXCEPT ![u] = on[u]]] \in Row
  BY DEF StreaksTypeOK, Row
<1>2. QED
  BY <1>1, CountType DEF Marked, StreaksTypeOK

\* What a repair of u goes by and starts from.
LEMMA RepairType ==
  ASSUME StreaksTypeOK, NEW u \in Users
  PROVE  Judged(u) \in Row /\ Base(u) \in Row
<1>1. row \in Row /\ seen[u] \in Row
  BY DEF StreaksTypeOK
<1>2. [row EXCEPT !.lost = seen[u].current, !.lostAt = seen[u].lastDay, !.current = 0] \in Row
  BY <1>1 DEF Row
<1>3. QED
  BY <1>1, <1>2, LoseType DEF Judged, Base

\* The row after a repair.
LEMMA RepairedType ==
  ASSUME NEW r \in Row, NEW s \in Row, NEW today \in 0..MaxDay
  PROVE  Repaired(r, s, today) \in Row
<1>1. Used(s, today) + 1 \in Nat
  BY DEF Used, Row
<1>2. Month(today) \in Months
  BY MonthType
<1>3. QED
  BY <1>1, <1>2, Calendar DEF Repaired, Row

LEMMA RepairedFields ==
  ASSUME NEW r \in Row, NEW s \in Row, NEW today \in 0..MaxDay
  PROVE  /\ Repaired(r, s, today).current = s.lost /\ Repaired(r, s, today).lastDay = today
         /\ Repaired(r, s, today).lost = 0 /\ Repaired(r, s, today).lostAt = 0
         /\ Repaired(r, s, today).milestone = r.milestone
         /\ Repaired(r, s, today).msgDay = r.msgDay
<1> DEFINE n == Used(s, today) + 1
           m == Month(today)
<1>1. Repaired(r, s, today) =
        [r EXCEPT !.current = s.lost, !.lastDay = today, !.lost = 0, !.lostAt = 0,
                  !.notified = FALSE, !.used = n, !.month = m]
  BY DEF Repaired
<1> HIDE DEF n, m
<1>2. QED
  BY <1>1 DEF Row

\* The row once the late snapshot of a streak that has ended is written.
LEMMA LateFields ==
  ASSUME NEW r \in Row, NEW lost \in Nat, NEW at \in 0..MaxDay
  PROVE  LET b == [r EXCEPT !.lost = lost, !.lostAt = at, !.current = 0]
         IN  /\ b.current = 0 /\ b.lastDay = r.lastDay /\ b.lost = lost /\ b.lostAt = at
             /\ b.notified = r.notified /\ b.milestone = r.milestone /\ b.msgDay = r.msgDay
BY DEF Row

\* The end of a transaction keeps the types of what it resets.
LEMMA EndType ==
  ASSUME StreaksTypeOK, NEW u \in Users, End(u), NewRow \in Row
  PROVE  /\ doing' \in [Users -> {"none", "message", "restore"}]
         /\ on' \in [Users -> 0..MaxDay]
         /\ \A v \in Users : doing'[v] # "none" => on'[v] \in Days
         /\ seen' \in [Users -> Row]
         /\ old' \subseteq Users \cup {"cron"}
BY Calendar DEF End, StreaksTypeOK

\* So does the beginning of one, on the day it is.
LEMMA BeginType ==
  ASSUME StreaksTypeOK, NEW u \in Users, NEW what \in {"message", "restore"}, Begin(u, what)
  PROVE  /\ doing' \in [Users -> {"none", "message", "restore"}]
         /\ on' \in [Users -> 0..MaxDay]
         /\ \A v \in Users : doing'[v] # "none" => on'[v] \in Days
<1>1. /\ doing \in [Users -> {"none", "message", "restore"}] /\ on \in [Users -> 0..MaxDay]
      /\ \A v \in Users : doing[v] # "none" => on[v] \in Days
      /\ day \in Days
  BY DEF StreaksTypeOK
<1>2. day \in 0..MaxDay
  BY <1>1, Calendar DEF Days
<1>3. QED
  BY <1>1, <1>2 DEF Begin

\* The default row is one.
LEMMA NewRowType == NewRow \in Row
<1>1. Month(0) \in Months
  BY MonthType, Calendar
<1>2. QED
  BY <1>1, Calendar DEF NewRow, Row

\* One step of a friend keeps the types.
LEMMA UserTypes ==
  ASSUME StreaksTypeOK, NEW u \in Users,
         BeginMessage(u) \/ CommitMessage(u) \/ ReadRow(u) \/ Restore(u) \/ Abort(u)
  PROVE  StreaksTypeOK'
<1> USE NewRowType, Calendar
<1>1. CASE BeginMessage(u)
  BY <1>1, BeginType DEF BeginMessage, history, StreaksTypeOK, clock
<1>2. CASE CommitMessage(u)
  <2>1. row' \in Row
    BY <1>2, MarkedType, CelebrateType DEF CommitMessage, clock
  <2>2. milestones' \in [Milestones -> Nat]
    BY <1>2 DEF CommitMessage, StreaksTypeOK, clock
  <2>3. wrote' \subseteq Users \X Days
    BY <1>2 DEF CommitMessage, StreaksTypeOK, clock
  <2>4. QED
    BY <1>2, <2>1, <2>2, <2>3, EndType DEF CommitMessage, StreaksTypeOK, clock
<1>3. CASE ReadRow(u)
  <2>1. seen' \in [Users -> Row]
    BY <1>3 DEF ReadRow, StreaksTypeOK
  <2>2. QED
    BY <1>3, <2>1, BeginType DEF ReadRow, history, StreaksTypeOK, clock
<1>4. CASE Restore(u)
  <2>1. /\ Base(u) \in Row
        /\ Repaired(Base(u), Judged(u), on[u]) \in Row
    BY RepairType, RepairedType DEF StreaksTypeOK
  <2>2. row' \in Row
    BY <1>4, <2>1 DEF Restore, clock
  <2>3. repairs' \in [Months -> Nat] /\ posts' \in [Days -> Nat]
    BY <1>4 DEF Restore, StreaksTypeOK, clock
  <2>4. QED
    BY <1>4, <2>2, <2>3, EndType DEF Restore, StreaksTypeOK, clock
<1>5. CASE Abort(u)
  BY <1>5, EndType DEF Abort, history, StreaksTypeOK, clock
<1>6. QED
  BY <1>1, <1>2, <1>3, <1>4, <1>5

\* So does one of the calendar, of the cron and of a restart.
LEMMA ServerTypes ==
  ASSUME StreaksTypeOK, Noon \/ Midnight \/ Cron \/ Restart
  PROVE  StreaksTypeOK'
<1>1. CASE Noon \/ Midnight
  <2>1. day' \in Days /\ noon' \in BOOLEAN
    <3>1. day' \in Days
      BY <1>1, Calendar DEF Noon, Midnight, StreaksTypeOK, Days
    <3>2. noon' \in BOOLEAN
      BY <1>1, Zenon DEF Noon, Midnight
    <3>3. QED
      BY <3>1, <3>2
  <2>2. old' \subseteq Users \cup {"cron"}
    BY <1>1 DEF Noon, Midnight, Pass
  <2>3. UNCHANGED <<row, doing, on, seen, cron, history>>
    BY <1>1 DEF Noon, Midnight, Pass
  <2>4. QED
    BY <2>1, <2>2, <2>3 DEF history, StreaksTypeOK
<1>2. CASE CronSnapshot
  <2>1. [Lose(row) EXCEPT !.current = 0] \in Row
    BY LoseType DEF StreaksTypeOK, Row
  <2>2. row' \in Row
    BY <1>2, <2>1 DEF CronSnapshot, StreaksTypeOK, clock
  <2>3. QED
    BY <1>2, <2>2, Calendar DEF CronSnapshot, Idle, history, StreaksTypeOK, clock
<1>3. CASE CronList
  <2>1. row.lost \in Nat /\ row.lostAt \in 0..MaxDay
    BY DEF StreaksTypeOK, Row
  <2>2. /\ cron' \in [at : {"idle", "snapshot", "listed"}, lost : Nat, lostAt : 0..MaxDay]
        /\ old' \subseteq Users \cup {"cron"}
    BY <1>3, <2>1, Calendar DEF CronList, Idle, StreaksTypeOK, EndPass
  <2>3. UNCHANGED <<day, noon, row, doing, on, seen, wrote, posts, repairs, milestones>>
    BY <1>3 DEF CronList, history, clock
  <2>4. QED
    BY <2>2, <2>3 DEF StreaksTypeOK
<1>4. CASE CronAnnounce
  <2>1. row' \in Row
    <3>1. \A r \in Row : [r EXCEPT !.notified = TRUE] \in Row
      BY DEF Row
    <3>2. row' = row \/ row' = [row EXCEPT !.notified = TRUE]
      BY <1>4 DEF CronAnnounce, Announced
    <3>3. QED
      BY <3>1, <3>2 DEF StreaksTypeOK
  <2>2. cron' = Idle /\ posts' \in [Days -> Nat]
    BY <1>4 DEF CronAnnounce, StreaksTypeOK, clock, EndPass
  <2>3. QED
    BY <1>4, <2>1, <2>2, Calendar DEF CronAnnounce, Idle, StreaksTypeOK, clock, EndPass
<1>5. CASE Restart
  BY <1>5, NewRowType, Calendar DEF Restart, Idle, history, StreaksTypeOK, clock
<1>6. CASE CronFails
  BY <1>6, Calendar DEF CronFails, Idle, history, StreaksTypeOK, clock, EndPass
<1>7. QED
  BY <1>1, <1>2, <1>3, <1>4, <1>5, <1>6 DEF Cron

\* One step of anybody.
LEMMA TypeStep == StreaksTypeOK /\ [Next]_vars => StreaksTypeOK'
<1> SUFFICES ASSUME StreaksTypeOK, [Next]_vars PROVE StreaksTypeOK'
  OBVIOUS
<1>1. CASE UNCHANGED vars
  BY <1>1 DEF vars, history, StreaksTypeOK, clock
<1>2. CASE Next
  BY <1>2, UserTypes, ServerTypes DEF Next
<1>3. QED
  BY <1>1, <1>2

\* The initial state.
LEMMA TypeInit == Init => StreaksTypeOK
<1> SUFFICES ASSUME Init PROVE StreaksTypeOK
  OBVIOUS
<1>1. noon \in BOOLEAN
  BY Zenon DEF Init
<1>2. day \in Days
  BY Calendar DEF Init, Days
<1>3. QED
  BY <1>1, <1>2, NewRowType, Calendar DEF Init, StreaksTypeOK, Idle

\* Everything the streak keeps stays of its type.
THEOREM StreaksTypeCorrect == Spec => []StreaksTypeOK
BY TypeInit, TypeStep, PTL DEF Spec
------------------------------------------------------------------------------
(***************************************************************************)
(* What each operation changes of the row.                                 *)
(***************************************************************************)
\* Counting a day: nothing, or a streak that grew or began, and then the loss
\* of the row is the old one or the streak that ended here.
LEMMA CountFields ==
  ASSUME NEW r \in Row, NEW today \in 0..MaxDay
  PROVE  LET c == Count(r, today) IN
         /\ c.milestone = r.milestone /\ c.msgDay = r.msgDay
         /\ \/ c = r
            \/ /\ \A u \in Users : r.msgDay[u] = today
               /\ c.current = Grow(r, today) /\ c.lastDay = today
               /\ \/ c.lost = r.lost /\ c.lostAt = r.lostAt
                  \/ c.lost = r.current /\ c.lostAt = r.lastDay /\ today - r.lastDay > 1
<1> DEFINE ended == Established(r) /\ today - r.lastDay > 1
           base  == IF ended THEN [Lose(r) EXCEPT !.notified = FALSE] ELSE r
<1>1. base \in Row /\ base.milestone = r.milestone /\ base.msgDay = r.msgDay
  BY DEF Lose, Row
<1>2. \/ base.lost = r.lost /\ base.lostAt = r.lostAt
      \/ base.lost = r.current /\ base.lostAt = r.lastDay /\ today - r.lastDay > 1
  BY DEF Lose, Row
<1>3. CASE \A u \in Users : r.msgDay[u] = today
  <2>1. Count(r, today) = [base EXCEPT !.current = Grow(r, today), !.lastDay = today]
    BY <1>3 DEF Count
  <2> HIDE DEF base
  <2>2. QED
    BY <1>1, <1>2, <1>3, <2>1 DEF Row
<1>4. CASE ~ \A u \in Users : r.msgDay[u] = today
  BY <1>4 DEF Count
<1>5. QED
  BY <1>3, <1>4

\* Celebrating changes the milestone only.
LEMMA CelebrateFields ==
  ASSUME NEW r \in Row
  PROVE  LET c == Celebrate(r) IN
         /\ c.current = r.current /\ c.lastDay = r.lastDay /\ c.msgDay = r.msgDay
         /\ c.lost = r.lost /\ c.lostAt = r.lostAt
         /\ c.milestone = IF Reached(r) = {} THEN r.milestone
                                            ELSE CHOOSE m \in Reached(r) : TRUE
BY DEF Celebrate, Row

\* A committed message.
LEMMA MarkedFields ==
  ASSUME StreaksTypeOK, NEW u \in Users, doing[u] = "message"
  PROVE  LET c == Marked(u) IN
         /\ c \in Row /\ c.milestone = row.milestone
         /\ c.msgDay = [row.msgDay EXCEPT ![u] = on[u]]
         /\ \/ /\ c.current = row.current /\ c.lastDay = row.lastDay
               /\ c.lost = row.lost /\ c.lostAt = row.lostAt
            \/ /\ \A v \in Users : c.msgDay[v] = on[u]
               /\ c.current = Grow(row, on[u]) /\ c.lastDay = on[u]
               /\ \/ c.lost = row.lost /\ c.lostAt = row.lostAt
                  \/ c.lost = row.current /\ c.lostAt = row.lastDay /\ on[u] - row.lastDay > 1
<1> DEFINE r == [row EXCEPT !.msgDay = [@ EXCEPT ![u] = on[u]]]
<1>1. /\ r \in Row /\ r.milestone = row.milestone
      /\ r.msgDay = [row.msgDay EXCEPT ![u] = on[u]]
      /\ r.current = row.current /\ r.lastDay = row.lastDay
      /\ r.lost = row.lost /\ r.lostAt = row.lostAt
  BY DEF StreaksTypeOK, Row
<1>2. Grow(r, on[u]) = Grow(row, on[u])
  BY <1>1 DEF Grow
<1>3. Marked(u) = Count(r, on[u]) /\ on[u] \in 0..MaxDay
  BY DEF Marked, StreaksTypeOK
<1> HIDE DEF r
<1>4. QED
  BY <1>1, <1>2, <1>3, CountFields, MarkedType

\* A repair: what is written, or the late snapshot, or nothing.
LEMMA RestoreFields ==
  ASSUME StreaksTypeOK, NEW u \in Users, Restore(u)
  PROVE  LET late == /\ on[u] - seen[u].lastDay > 1
                     /\ row'.lost = seen[u].current /\ row'.lostAt = seen[u].lastDay
         IN
         /\ row' \in Row /\ row'.milestone = row.milestone /\ row'.msgDay = row.msgDay
         /\ \/ /\ row'.lost = 0 /\ row'.lostAt = 0 /\ row'.lastDay = on[u]
               /\ \/ row'.current = seen[u].lost /\ seen[u].lost # 0
                  \/ row'.current = seen[u].current /\ on[u] - seen[u].lastDay > 1
            \/ row'.current = 0 /\ row'.lastDay = row.lastDay /\ late
            \/ row' = row
<1>0. row \in Row /\ seen[u] \in Row
  BY DEF StreaksTypeOK
<1>1. /\ Judged(u) \in Row /\ Base(u) \in Row
      /\ Base(u).milestone = row.milestone /\ Base(u).msgDay = row.msgDay
  BY <1>0, RepairType DEF Base, Row
<1>2. \/ Judged(u) = seen[u] /\ Base(u) = row
      \/ /\ Judged(u).lost = seen[u].current /\ on[u] - seen[u].lastDay > 1
         /\ Base(u).lost = seen[u].current /\ Base(u).lostAt = seen[u].lastDay
         /\ Base(u).current = 0 /\ Base(u).lastDay = row.lastDay
  BY <1>0 DEF Judged, Base, IsLate, Lose, Row
<1>3. CASE Restorable(Judged(u), on[u])
  <2>1. row' = Repaired(Base(u), Judged(u), on[u]) /\ Judged(u).lost # 0
    BY <1>1, <1>3 DEF Restore, Restorable, Row, clock
  <2>2. /\ row' \in Row /\ row'.milestone = row.milestone /\ row'.msgDay = row.msgDay
        /\ row'.lost = 0 /\ row'.lostAt = 0 /\ row'.lastDay = on[u]
        /\ row'.current = Judged(u).lost
    <3>1. on[u] \in 0..MaxDay
      BY DEF StreaksTypeOK
    <3>2. QED
      BY <1>1, <2>1, <3>1, RepairedType, RepairedFields
  <2>3. QED
    BY <1>2, <2>1, <2>2
<1>4. CASE ~ Restorable(Judged(u), on[u])
  BY <1>0, <1>1, <1>2, <1>4 DEF Restore, clock
<1>5. QED
  BY <1>3, <1>4

\* The cron's snapshot.
LEMMA SnapshotFields ==
  ASSUME StreaksTypeOK, CronSnapshot
  PROVE  /\ row'.milestone = row.milestone /\ row'.msgDay = row.msgDay
         /\ row'.lastDay = row.lastDay
         /\ \/ row' = row
            \/ /\ row'.current = 0 /\ row'.lost = row.current /\ row'.lostAt = row.lastDay
               /\ row.lastDay < day - 1
BY DEF CronSnapshot, Lose, StreaksTypeOK, Row, clock

\* The announcement sets the flag only.
LEMMA AnnounceFields ==
  ASSUME StreaksTypeOK, CronAnnounce
  PROVE  /\ row'.milestone = row.milestone /\ row'.msgDay = row.msgDay
         /\ row'.lastDay = row.lastDay /\ row'.current = row.current
         /\ row'.lost = row.lost /\ row'.lostAt = row.lostAt
BY DEF CronAnnounce, Announced, StreaksTypeOK, Row, clock, EndPass
------------------------------------------------------------------------------
(***************************************************************************)
(* Milestones.                                                             *)
(***************************************************************************)
\* Whatever was celebrated is behind the row's last milestone.
MilestoneInv ==
    \A m \in Milestones : milestones[m] <= 1 /\ (milestones[m] # 0 => m <= row.milestone)

\* A message celebrates what the row has not reached.
LEMMA MessageMilestones ==
  ASSUME StreaksTypeOK, MilestoneInv, NEW u \in Users, CommitMessage(u)
  PROVE  MilestoneInv'
<1> DEFINE c == Marked(u)
<1>1. c \in Row /\ c.milestone = row.milestone
  BY MarkedFields DEF CommitMessage, clock
<1>2. row'.milestone = IF Reached(c) = {} THEN row.milestone ELSE CHOOSE m \in Reached(c) : TRUE
  BY <1>1, CelebrateFields DEF CommitMessage, clock
<1>3. ASSUME NEW m \in Milestones
      PROVE  milestones'[m] = milestones[m] + IF m \in Reached(c) THEN 1 ELSE 0
  BY <1>3 DEF CommitMessage, clock
<1> HIDE DEF c
<1>4. /\ row.milestone \in Nat /\ Milestones \subseteq Nat
      /\ \A m \in Milestones : milestones[m] \in Nat
  BY StreaksAssumption DEF StreaksTypeOK, Row
<1>5. \A m \in Reached(c) : /\ m \in Milestones /\ m > row.milestone
                             /\ \A k \in Reached(c) : k <= m
  BY <1>1 DEF Reached, Crossed
<1>6. CASE Reached(c) = {}
  BY <1>2, <1>3, <1>4, <1>6 DEF MilestoneInv
<1>7. CASE Reached(c) # {}
  <2>1. PICK h \in Reached(c) : row'.milestone = h
    BY <1>2, <1>7
  <2>2. h > row.milestone /\ \A m \in Reached(c) : m <= h
    BY <1>5, <2>1
  <2>3. h \in Nat
    BY <1>4, <1>5, <2>1
  <2>4. ASSUME NEW m \in Milestones
        PROVE  milestones'[m] <= 1 /\ (milestones'[m] # 0 => m <= h)
    <3>1. milestones[m] \in Nat /\ milestones[m] <= 1 /\ (milestones[m] # 0 => m <= row.milestone)
      BY <1>4, <2>4 DEF MilestoneInv
    <3>2. CASE m \in Reached(c)
      <4>1. m > row.milestone /\ m <= h /\ m \in Nat
        BY <1>4, <1>5, <2>2, <3>2
      <4>2. milestones[m] = 0
        BY <1>4, <3>1, <4>1
      <4>3. QED
        BY <1>3, <3>2, <4>1, <4>2
    <3>3. CASE m \notin Reached(c)
      BY <1>3, <1>4, <2>2, <2>3, <3>1, <3>3
    <3>4. QED
      BY <3>2, <3>3
  <2>5. QED
    BY <2>1, <2>4 DEF MilestoneInv
<1>8. QED
  BY <1>6, <1>7

\* Nobody else touches the milestones.
LEMMA MilestoneStep == StreaksTypeOK /\ MilestoneInv /\ [Next]_vars => MilestoneInv'
<1> SUFFICES ASSUME StreaksTypeOK, MilestoneInv, [Next]_vars PROVE MilestoneInv'
  OBVIOUS
<1>1. ASSUME NEW u \in Users, CommitMessage(u) PROVE MilestoneInv'
  BY <1>1, MessageMilestones
<1>2. ASSUME NEW u \in Users, Restore(u) PROVE MilestoneInv'
  <2>1. row'.milestone = row.milestone
    BY <1>2, RestoreFields
  <2>2. QED
    BY <1>2, <2>1 DEF Restore, MilestoneInv, clock
<1>3. CASE CronSnapshot
  BY <1>3, SnapshotFields DEF CronSnapshot, history, MilestoneInv, clock
<1>4. CASE CronAnnounce
  BY <1>4, AnnounceFields DEF CronAnnounce, MilestoneInv, clock, EndPass
<1>5. ASSUME UNCHANGED <<row, milestones>> PROVE MilestoneInv'
  BY <1>5 DEF MilestoneInv
<1>6. ASSUME NEW u \in Users, BeginMessage(u) \/ ReadRow(u) \/ Abort(u) PROVE MilestoneInv'
  BY <1>5, <1>6 DEF BeginMessage, ReadRow, Abort, history, clock
<1>7. CASE Noon \/ Midnight \/ CronList \/ CronFails \/ Restart \/ UNCHANGED vars
  BY <1>5, <1>7 DEF Noon, Midnight, Pass, CronList, CronFails, Restart, vars, history, clock, EndPass
<1>8. QED
  BY <1>1, <1>2, <1>3, <1>4, <1>6, <1>7 DEF Next, Cron

\* Each milestone is notified once, for any set of milestones: what the loss,
\* the repair and the cron do to the streak never takes the row's mark back.
THEOREM MilestonesOnceHolds == Spec => []MilestonesOnce
<1>1. Init => MilestoneInv
  BY StreaksAssumption DEF Init, NewRow, MilestoneInv
<1>2. MilestoneInv => MilestonesOnce
  BY DEF MilestoneInv, MilestonesOnce
<1>3. QED
  BY <1>1, <1>2, MilestoneStep, StreaksTypeCorrect, PTL DEF Spec
------------------------------------------------------------------------------
(***************************************************************************)
(* The calendar.                                                           *)
(***************************************************************************)
\* The default row is dated nothing.
LEMMA NewRowFields ==
  NewRow.current = 0 /\ NewRow.lastDay = 0 /\ NewRow.lost = 0 /\ NewRow.lostAt = 0
BY DEF NewRow

\* What a repair reads, or forgets, is as old as the row.
LEMMA SeenCalendar ==
  ASSUME StreaksTypeOK, CalendarInv, day' = day, NEW v \in Users,
         seen'[v] = seen[v] \/ seen'[v] = NewRow \/ seen'[v] = row
  PROVE  seen'[v].lastDay <= day' /\ LossIsOld(seen[v])'
<1>1. day \in Nat
  BY Calendar DEF StreaksTypeOK, Days
<1>2. CASE seen'[v] = seen[v]
  BY <1>2 DEF CalendarInv, LossIsOld
<1>3. CASE seen'[v] = row
  BY <1>3 DEF CalendarInv, LossIsOld
<1>4. CASE seen'[v] = NewRow
  <2>1. seen'[v].lastDay = 0 /\ seen'[v].lost = 0
    BY <1>4, NewRowFields
  <2>2. QED
    BY <1>1, <2>1 DEF LossIsOld
<1>5. QED
  BY <1>2, <1>3, <1>4

\* A committed message is dated the day it began.
LEMMA CalendarCommit ==
  ASSUME StreaksTypeOK, CalendarInv, NEW u \in Users, CommitMessage(u)
  PROVE  CalendarInv'
<1> DEFINE c == Marked(u)
<1>1. /\ day' = day /\ wrote' = wrote \cup {<<u, on[u]>>}
      /\ doing' = [doing EXCEPT ![u] = "none"] /\ on' = [on EXCEPT ![u] = 0]
      /\ seen' = [seen EXCEPT ![u] = NewRow] /\ doing[u] = "message"
  BY DEF CommitMessage, End, clock
<1>2. /\ row'.lastDay = c.lastDay /\ row'.msgDay = c.msgDay
      /\ row'.lost = c.lost /\ row'.lostAt = c.lostAt
  BY MarkedFields, CelebrateFields DEF CommitMessage, clock
<1>3. /\ row \in Row /\ seen \in [Users -> Row] /\ on \in [Users -> 0..MaxDay] /\ day \in Days
      /\ doing \in [Users -> {"none", "message", "restore"}] /\ on[u] \in Days
  BY <1>1 DEF StreaksTypeOK
<1>4. on[u] <= day
  BY Calendar, <1>1, <1>3 DEF CalendarInv, Days
<1>5. row'.lastDay <= day' /\ LossIsOld(row)'
  <2>1. /\ row.lastDay \in 0..MaxDay /\ row.lostAt \in 0..MaxDay /\ row.lastDay <= day
        /\ row.lost # 0 => row.lostAt <= day - 2
    BY <1>3 DEF CalendarInv, LossIsOld, Row
  <2>2. \/ c.lastDay = row.lastDay /\ c.lost = row.lost /\ c.lostAt = row.lostAt
        \/ /\ c.lastDay = on[u]
           /\ \/ c.lost = row.lost /\ c.lostAt = row.lostAt
              \/ c.lostAt = row.lastDay /\ on[u] - row.lastDay > 1
    BY <1>1, MarkedFields
  <2>3. day \in Nat /\ on[u] \in Nat
    BY Calendar, <1>3 DEF Days
  <2>4. QED
    BY <1>1, <1>2, <1>4, <2>1, <2>2, <2>3, Calendar DEF LossIsOld
<1>6. row'.msgDay = [row.msgDay EXCEPT ![u] = on[u]] /\ row.msgDay \in [Users -> 0..MaxDay]
  BY <1>1, <1>2, <1>3, MarkedFields DEF Row
<1>7. ASSUME NEW v \in Users
      PROVE  /\ row'.msgDay[v] <= day'
             /\ row'.msgDay[v] # 0 => <<v, row'.msgDay[v]>> \in wrote'
             /\ doing'[v] # "none" => on'[v] \in Days /\ day' - 1 <= on'[v] /\ on'[v] <= day'
             /\ doing'[v] = "message" => row'.msgDay[v] <= on'[v]
  <2>1. CASE v = u
    BY <1>1, <1>3, <1>4, <1>6, <2>1
  <2>2. CASE v # u
    BY <1>1, <1>3, <1>6, <1>7, <2>2 DEF CalendarInv
  <2>3. QED
    BY <2>1, <2>2
<1>8. ASSUME NEW v \in Users PROVE seen'[v].lastDay <= day' /\ LossIsOld(seen[v])'
  <2>1. seen'[v] = seen[v] \/ seen'[v] = NewRow
    BY <1>1, <1>3, <1>8
  <2>2. QED
    BY <1>1, <1>8, <2>1, SeenCalendar
<1>9. QED
  BY <1>5, <1>7, <1>8 DEF CalendarInv

\* A repair writes what is dated before today, and lost two days before.
LEMMA CalendarRestore ==
  ASSUME StreaksTypeOK, CalendarInv, NEW u \in Users, Restore(u)
  PROVE  CalendarInv'
<1>1. /\ day' = day /\ wrote' = wrote
      /\ doing' = [doing EXCEPT ![u] = "none"] /\ on' = [on EXCEPT ![u] = 0]
      /\ seen' = [seen EXCEPT ![u] = NewRow] /\ doing[u] = "restore"
  BY DEF Restore, End, clock
<1>3. /\ row \in Row /\ seen \in [Users -> Row] /\ on \in [Users -> 0..MaxDay] /\ day \in Days
      /\ doing \in [Users -> {"none", "message", "restore"}] /\ on[u] \in Days
  BY <1>1 DEF StreaksTypeOK
<1>4. on[u] <= day /\ row'.msgDay = row.msgDay
  BY Calendar, <1>1, <1>3, RestoreFields DEF CalendarInv, Days
<1>5. row'.lastDay <= day' /\ LossIsOld(row)'
  <2>1. seen[u].lastDay \in 0..MaxDay
    BY <1>3 DEF Row
  <2>2. QED
    BY <1>1, <1>3, <1>4, <2>1, RestoreFields DEF CalendarInv, LossIsOld, Days, Row
<1>7. ASSUME NEW v \in Users
      PROVE  /\ row'.msgDay[v] <= day'
             /\ row'.msgDay[v] # 0 => <<v, row'.msgDay[v]>> \in wrote'
             /\ doing'[v] # "none" => on'[v] \in Days /\ day' - 1 <= on'[v] /\ on'[v] <= day'
             /\ doing'[v] = "message" => row'.msgDay[v] <= on'[v]
  BY Calendar, <1>1, <1>3, <1>4, <1>7 DEF CalendarInv
<1>8. ASSUME NEW v \in Users PROVE seen'[v].lastDay <= day' /\ LossIsOld(seen[v])'
  <2>1. seen'[v] = seen[v] \/ seen'[v] = NewRow
    BY <1>1, <1>3, <1>8
  <2>2. QED
    BY <1>1, <1>8, <2>1, SeenCalendar
<1>9. QED
  BY <1>5, <1>7, <1>8 DEF CalendarInv

\* One step of anybody, for the clock.
LEMMA ClockStep == StreaksTypeOK /\ ClockInv /\ [Next]_vars => ClockInv'
<1> SUFFICES ASSUME StreaksTypeOK, ClockInv, [Next]_vars PROVE ClockInv'
  OBVIOUS
<1>1. /\ on \in [Users -> 0..MaxDay] /\ "cron" \notin Users
      /\ doing \in [Users -> {"none", "message", "restore"}]
  BY StreaksAssumption DEF StreaksTypeOK
<1>2. ASSUME NEW u \in Users, BeginMessage(u) \/ ReadRow(u) PROVE ClockInv'
  BY <1>1, <1>2 DEF BeginMessage, ReadRow, Begin, clock, ClockInv
<1>3. ASSUME NEW u \in Users, CommitMessage(u) \/ Restore(u) \/ Abort(u) PROVE ClockInv'
  BY <1>1, <1>3 DEF CommitMessage, Restore, Abort, End, clock, ClockInv
<1>4. CASE Noon \/ Midnight
  BY <1>4 DEF Noon, Midnight, Pass, ClockInv
<1>5. CASE CronSnapshot \/ CronList \/ CronAnnounce \/ CronFails
  BY <1>1, <1>5 DEF CronSnapshot, CronList, CronAnnounce, CronFails, EndPass, clock, ClockInv
<1>6. CASE Restart \/ UNCHANGED vars
  BY <1>6 DEF Restart, vars, clock, ClockInv
<1>7. QED
  BY <1>2, <1>3, <1>4, <1>5, <1>6 DEF Next, Cron

\* Nobody has a transaction yet.
LEMMA ClockInit == Init => ClockInv
BY DEF Init, ClockInv

\* A step that leaves the row and the day alone, and of the transactions only
\* begins one today or ends some.
LEMMA CalendarKept ==
  ASSUME StreaksTypeOK, CalendarInv,
         UNCHANGED <<day, wrote>>,
         row'.lastDay = row.lastDay, row'.msgDay = row.msgDay, LossIsOld(row)',
         \A v \in Users :
            /\ \/ seen'[v] = seen[v] \/ seen'[v] = NewRow \/ seen'[v] = row
            /\ \/ doing'[v] = doing[v] /\ on'[v] = on[v]
               \/ doing'[v] = "none"
               \/ on'[v] = day
  PROVE  CalendarInv'
<1>1. /\ row \in Row /\ seen \in [Users -> Row] /\ day \in Days
      /\ row.msgDay \in [Users -> 0..MaxDay]
  BY DEF StreaksTypeOK, Row
<1>2. ASSUME NEW v \in Users PROVE seen'[v].lastDay <= day' /\ LossIsOld(seen[v])'
  BY <1>2, SeenCalendar
<1>3. ASSUME NEW v \in Users
      PROVE  /\ row'.msgDay[v] <= day'
             /\ row'.msgDay[v] # 0 => <<v, row'.msgDay[v]>> \in wrote'
             /\ doing'[v] # "none" => on'[v] \in Days /\ day' - 1 <= on'[v] /\ on'[v] <= day'
             /\ doing'[v] = "message" => row'.msgDay[v] <= on'[v]
  BY <1>1, <1>3, Calendar DEF CalendarInv, Days
<1>4. row'.lastDay <= day'
  BY DEF CalendarInv
<1>5. QED
  BY <1>2, <1>3, <1>4 DEF CalendarInv

\* One step of anybody.
LEMMA CalendarStep == StreaksTypeOK /\ ClockInv /\ CalendarInv /\ [Next]_vars => CalendarInv'
<1> SUFFICES ASSUME StreaksTypeOK, ClockInv, CalendarInv, [Next]_vars PROVE CalendarInv'
  OBVIOUS
<1>1. /\ row \in Row /\ seen \in [Users -> Row] /\ on \in [Users -> 0..MaxDay] /\ day \in Days
      /\ doing \in [Users -> {"none", "message", "restore"}] /\ LossIsOld(row)
  BY DEF StreaksTypeOK, CalendarInv
<1>2. ASSUME NEW u \in Users, BeginMessage(u) \/ ReadRow(u) PROVE CalendarInv'
  <2>1. LossIsOld(row)'
    BY <1>1, <1>2 DEF BeginMessage, ReadRow, LossIsOld, history, clock
  <2>2. QED
    BY <1>1, <1>2, <2>1, CalendarKept DEF BeginMessage, ReadRow, Begin, history, clock
<1>3. ASSUME NEW u \in Users, Abort(u) PROVE CalendarInv'
  <2>1. LossIsOld(row)'
    BY <1>1, <1>3 DEF Abort, LossIsOld, history, clock
  <2>2. QED
    BY <1>1, <1>3, <2>1, CalendarKept DEF Abort, End, history, clock
<1>4. CASE CronSnapshot
  <2>1. LossIsOld(row)'
    BY Calendar, <1>1, <1>4, SnapshotFields DEF CronSnapshot, LossIsOld, Days, Row, clock
  <2>2. QED
    BY <1>1, <1>4, <2>1, SnapshotFields, CalendarKept DEF CronSnapshot, history, clock
<1>5. CASE CronAnnounce
  <2>1. LossIsOld(row)'
    BY <1>1, <1>5, AnnounceFields DEF CronAnnounce, LossIsOld, clock, EndPass
  <2>2. QED
    BY <1>1, <1>5, <2>1, AnnounceFields, CalendarKept DEF CronAnnounce, clock, EndPass
<1>6. CASE CronList \/ CronFails \/ Restart \/ Noon \/ UNCHANGED vars
  <2>1. UNCHANGED <<day, row, wrote>>
    BY <1>6 DEF CronList, CronFails, Restart, Noon, Pass, vars, history, clock, EndPass
  <2>2. LossIsOld(row)'
    BY <1>1, <2>1 DEF LossIsOld
  <2>3. QED
    BY <1>1, <1>6, <2>1, <2>2, CalendarKept DEF CronList, CronFails, Restart, Noon, Pass, vars, clock, EndPass
<1>7. CASE Midnight
  <2>1. /\ day' = day + 1 /\ UNCHANGED <<row, doing, on, seen, wrote>>
        /\ \A u \in Users : doing[u] # "none" => on[u] = day
    BY <1>7 DEF Midnight, Pass, ClockInv, history
  <2>2. \A u \in Users : /\ seen[u].lastDay \in 0..MaxDay /\ seen[u].lostAt \in 0..MaxDay
                         /\ row.msgDay[u] \in 0..MaxDay
    BY <1>1 DEF Row
  <2>3. row.lastDay \in 0..MaxDay /\ row.lostAt \in 0..MaxDay
    BY <1>1 DEF Row
  <2>4. row'.lastDay <= day' /\ LossIsOld(row)'
    BY Calendar, <1>1, <2>1, <2>3 DEF CalendarInv, LossIsOld, Days
  <2>5. ASSUME NEW v \in Users
        PROVE  /\ row'.msgDay[v] <= day'
               /\ row'.msgDay[v] # 0 => <<v, row'.msgDay[v]>> \in wrote'
               /\ seen'[v].lastDay <= day' /\ LossIsOld(seen[v])'
               /\ doing'[v] # "none" => on'[v] \in Days /\ day' - 1 <= on'[v] /\ on'[v] <= day'
               /\ doing'[v] = "message" => row'.msgDay[v] <= on'[v]
    BY Calendar, <1>1, <2>1, <2>2, <2>5 DEF CalendarInv, LossIsOld, Days
  <2>6. QED
    BY <2>4, <2>5 DEF CalendarInv
<1>8. QED
  BY <1>2, <1>3, <1>4, <1>5, <1>6, <1>7, CalendarCommit, CalendarRestore DEF Next, Cron

\* The initial state.
LEMMA CalendarInit == Init => CalendarInv
BY Calendar DEF Init, CalendarInv, LossIsOld, NewRow
------------------------------------------------------------------------------
(***************************************************************************)
(* Earned streaks.                                                         *)
(***************************************************************************)
\* A set of days is finite, and larger up to a later day.
LEMMA UpToGrows ==
  ASSUME NEW S \in SUBSET Days, NEW T \in SUBSET Days, S \subseteq T,
         NEW d \in Int, NEW e \in Int, d <= e
  PROVE  /\ Cardinality(UpTo(S, d)) \in Nat /\ Cardinality(UpTo(T, e)) \in Nat
         /\ Cardinality(UpTo(S, d)) <= Cardinality(UpTo(T, e))
         /\ e \in T /\ d < e => Cardinality(UpTo(S, d)) + 1 <= Cardinality(UpTo(T, e))
<1>1. IsFiniteSet(Days) /\ Days \subseteq Nat
  BY Calendar, FS_Interval DEF Days
<1>2. /\ UpTo(S, d) \subseteq UpTo(T, e) /\ UpTo(T, e) \subseteq Days
      /\ e \in T => e \in UpTo(T, e)
      /\ d < e => e \notin UpTo(S, d)
  <2>1. ASSUME NEW x \in UpTo(S, d) PROVE x \in UpTo(T, e)
    <3>1. x \in S /\ x \in T /\ x \in Nat /\ x <= d
      BY <1>1, <2>1 DEF UpTo
    <3>2. x <= e
      BY <3>1
    <3>3. QED
      BY <3>1, <3>2 DEF UpTo
  <2>2. UpTo(T, e) \subseteq Days /\ (e \in T => e \in UpTo(T, e))
    <3>1. UpTo(T, e) \subseteq T /\ (e \in T /\ e <= e => e \in UpTo(T, e))
      BY DEF UpTo
    <3>2. e <= e
      OBVIOUS
    <3>3. QED
      BY <1>1, <3>1, <3>2
  <2>3. d < e => e \notin UpTo(S, d)
    BY DEF UpTo
  <2>4. QED
    BY <2>1, <2>2, <2>3
<1>3. IsFiniteSet(UpTo(T, e)) /\ IsFiniteSet(UpTo(S, d))
  BY <1>1, <1>2, FS_Subset
<1>4. /\ Cardinality(UpTo(S, d)) \in Nat /\ Cardinality(UpTo(T, e)) \in Nat
      /\ Cardinality(UpTo(S, d)) <= Cardinality(UpTo(T, e))
  BY <1>2, <1>3, FS_Subset, FS_CardinalityType
<1>5. ASSUME e \in T, d < e
      PROVE  Cardinality(UpTo(S, d)) + 1 <= Cardinality(UpTo(T, e))
  <2>1. /\ IsFiniteSet(UpTo(S, d) \cup {e})
        /\ Cardinality(UpTo(S, d) \cup {e}) = Cardinality(UpTo(S, d)) + 1
    BY <1>2, <1>3, <1>5, FS_AddElement
  <2>2. UpTo(S, d) \cup {e} \subseteq UpTo(T, e)
    BY <1>2, <1>5
  <2>3. QED
    BY <1>3, <2>1, <2>2, FS_Subset
<1>6. QED
  BY <1>4, <1>5

\* The same after the step, for a day that does not change with it.
EarnedNext(d) == Cardinality(UpTo(Together', d))

EarnedRowNext(r) == r.current <= EarnedNext(r.lastDay) /\ r.lost <= EarnedNext(r.lostAt)

\* EarnedInv after the step.
LEMMA EarnedPrime ==
  ASSUME EarnedRowNext(row'), \A v \in Users : EarnedRowNext(seen'[v]),
         \A v \in Users : doing'[v] = "message" /\ on'[v] < row'.lastDay
                              => row'.current <= EarnedNext(on'[v])
  PROVE  EarnedInv'
BY DEF EarnedRowNext, EarnedNext, EarnedInv, EarnedRow, Earned

\* The numbers of a row.
LEMMA RowNumbers ==
  ASSUME NEW r \in Row
  PROVE  r.current \in Nat /\ r.lastDay \in Nat /\ r.lost \in Nat /\ r.lostAt \in Nat
BY Calendar DEF Row

\* What was earned stays earned, and a later day on which both wrote is one more.
LEMMA EarnedGrows ==
  ASSUME wrote \subseteq wrote', NEW d \in Int, NEW e \in Int, d <= e
  PROVE  /\ Earned(d) \in Nat /\ EarnedNext(e) \in Nat
         /\ Earned(d) <= EarnedNext(e)
         /\ e \in Together' /\ d < e => Earned(d) + 1 <= EarnedNext(e)
<1>1. Together \subseteq Together' /\ Together' \subseteq Days
  BY DEF Together
<1>2. QED
  BY <1>1, UpToGrows DEF Earned, EarnedNext

\* A row whose streaks were earned keeps that when more is written.
LEMMA EarnedRowKept ==
  ASSUME wrote \subseteq wrote', NEW r \in Row, EarnedRow(r)
  PROVE  r.current <= EarnedNext(r.lastDay) /\ r.lost <= EarnedNext(r.lostAt)
<1>1. /\ r.current \in Nat /\ r.lost \in Nat
      /\ r.lastDay \in Int /\ r.lostAt \in Int
  BY Calendar DEF Row
<1>2. /\ Earned(r.lastDay) \in Nat /\ EarnedNext(r.lastDay) \in Nat
      /\ Earned(r.lastDay) <= EarnedNext(r.lastDay)
      /\ Earned(r.lostAt) \in Nat /\ EarnedNext(r.lostAt) \in Nat
      /\ Earned(r.lostAt) <= EarnedNext(r.lostAt)
  <2>1. /\ Earned(r.lastDay) \in Nat /\ EarnedNext(r.lastDay) \in Nat
        /\ Earned(r.lastDay) <= EarnedNext(r.lastDay)
    <3>1. r.lastDay <= r.lastDay
      BY <1>1
    <3>2. QED
      BY <1>1, <3>1, EarnedGrows
  <2>2. /\ Earned(r.lostAt) \in Nat /\ EarnedNext(r.lostAt) \in Nat
        /\ Earned(r.lostAt) <= EarnedNext(r.lostAt)
    <3>1. r.lostAt <= r.lostAt
      BY <1>1
    <3>2. QED
      BY <1>1, <3>1, EarnedGrows
  <2>3. QED
    BY <2>1, <2>2
<1>3. QED
  BY <1>1, <1>2 DEF EarnedRow

\* What a repair reads, or forgets, was earned.
LEMMA SeenEarned ==
  ASSUME StreaksTypeOK, EarnedInv, wrote \subseteq wrote', NEW v \in Users,
         seen'[v] = seen[v] \/ seen'[v] = NewRow \/ seen'[v] = row
  PROVE  EarnedRowNext(seen'[v])
<1>1. row \in Row /\ seen[v] \in Row
  BY DEF StreaksTypeOK
<1>2. CASE seen'[v] = seen[v]
  BY <1>1, <1>2, EarnedRowKept DEF EarnedInv, EarnedRowNext
<1>3. CASE seen'[v] = row
  BY <1>1, <1>3, EarnedRowKept DEF EarnedInv, EarnedRowNext
<1>4. CASE seen'[v] = NewRow
  <2>1. EarnedNext(0) \in Nat
    BY EarnedGrows
  <2>2. QED
    BY <1>4, <2>1, NewRowFields DEF EarnedRowNext
<1>5. QED
  BY <1>2, <1>3, <1>4

\* A step that leaves the streaks of the row alone.
LEMMA EarnedKept ==
  ASSUME StreaksTypeOK, CalendarInv, EarnedInv, wrote' = wrote,
         row'.current = row.current, row'.lastDay = row.lastDay,
         row'.lost = row.lost, row'.lostAt = row.lostAt,
         \A v \in Users :
            /\ \/ seen'[v] = seen[v] \/ seen'[v] = NewRow \/ seen'[v] = row
            /\ \/ doing'[v] = doing[v] /\ on'[v] = on[v]
               \/ doing'[v] = "none"
               \/ on'[v] = day
  PROVE  EarnedInv'
<1>1. EarnedRowNext(row')
  BY DEF EarnedInv, EarnedRow, EarnedRowNext, Earned, EarnedNext, Together
<1>2. ASSUME NEW v \in Users PROVE EarnedRowNext(seen'[v])
  BY <1>2, SeenEarned
<1>3. ASSUME NEW v \in Users, doing'[v] = "message", on'[v] < row'.lastDay
      PROVE  row'.current <= EarnedNext(on'[v])
  <2>1. row.lastDay <= day /\ row.lastDay \in Nat /\ day \in Nat
    BY Calendar DEF CalendarInv, StreaksTypeOK, Days, Row
  <2>2. doing[v] = "message" /\ on'[v] = on[v]
    BY <1>3, <2>1
  <2>3. row.current <= Earned(on[v])
    BY <1>3, <2>2 DEF EarnedInv
  <2>4. QED
    BY <2>2, <2>3 DEF Earned, EarnedNext, Together
<1>4. QED
  BY <1>1, <1>2, <1>3, EarnedPrime

\* A message counts a day once, and only one on which both wrote.
LEMMA EarnedCommit ==
  ASSUME StreaksTypeOK, CalendarInv, EarnedInv, NEW u \in Users, CommitMessage(u)
  PROVE  EarnedInv'
<1> DEFINE c == Marked(u)
<1>1. /\ wrote' = wrote \cup {<<u, on[u]>>} /\ doing[u] = "message"
      /\ doing' = [doing EXCEPT ![u] = "none"] /\ on' = [on EXCEPT ![u] = 0]
      /\ seen' = [seen EXCEPT ![u] = NewRow]
  BY DEF CommitMessage, End, clock
<1>2. /\ c \in Row
      /\ row'.current = c.current /\ row'.lastDay = c.lastDay
      /\ row'.lost = c.lost /\ row'.lostAt = c.lostAt
  BY <1>1, MarkedFields, CelebrateFields DEF CommitMessage, clock
<1>3. /\ row \in Row /\ on[u] \in Days /\ on[u] \in Nat /\ row.current \in Nat
      /\ row.lastDay \in Nat /\ row.lost \in Nat /\ row.lostAt \in Nat
      /\ seen \in [Users -> Row] /\ on \in [Users -> 0..MaxDay]
      /\ doing \in [Users -> {"none", "message", "restore"}]
  <2>1. /\ row \in Row /\ on[u] \in Days
        /\ seen \in [Users -> Row] /\ on \in [Users -> 0..MaxDay]
        /\ doing \in [Users -> {"none", "message", "restore"}]
    BY <1>1 DEF StreaksTypeOK
  <2>2. QED
    BY <2>1, RowNumbers, Calendar DEF Days
<1>4. row.current <= EarnedNext(row.lastDay) /\ row.lost <= EarnedNext(row.lostAt)
  BY <1>1, <1>3, EarnedRowKept DEF EarnedInv
<1>5. ASSUME NEW v \in Users PROVE EarnedRowNext(seen'[v])
  BY <1>1, <1>3, <1>5, SeenEarned
<1>6. \A v \in Users : doing'[v] = "message" =>
          v # u /\ doing[v] = "message" /\ on'[v] = on[v] /\ on[v] \in Int
  BY <1>1, <1>3, Calendar
<1>7. CASE /\ c.current = row.current /\ c.lastDay = row.lastDay
           /\ c.lost = row.lost /\ c.lostAt = row.lostAt
  <2>1. EarnedRowNext(row')
    BY <1>2, <1>4, <1>7 DEF EarnedRowNext
  <2>2. ASSUME NEW v \in Users, doing'[v] = "message", on'[v] < row'.lastDay
        PROVE  row'.current <= EarnedNext(on'[v])
    <3>1. row.current <= Earned(on[v])
      BY <1>2, <1>6, <1>7, <2>2 DEF EarnedInv
    <3>2. Earned(on[v]) \in Nat /\ EarnedNext(on'[v]) \in Nat /\ Earned(on[v]) <= EarnedNext(on'[v])
      BY <1>1, <1>6, <2>2, EarnedGrows
    <3>3. QED
      BY <1>2, <1>3, <1>7, <3>1, <3>2
  <2>3. QED
    BY <1>5, <2>1, <2>2, EarnedPrime
<1>8. CASE /\ \A v \in Users : c.msgDay[v] = on[u]
           /\ c.current = Grow(row, on[u]) /\ c.lastDay = on[u]
           /\ \/ c.lost = row.lost /\ c.lostAt = row.lostAt
              \/ c.lost = row.current /\ c.lostAt = row.lastDay
  <2>1. /\ c.msgDay = [row.msgDay EXCEPT ![u] = on[u]]
        /\ row.msgDay \in [Users -> 0..MaxDay]
    BY <1>1, <1>3, MarkedFields DEF Row
  <2>2. ASSUME NEW v \in Users PROVE <<v, on[u]>> \in wrote'
    <3>1. CASE v = u
      BY <1>1, <3>1
    <3>2. CASE v # u
      <4>1. row.msgDay[v] = on[u] /\ on[u] # 0
        BY <1>3, <1>8, <2>1, <2>2, <3>2 DEF Days
      <4>2. QED
        BY <1>1, <2>2, <4>1 DEF CalendarInv
    <3>3. QED
      BY <3>1, <3>2
  <2>3. on[u] \in Together'
    BY <1>3, <2>2 DEF Together
  <2>4. Grow(row, on[u]) <= EarnedNext(on[u])
    <3>1. /\ Earned(on[u] - 1) \in Nat /\ EarnedNext(on[u]) \in Nat
          /\ Earned(on[u] - 1) + 1 <= EarnedNext(on[u])
      BY <1>1, <1>3, <2>3, EarnedGrows
    <3>2. CASE row.lastDay < on[u]
      <4>1. /\ Earned(row.lastDay) \in Nat
            /\ Earned(row.lastDay) + 1 <= EarnedNext(on[u])
        <5>1. row.lastDay \in Int /\ on[u] \in Int /\ row.lastDay <= on[u]
          BY <1>3, <3>2
        <5>2. QED
          BY <1>1, <2>3, <3>2, <5>1, EarnedGrows
      <4>2. QED
        BY <1>3, <3>1, <3>2, <4>1 DEF Grow, EarnedInv, EarnedRow
    <3>3. CASE row.lastDay = on[u]
      BY <1>3, <1>4, <3>1, <3>3 DEF Grow, Days
    <3>4. CASE row.lastDay > on[u]
      <4>1. row.current <= Earned(on[u])
        BY <1>1, <1>3, <3>4 DEF EarnedInv
      <4>2. Earned(on[u]) \in Nat /\ Earned(on[u]) <= EarnedNext(on[u])
        BY <1>1, <1>3, EarnedGrows
      <4>3. QED
        BY <1>3, <3>1, <3>4, <4>1, <4>2 DEF Grow, Days
    <3>5. QED
      BY <1>3, <3>2, <3>3, <3>4
  <2>5. EarnedRowNext(row')
    BY <1>2, <1>4, <1>8, <2>4 DEF EarnedRowNext
  <2>6. ASSUME NEW v \in Users, doing'[v] = "message" PROVE ~(on'[v] < row'.lastDay)
    <3>1. row.msgDay[v] = on[u] /\ row.msgDay[v] <= on[v]
      BY <1>6, <1>8, <2>1, <2>6 DEF CalendarInv
    <3>2. QED
      BY <1>2, <1>3, <1>6, <1>8, <2>6, <3>1
  <2>7. QED
    BY <1>5, <2>5, <2>6, EarnedPrime
<1>9. QED
  BY <1>1, <1>7, <1>8, MarkedFields

\* A repair gives back what was earned before yesterday.
LEMMA EarnedRestore ==
  ASSUME StreaksTypeOK, CalendarInv, EarnedInv, NEW u \in Users, Restore(u)
  PROVE  EarnedInv'
<1>1. /\ wrote' = wrote /\ doing[u] = "restore"
      /\ doing' = [doing EXCEPT ![u] = "none"] /\ on' = [on EXCEPT ![u] = 0]
      /\ seen' = [seen EXCEPT ![u] = NewRow]
  BY DEF Restore, End, clock
<1>2. /\ row \in Row /\ seen[u] \in Row /\ on[u] \in Nat /\ day \in Nat
      /\ row.lastDay \in Nat /\ row.current \in Nat
      /\ seen[u].lastDay \in Nat /\ seen[u].lostAt \in Nat
      /\ seen[u].current \in Nat /\ seen[u].lost \in Nat
      /\ seen \in [Users -> Row] /\ on \in [Users -> 0..MaxDay]
      /\ doing \in [Users -> {"none", "message", "restore"}]
  <2>1. /\ row \in Row /\ day \in Days
        /\ seen \in [Users -> Row] /\ on \in [Users -> 0..MaxDay]
        /\ doing \in [Users -> {"none", "message", "restore"}]
    BY DEF StreaksTypeOK
  <2>2. seen[u] \in Row /\ on[u] \in Nat /\ day \in Nat
    BY <2>1, Calendar DEF Days
  <2>3. QED
    BY <2>1, <2>2, RowNumbers
<1>3. on[u] <= day /\ day - 1 <= on[u]
  BY <1>1 DEF CalendarInv
<1>4. ASSUME NEW v \in Users PROVE EarnedRowNext(seen'[v])
  BY <1>1, <1>2, <1>4, SeenEarned
<1>5. seen[u].current <= EarnedNext(seen[u].lastDay) /\ seen[u].lost <= EarnedNext(seen[u].lostAt)
  BY <1>1, <1>2, EarnedRowKept DEF EarnedInv
<1>6. ASSUME NEW v \in Users, doing'[v] = "message"
      PROVE  /\ doing[v] = "message" /\ on'[v] = on[v] /\ on[v] \in Int
             /\ day - 1 <= on[v]
  <2>1. v # u /\ doing[v] = "message" /\ on'[v] = on[v] /\ on[v] \in Int
    BY <1>1, <1>2, <1>6, Calendar
  <2>2. day - 1 <= on[v]
    BY <2>1 DEF CalendarInv
  <2>3. QED
    BY <2>1, <2>2
<1>7. ASSUME NEW k \in Int, k <= day - 2, row'.current <= Earned(k), row'.current \in Nat,
             NEW e \in Int, day - 1 <= e
      PROVE  row'.current <= EarnedNext(e)
  <2>1. k <= e /\ wrote \subseteq wrote'
    BY <1>1, <1>2, <1>7
  <2>2. Earned(k) \in Nat /\ EarnedNext(e) \in Nat /\ Earned(k) <= EarnedNext(e)
    BY <1>7, <2>1, EarnedGrows
  <2>3. QED
    BY <1>7, <2>2
<1>8. CASE /\ row'.lost = 0 /\ row'.lostAt = 0 /\ row'.lastDay = on[u]
           /\ \/ row'.current = seen[u].lost /\ seen[u].lost # 0
              \/ row'.current = seen[u].current /\ on[u] - seen[u].lastDay > 1
  <2>1. \E k \in Int : k <= day - 2 /\ row'.current <= Earned(k)
    <3>0. seen[u].lost <= Earned(seen[u].lostAt) /\ seen[u].current <= Earned(seen[u].lastDay)
      BY DEF EarnedInv, EarnedRow
    <3>1. CASE row'.current = seen[u].lost /\ seen[u].lost # 0
      <4>1. seen[u].lostAt <= day - 2
        BY <3>1 DEF CalendarInv, LossIsOld
      <4>2. QED
        BY <1>2, <3>0, <3>1, <4>1
    <3>2. CASE row'.current = seen[u].current /\ on[u] - seen[u].lastDay > 1
      <4>1. seen[u].lastDay <= day - 2
        BY <1>2, <1>3, <3>2
      <4>2. QED
        BY <1>2, <3>0, <3>2, <4>1
    <3>3. QED
      BY <1>8, <3>1, <3>2
  <2>2. row'.current \in Nat
    BY <1>2, <1>8
  <2>3. \A e \in Int : day - 1 <= e => row'.current <= EarnedNext(e)
    BY <1>7, <2>1, <2>2
  <2>4. row'.current <= EarnedNext(on[u]) /\ EarnedNext(0) \in Nat
    <3>1. on[u] \in Int /\ day - 1 <= on[u]
      BY <1>2, <1>3
    <3>2. EarnedNext(0) \in Nat
      BY <1>1, EarnedGrows
    <3>3. QED
      BY <2>3, <3>1, <3>2
  <2>5. EarnedRowNext(row')
    BY <1>8, <2>4 DEF EarnedRowNext
  <2>6. QED
    BY <1>4, <1>6, <2>3, <2>5, EarnedPrime
<1>9. CASE /\ row'.current = 0 /\ row'.lastDay = row.lastDay
           /\ row'.lost = seen[u].current /\ row'.lostAt = seen[u].lastDay
  <2>1. \A e \in Int : EarnedNext(e) \in Nat
    BY <1>1, EarnedGrows
  <2>2. EarnedRowNext(row')
    BY <1>2, <1>5, <1>9, <2>1 DEF EarnedRowNext
  <2>3. QED
    BY <1>4, <1>6, <1>9, <2>1, <2>2, EarnedPrime
<1>10. CASE row' = row
  <2>1. ASSUME NEW v \in Users
        PROVE  /\ seen'[v] = seen[v] \/ seen'[v] = NewRow
               /\ \/ doing'[v] = doing[v] /\ on'[v] = on[v]
                  \/ doing'[v] = "none"
    BY <1>1, <1>2, <2>1
  <2>2. QED
    BY <1>1, <1>10, <2>1, EarnedKept
<1>11. QED
  BY <1>8, <1>9, <1>10, RestoreFields

\* One step of anybody.
LEMMA EarnedStep == StreaksTypeOK /\ CalendarInv /\ EarnedInv /\ [Next]_vars => EarnedInv'
<1> SUFFICES ASSUME StreaksTypeOK, CalendarInv, EarnedInv, [Next]_vars PROVE EarnedInv'
  OBVIOUS
<1>1. /\ row \in Row /\ seen \in [Users -> Row] /\ on \in [Users -> 0..MaxDay] /\ day \in Days
      /\ doing \in [Users -> {"none", "message", "restore"}]
  BY DEF StreaksTypeOK
<1>2. ASSUME NEW u \in Users, BeginMessage(u) \/ ReadRow(u) PROVE EarnedInv'
  BY <1>1, <1>2, EarnedKept DEF BeginMessage, ReadRow, Begin, history, clock
<1>3. ASSUME NEW u \in Users, Abort(u) PROVE EarnedInv'
  BY <1>1, <1>3, EarnedKept DEF Abort, End, history, clock
<1>4. CASE CronAnnounce
  BY <1>4, AnnounceFields, EarnedKept DEF CronAnnounce, clock, EndPass
<1>5. CASE CronList \/ CronFails \/ Restart \/ Noon \/ Midnight \/ UNCHANGED vars
  BY <1>5, EarnedKept DEF CronList, CronFails, Restart, Noon, Midnight, Pass, vars, history, clock, EndPass
<1>6. CASE CronSnapshot
  <2>1. UNCHANGED <<wrote, doing, on, seen>>
    BY <1>6 DEF CronSnapshot, history, clock
  <2>2. CASE row' = row
    BY <2>1, <2>2, EarnedKept
  <2>3. CASE row'.current = 0 /\ row'.lost = row.current /\ row'.lostAt = row.lastDay
    <3>1. \A e \in Int : EarnedNext(e) \in Nat
      BY <2>1, EarnedGrows
    <3>2. row'.lastDay = row.lastDay /\ row.lastDay \in Int /\ row.current <= EarnedNext(row.lastDay)
      BY <1>1, <1>6, <2>1, SnapshotFields, EarnedRowKept, Calendar DEF EarnedInv, Row
    <3>3. EarnedRowNext(row')
      BY <2>3, <3>1, <3>2 DEF EarnedRowNext
    <3>4. ASSUME NEW v \in Users PROVE EarnedRowNext(seen'[v]) /\ EarnedNext(on[v]) \in Nat
      BY <1>1, <2>1, <3>1, <3>4, SeenEarned, Calendar
    <3>5. QED
      BY <2>1, <2>3, <3>3, <3>4, EarnedPrime
  <2>4. QED
    BY <1>6, <2>2, <2>3, SnapshotFields
<1>7. QED
  BY <1>2, <1>3, <1>4, <1>5, <1>6, EarnedCommit, EarnedRestore DEF Next, Cron

\* The initial state.
LEMMA EarnedInit == Init => EarnedInv
<1> SUFFICES ASSUME Init PROVE EarnedInv
  OBVIOUS
<1>1. Together \subseteq Days
  BY DEF Together
<1>2. Earned(0) \in Nat
  BY <1>1, UpToGrows DEF Earned
<1>3. row = NewRow /\ \A u \in Users : seen[u] = NewRow /\ doing[u] = "none"
  BY DEF Init
<1>4. QED
  BY <1>2, <1>3, NewRowFields DEF EarnedInv, EarnedRow

\* A streak is never longer than the days on which both friends wrote, for any
\* calendar, window and quota: repairs that read a stale row and messages that
\* commit after midnight included.
THEOREM StreakIsEarnedHolds == Spec => []StreakIsEarned
<1>1. StreaksTypeOK /\ EarnedInv => StreakIsEarned
  <2> SUFFICES ASSUME StreaksTypeOK, EarnedInv PROVE StreakIsEarned
    OBVIOUS
  <2>1. /\ row.current \in Nat /\ row.lost \in Nat
        /\ row.lastDay \in 0..MaxDay /\ row.lostAt \in 0..MaxDay
    BY DEF StreaksTypeOK, Row
  <2>2. Together \subseteq Days /\ UpTo(Together, MaxDay) = Together
    BY Calendar DEF Together, UpTo, Days
  <2>3. \A d \in 0..MaxDay : /\ Earned(d) \in Nat /\ Cardinality(Together) \in Nat
                             /\ Earned(d) <= Cardinality(Together)
    BY <2>2, UpToGrows, Calendar DEF Earned
  <2>4. QED
    BY <2>1, <2>3 DEF EarnedInv, EarnedRow, StreakIsEarned
<1>2. QED
  BY <1>1, ClockInit, ClockStep, CalendarInit, CalendarStep, EarnedInit, EarnedStep, StreaksTypeCorrect, PTL DEF Spec
------------------------------------------------------------------------------
(***************************************************************************)
(* Announcements.  A repair that read the row while the streak was alive   *)
(* may write the loss of that streak, once more, after the cron or a       *)
(* message wrote and announced it.  It names the same day, because the row *)
(* can only have left that day for one that is too late to be lost yet.    *)
(***************************************************************************)
Repairing(u) == doing[u] = "restore"

\* A repair that began this afternoon.
Fresh(u) == noon /\ u \notin old

\* A repair that will write the loss of the streak it has read.
Late(u) == Repairing(u) /\ IsLate(seen[u], on[u])

\* Two last days are the same, or one is not older than d.
SameRun(a, b, d) == a = b \/ a >= d \/ b >= d

RunsOn(r, d) == Established(r) /\ r.lastDay = d

\* What a repair has read, against the row.
ViewOfRow(u) ==
    Repairing(u) =>
        /\ SameRun(row.lastDay, seen[u].lastDay, day - 1)
        /\ Fresh(u) => SameRun(row.lastDay, seen[u].lastDay, day)
        /\ Late(u) /\ row.lost # 0 => row.lostAt = seen[u].lastDay
        /\ seen[u].lost # 0 /\ row.lost = 0 =>
               row.lastDay >= day - 1 /\ (Fresh(u) => row.lastDay >= day)

\* What two repairs have read.
ViewOfBoth(u, v) ==
    Repairing(u) /\ Repairing(v) =>
        /\ SameRun(seen[u].lastDay, seen[v].lastDay, day - 1)
        /\ Fresh(u) /\ Fresh(v) => SameRun(seen[u].lastDay, seen[v].lastDay, day)
        /\ Late(u) /\ seen[v].lost # 0 => seen[v].lostAt = seen[u].lastDay

ViewInv == \A u \in Users : ViewOfRow(u) /\ \A v \in Users : ViewOfBoth(u, v)

\* The loss of day d was announced and not repaired: the streak does not run
\* from there, and nobody writes that loss with the flag down.
ToldOf(d) ==
    /\ d <= day - 2 /\ ~RunsOn(row, d)
    /\ row.lost # 0 /\ row.lostAt = d => row.notified
    /\ \A u \in Users : Late(u) /\ seen[u].lastDay = d => row.notified

\* The cron's pass has the loss of day d on its list.
Listed(d) == cron.at = "listed" /\ cron.lostAt = d

PostInv ==
    /\ row.lost # 0 => ~RunsOn(row, row.lostAt)
    /\ \A d \in Days : /\ posts[d] = 0 \/ (posts[d] = 1 /\ ToldOf(d))
                       /\ Listed(d) => posts[d] = 0 /\ d <= day - 2 /\ ~RunsOn(row, d)

\* What a message makes of the loss: nothing, or the streak moves to its day,
\* and one that ended there is the loss, to be announced.
LEMMA CommitLoss ==
  ASSUME StreaksTypeOK, NEW u \in Users, CommitMessage(u)
  PROVE  \/ /\ row'.current = row.current /\ row'.lastDay = row.lastDay
            /\ row'.lost = row.lost /\ row'.lostAt = row.lostAt
            /\ row'.notified = row.notified
         \/ /\ row'.lastDay = on[u]
            /\ \/ /\ row'.lost = row.lost /\ row'.lostAt = row.lostAt
                  /\ row'.notified = row.notified
               \/ /\ RunsOn(row, row.lastDay) /\ on[u] - row.lastDay > 1
                  /\ row'.lostAt = row.lastDay
<1> DEFINE r == [row EXCEPT !.msgDay = [@ EXCEPT ![u] = on[u]]]
           c == Count(r, on[u])
           ended == Established(r) /\ on[u] - r.lastDay > 1
           base == IF ended THEN [Lose(r) EXCEPT !.notified = FALSE] ELSE r
<1>1. /\ r \in Row /\ r.current = row.current /\ r.lastDay = row.lastDay
      /\ r.lost = row.lost /\ r.lostAt = row.lostAt /\ r.notified = row.notified
  <2>1. row \in Row /\ on[u] \in 0..MaxDay
    BY DEF StreaksTypeOK
  <2>2. QED
    BY <2>1 DEF Row
<1>2. c \in Row /\ row' = Celebrate(c) /\ on[u] \in 0..MaxDay
  BY <1>1, CountType DEF CommitMessage, Marked, clock, StreaksTypeOK
<1>3. /\ row'.current = c.current /\ row'.lastDay = c.lastDay
      /\ row'.lost = c.lost /\ row'.lostAt = c.lostAt /\ row'.notified = c.notified
  BY <1>2 DEF Celebrate, Row
<1>4. /\ base \in Row
      /\ \/ base.lost = r.lost /\ base.lostAt = r.lostAt /\ base.notified = r.notified
         \/ ended /\ base.lostAt = r.lastDay
  BY <1>1 DEF Lose, Row
<1>5. CASE \A v \in Users : r.msgDay[v] = on[u]
  <2>1. c = [base EXCEPT !.current = Grow(r, on[u]), !.lastDay = on[u]]
    BY <1>5 DEF Count
  <2>2. ended => RunsOn(row, row.lastDay) /\ on[u] - row.lastDay > 1
    BY <1>1 DEF RunsOn, Established
  <2> HIDE DEF base, ended, r, c
  <2>3. /\ c.lastDay = on[u] /\ c.lost = base.lost /\ c.lostAt = base.lostAt
        /\ c.notified = base.notified
    BY <1>4, <2>1 DEF Row
  <2>4. QED
    BY <1>1, <1>3, <1>4, <2>2, <2>3
<1>6. CASE ~ \A v \in Users : r.msgDay[v] = on[u]
  <2>1. c = r
    BY <1>6 DEF Count
  <2> HIDE DEF r, c
  <2>2. QED
    BY <1>1, <1>3, <2>1
<1>7. QED
  BY <1>5, <1>6

\* What a repair makes of it: nothing, the loss of the streak that was read, or
\* no loss at all, and then the repaired one is to be announced when it recurs.
LEMMA RestoreLoss ==
  ASSUME StreaksTypeOK, NEW u \in Users, Restore(u)
  PROVE  \/ row' = row /\ posts' = posts
         \/ /\ Late(u) /\ row'.current = 0 /\ row'.lastDay = row.lastDay
            /\ row'.lost # 0 /\ row'.lostAt = seen[u].lastDay
            /\ row'.notified = row.notified /\ posts' = posts
         \/ /\ row'.lastDay = on[u] /\ row'.lost = 0
            /\ \/ Late(u) /\ posts' = [posts EXCEPT ![seen[u].lastDay] = 0]
               \/ seen[u].lost # 0 /\ posts' = [posts EXCEPT ![seen[u].lostAt] = 0]
<1> DEFINE late == IsLate(seen[u], on[u])
<1>1. /\ row \in Row /\ seen[u] \in Row /\ on[u] \in Nat /\ Repairing(u)
      /\ Judged(u) \in Row /\ Base(u) \in Row
  BY RepairType, Calendar DEF Restore, Repairing, StreaksTypeOK
<1>2. CASE late
  <2>1. /\ Judged(u).lostAt = seen[u].lastDay /\ seen[u].current # 0
        /\ Base(u) = [row EXCEPT !.lost = seen[u].current, !.lostAt = seen[u].lastDay,
                                 !.current = 0]
    BY <1>1, <1>2 DEF Judged, Base, Lose, IsLate, Established, Row
  <2>2. Late(u)
    BY <1>1, <1>2 DEF Late
  <2>3. CASE Restorable(Judged(u), on[u])
    <3>1. /\ row' = Repaired(Base(u), Judged(u), on[u])
          /\ posts' = [posts EXCEPT ![Judged(u).lostAt] = 0]
      BY <2>3 DEF Restore
    <3>2. row'.lastDay = on[u] /\ row'.lost = 0
      BY <1>1, <3>1, RepairedFields DEF StreaksTypeOK
    <3>3. QED
      BY <2>1, <2>2, <3>1, <3>2
  <2>4. CASE ~ Restorable(Judged(u), on[u])
    <3>1. row' = Base(u) /\ posts' = posts
      BY <2>4 DEF Restore
    <3>2. seen[u].current \in Nat /\ seen[u].lastDay \in 0..MaxDay
      BY <1>1 DEF Row
    <3>3. /\ row'.current = 0 /\ row'.lastDay = row.lastDay /\ row'.notified = row.notified
          /\ row'.lost = seen[u].current /\ row'.lostAt = seen[u].lastDay
      BY <1>1, <2>1, <3>1, <3>2, LateFields
    <3>4. QED
      BY <2>1, <2>2, <3>1, <3>3
  <2>5. QED
    BY <2>3, <2>4
<1>3. CASE ~ late
  <2>1. Judged(u) = seen[u] /\ Base(u) = row
    BY <1>3 DEF Judged, Base
  <2>2. CASE Restorable(Judged(u), on[u])
    <3>1. seen[u].lost # 0
      BY <1>1, <2>1, <2>2 DEF Restorable, Row
    <3>2. /\ row' = Repaired(row, seen[u], on[u])
          /\ posts' = [posts EXCEPT ![seen[u].lostAt] = 0]
      BY <2>1, <2>2 DEF Restore
    <3>3. row'.lastDay = on[u] /\ row'.lost = 0
      BY <1>1, <3>2, RepairedFields DEF StreaksTypeOK
    <3>4. QED
      BY <3>1, <3>2, <3>3
  <2>3. CASE ~ Restorable(Judged(u), on[u])
    BY <2>1, <2>3 DEF Restore
  <2>4. QED
    BY <2>2, <2>3
<1>4. QED
  BY <1>2, <1>3

\* A repair that is still under way has read what it had.
Carried(v) ==
    Repairing(v)' => /\ Repairing(v) /\ seen'[v] = seen[v] /\ on'[v] = on[v]
                     /\ v \notin old' => v \notin old

\* What a repair goes by, in numbers.
LEMMA ViewNumbers ==
  ASSUME StreaksTypeOK, CalendarInv, NEW u \in Users, Repairing(u)
  PROVE  /\ day \in Nat /\ on[u] \in Nat /\ day - 1 <= on[u] /\ on[u] <= day
         /\ row.lastDay \in Nat /\ row.lost \in Nat /\ row.lostAt \in Nat
         /\ seen[u].lastDay \in Nat /\ seen[u].lost \in Nat /\ seen[u].lostAt \in Nat
         /\ Late(u) => seen[u].lost = 0 /\ seen[u].lastDay <= day - 2
                       /\ RunsOn(seen[u], seen[u].lastDay)
<1>1. row \in Row /\ seen[u] \in Row /\ day \in Nat /\ on[u] \in Nat
  BY Calendar DEF StreaksTypeOK, Days
<1>2. day - 1 <= on[u] /\ on[u] <= day
  BY DEF CalendarInv, Repairing
<1>3. QED
  BY <1>1, <1>2, RowNumbers DEF Late, IsLate, RunsOn

\* Two repairs that will write the loss of the streak they have read have read
\* the same one.
LEMMA LateAgree ==
  ASSUME StreaksTypeOK, CalendarInv, ViewInv, NEW u \in Users, NEW v \in Users,
         Late(u), Late(v)
  PROVE  seen[u].lastDay = seen[v].lastDay
<1>1. Repairing(u) /\ Repairing(v)
  BY DEF Late
<1>2. SameRun(seen[u].lastDay, seen[v].lastDay, day - 1)
  BY <1>1 DEF ViewInv, ViewOfBoth
<1>3. QED
  BY <1>1, <1>2, ViewNumbers DEF SameRun

\* The repairs carried on, against a row that kept its streak and its loss, moved
\* to today or yesterday, or took the loss of the streak that had ended.
LEMMA ViewKept ==
  ASSUME StreaksTypeOK, CalendarInv, ViewInv, UNCHANGED clock, \A v \in Users : Carried(v),
         \/ /\ row'.lastDay = row.lastDay
            /\ row'.lost = row.lost /\ row'.lostAt = row.lostAt
         \/ /\ row'.lastDay \in Nat /\ row'.lastDay >= day - 1 /\ (noon => row'.lastDay >= day)
            /\ \/ row'.lost = 0
               \/ row'.lost = row.lost /\ row'.lostAt = row.lostAt
               \/ row'.lostAt = row.lastDay /\ row.lastDay <= day - 2
         \/ /\ row'.lastDay = row.lastDay /\ row'.lost # 0
            /\ \/ row'.lostAt = row.lastDay /\ row.lastDay <= day - 2
               \/ \E v \in Users : Late(v) /\ row'.lostAt = seen[v].lastDay
  PROVE  ViewInv'
<1>1. day' = day /\ noon' = noon
  BY DEF clock
<1>2. ASSUME NEW u \in Users, Repairing(u)'
      PROVE  /\ Repairing(u) /\ seen'[u] = seen[u] /\ on'[u] = on[u]
             /\ Fresh(u)' => Fresh(u)
             /\ Late(u)' <=> Late(u)
  BY <1>1, <1>2 DEF Carried, Fresh, Late
<1>3. ASSUME NEW u \in Users, NEW v \in Users PROVE ViewOfBoth(u, v)'
  <2> SUFFICES ASSUME Repairing(u)', Repairing(v)' PROVE ViewOfBoth(u, v)'
    BY DEF ViewOfBoth
  <2>1. ViewOfBoth(u, v)
    BY DEF ViewInv
  <2>2. QED
    BY <1>1, <1>2, <2>1 DEF ViewOfBoth
<1>4. ASSUME NEW u \in Users PROVE ViewOfRow(u)'
  <2> SUFFICES ASSUME Repairing(u)' PROVE ViewOfRow(u)'
    BY DEF ViewOfRow
  <2>1. /\ Repairing(u) /\ seen'[u] = seen[u] /\ on'[u] = on[u]
        /\ Fresh(u)' => Fresh(u)
        /\ Late(u)' <=> Late(u)
    BY <1>2
  <2>2. ViewOfRow(u)
    BY DEF ViewInv
  <2>3. /\ day \in Nat
        /\ row.lastDay \in Nat /\ row.lost \in Nat /\ row.lostAt \in Nat
        /\ seen[u].lastDay \in Nat /\ seen[u].lost \in Nat /\ seen[u].lostAt \in Nat
        /\ Late(u) => seen[u].lastDay <= day - 2
    BY <2>1, ViewNumbers
  <2>4. CASE /\ row'.lastDay = row.lastDay
             /\ row'.lost = row.lost /\ row'.lostAt = row.lostAt
    BY <1>1, <2>1, <2>2, <2>4 DEF ViewOfRow
  <2>5. CASE /\ row'.lastDay \in Nat /\ row'.lastDay >= day - 1 /\ (noon => row'.lastDay >= day)
             /\ \/ row'.lost = 0
                \/ row'.lost = row.lost /\ row'.lostAt = row.lostAt
                \/ row'.lostAt = row.lastDay /\ row.lastDay <= day - 2
    <3>1. Late(u) /\ row'.lost # 0 => row'.lostAt = seen[u].lastDay
      BY <2>1, <2>2, <2>3, <2>5 DEF ViewOfRow, SameRun
    <3>2. Fresh(u) => row'.lastDay >= day
      BY <2>5 DEF Fresh
    <3>3. QED
      BY <1>1, <2>1, <2>5, <3>1, <3>2 DEF ViewOfRow, SameRun
  <2>6. CASE /\ row'.lastDay = row.lastDay /\ row'.lost # 0
             /\ \/ row'.lostAt = row.lastDay /\ row.lastDay <= day - 2
                \/ \E v \in Users : Late(v) /\ row'.lostAt = seen[v].lastDay
    <3>1. Late(u) => row'.lostAt = seen[u].lastDay
      BY <2>1, <2>2, <2>3, <2>6, LateAgree DEF ViewOfRow, SameRun
    <3>2. QED
      BY <1>1, <2>1, <2>2, <2>6, <3>1 DEF ViewOfRow
  <2>7. QED
    BY <2>4, <2>5, <2>6
<1>5. QED
  BY <1>3, <1>4 DEF ViewInv

\* Where a message, a repair and the cron's snapshot may take the row.
LEMMA MovesToday ==
  ASSUME StreaksTypeOK, ClockInv, CalendarInv, NEW u \in Users, doing[u] # "none"
  PROVE  /\ on[u] \in Nat /\ day \in Nat /\ row.lastDay \in Nat
         /\ on[u] >= day - 1 /\ (noon => on[u] >= day) /\ on[u] <= day
<1>1. day \in Nat /\ on[u] \in Nat /\ row \in Row
  BY Calendar DEF StreaksTypeOK, Days
<1>2. QED
  BY <1>1, RowNumbers DEF ClockInv, CalendarInv

\* The end of a transaction leaves the others what they have read.
LEMMA EndCarries ==
  ASSUME StreaksTypeOK, NEW u \in Users, End(u) PROVE \A v \in Users : Carried(v)
BY DEF End, Carried, Repairing, StreaksTypeOK

\* A repair that begins has read the row.
LEMMA ViewRead ==
  ASSUME StreaksTypeOK, CalendarInv, ViewInv, NEW u \in Users, ReadRow(u)
  PROVE  ViewInv'
<1>1. /\ day' = day /\ noon' = noon /\ row' = row /\ old' = old /\ day \in Nat
      /\ Repairing(u)' /\ on'[u] = day /\ seen'[u] = row
      /\ \A v \in Users \ {u} : /\ Repairing(v)' <=> Repairing(v)
                                /\ seen'[v] = seen[v] /\ on'[v] = on[v]
  BY Calendar DEF ReadRow, Begin, Repairing, clock, StreaksTypeOK, Days
<1>2. row \in Row /\ row.lastDay \in Nat /\ row.lost \in Nat /\ row.lostAt \in Nat
  BY RowNumbers DEF StreaksTypeOK
<1>3. Late(u)' => row.lost = 0 /\ row.lastDay <= day - 2
  BY <1>1, <1>2 DEF Late, IsLate
<1>4. ASSUME NEW v \in Users, v # u, Repairing(v)'
      PROVE  /\ Repairing(v) /\ seen'[v] = seen[v] /\ (Fresh(v)' <=> Fresh(v))
             /\ Late(v)' <=> Late(v)
             /\ ViewOfRow(v)
  BY <1>1, <1>4 DEF Fresh, Late, ViewInv
<1>5. ASSUME NEW v \in Users PROVE ViewOfRow(v)'
  <2>1. CASE v = u
    BY <1>1, <1>2, <1>3, <2>1 DEF ViewOfRow, SameRun
  <2>2. CASE v # u
    BY <1>1, <1>4, <2>2 DEF ViewOfRow
  <2>3. QED
    BY <2>1, <2>2
<1>6. ASSUME NEW v \in Users, NEW w \in Users PROVE ViewOfBoth(v, w)'
  <2> SUFFICES ASSUME Repairing(v)', Repairing(w)' PROVE ViewOfBoth(v, w)'
    BY DEF ViewOfBoth
  <2>1. CASE v = u /\ w = u
    BY <1>1, <1>2, <1>3, <2>1 DEF ViewOfBoth, SameRun
  <2>2. CASE v = u /\ w # u
    <3>1. Late(u)' => seen[w].lost = 0
      <4>1. Repairing(w) /\ seen[w].lost \in Nat
        BY <1>4, <2>2, ViewNumbers
      <4>2. QED
        BY <1>1, <1>2, <1>3, <1>4, <2>2, <4>1 DEF ViewOfRow
    <3>2. QED
      BY <1>1, <1>4, <2>2, <3>1 DEF ViewOfBoth, ViewOfRow
  <2>3. CASE v # u /\ w = u
    BY <1>1, <1>4, <2>3 DEF ViewOfBoth, ViewOfRow, SameRun
  <2>4. CASE v # u /\ w # u
    <3>1. ViewOfBoth(v, w)
      BY DEF ViewInv
    <3>2. QED
      BY <1>1, <1>4, <2>4, <3>1 DEF ViewOfBoth
  <2>5. QED
    BY <2>1, <2>2, <2>3, <2>4
<1>7. QED
  BY <1>5, <1>6 DEF ViewInv

\* Noon and midnight pass over no repair that began before the last one.
LEMMA ViewPass ==
  ASSUME StreaksTypeOK, CalendarInv, ViewInv, Noon \/ Midnight
  PROVE  ViewInv'
<1>1. /\ UNCHANGED <<row, doing, on, seen>> /\ old = {}
      /\ \A v \in Users : Repairing(v) => v \in old'
      /\ day \in Nat
  BY Calendar DEF Noon, Midnight, Pass, Repairing, StreaksTypeOK, Days
<1>2. \A v \in Users : /\ Repairing(v)' <=> Repairing(v)
                       /\ Late(v)' <=> Late(v)
                       /\ Repairing(v) => ~Fresh(v)'
  BY <1>1 DEF Repairing, Late, Fresh
<1>3. ASSUME NEW v \in Users, Repairing(v)
      PROVE  row.lastDay \in Nat /\ seen[v].lastDay \in Nat
  BY <1>3, ViewNumbers
<1>4. CASE Noon
  <2>1. day' = day
    BY <1>4 DEF Noon
  <2>2. ASSUME NEW v \in Users PROVE ViewOfRow(v)'
    BY <1>1, <1>2, <2>1 DEF ViewInv, ViewOfRow
  <2>3. ASSUME NEW v \in Users, NEW w \in Users PROVE ViewOfBoth(v, w)'
    <3>1. ViewOfBoth(v, w)
      BY DEF ViewInv
    <3>2. QED
      BY <1>1, <1>2, <2>1, <3>1 DEF ViewOfBoth
  <2>4. QED
    BY <2>2, <2>3 DEF ViewInv
<1>5. CASE Midnight
  <2>1. day' = day + 1 /\ noon
    BY <1>5 DEF Midnight
  <2>2. \A v \in Users : Fresh(v)
    BY <1>1, <2>1 DEF Fresh
  <2>3. ASSUME NEW v \in Users PROVE ViewOfRow(v)'
    <3> SUFFICES ASSUME Repairing(v) PROVE ViewOfRow(v)'
      BY <1>2 DEF ViewOfRow
    <3>1. ViewOfRow(v)
      BY DEF ViewInv
    <3>2. QED
      BY <1>1, <1>2, <1>3, <2>1, <2>2, <3>1 DEF ViewOfRow, SameRun
  <2>4. ASSUME NEW v \in Users, NEW w \in Users PROVE ViewOfBoth(v, w)'
    <3> SUFFICES ASSUME Repairing(v), Repairing(w) PROVE ViewOfBoth(v, w)'
      BY <1>2 DEF ViewOfBoth
    <3>1. ViewOfBoth(v, w)
      BY DEF ViewInv
    <3>2. QED
      BY <1>1, <1>2, <1>3, <2>1, <2>2, <3>1 DEF ViewOfBoth, SameRun
  <2>5. QED
    BY <2>3, <2>4 DEF ViewInv
<1>6. QED
  BY <1>4, <1>5

\* One step of anybody.
LEMMA ViewStep == StreaksTypeOK /\ ClockInv /\ CalendarInv /\ ViewInv /\ [Next]_vars => ViewInv'
<1> SUFFICES ASSUME StreaksTypeOK, ClockInv, CalendarInv, ViewInv, [Next]_vars PROVE ViewInv'
  OBVIOUS
<1>1. ASSUME NEW u \in Users, BeginMessage(u) PROVE ViewInv'
  <2>1. UNCHANGED clock /\ row' = row /\ \A v \in Users : Carried(v)
    BY <1>1 DEF BeginMessage, Begin, Carried, Repairing, StreaksTypeOK
  <2>2. QED
    BY <2>1, ViewKept
<1>2. ASSUME NEW u \in Users, CommitMessage(u) PROVE ViewInv'
  <2>1. UNCHANGED clock /\ End(u) /\ doing[u] # "none"
    BY <1>2 DEF CommitMessage
  <2>2. /\ on[u] \in Nat /\ on[u] >= day - 1 /\ (noon => on[u] >= day)
        /\ on[u] - row.lastDay > 1 => row.lastDay <= day - 2
    BY <2>1, MovesToday
  <2>3. QED
    BY <1>2, <2>1, <2>2, CommitLoss, EndCarries, ViewKept
<1>3. ASSUME NEW u \in Users, Restore(u) PROVE ViewInv'
  <2>1. UNCHANGED clock /\ End(u) /\ doing[u] # "none"
    BY <1>3 DEF Restore
  <2>2. on[u] \in Nat /\ on[u] >= day - 1 /\ (noon => on[u] >= day)
    BY <2>1, MovesToday
  <2>3. QED
    BY <1>3, <2>1, <2>2, RestoreLoss, EndCarries, ViewKept
<1>4. ASSUME NEW u \in Users, Abort(u) PROVE ViewInv'
  BY <1>4, EndCarries, ViewKept DEF Abort
<1>5. CASE CronSnapshot
  <2>1. UNCHANGED clock /\ \A v \in Users : Carried(v)
    BY <1>5 DEF CronSnapshot, Carried, Repairing
  <2>2. \/ row' = row
        \/ /\ row'.lastDay = row.lastDay /\ row'.lost # 0
           /\ row'.lostAt = row.lastDay /\ row.lastDay <= day - 2
    BY <1>5, Calendar DEF CronSnapshot, Lose, Established, StreaksTypeOK, Row, Days
  <2>3. QED
    BY <2>1, <2>2, ViewKept
<1>6. CASE CronAnnounce
  <2>1. UNCHANGED clock /\ \A v \in Users : Carried(v)
    BY <1>6, StreaksAssumption DEF CronAnnounce, EndPass, Carried, Repairing
  <2>2. QED
    BY <1>6, <2>1, AnnounceFields, ViewKept
<1>7. CASE CronList \/ CronFails \/ Restart \/ UNCHANGED vars
  <2>1. UNCHANGED clock /\ row' = row /\ \A v \in Users : Carried(v)
    BY <1>7, StreaksAssumption DEF CronList, CronFails, EndPass, Restart, vars, Carried, Repairing
  <2>2. QED
    BY <2>1, ViewKept
<1>8. QED
  BY <1>1, <1>2, <1>3, <1>4, <1>5, <1>6, <1>7, ViewRead, ViewPass DEF Next, Cron
\* A step under which no loss, flag or message changes.
LEMMA PostKept ==
  ASSUME StreaksTypeOK, PostInv, day' \in Nat, day' >= day, posts' = posts,
         row'.current = row.current, row'.lastDay = row.lastDay,
         row'.lost = row.lost, row'.lostAt = row.lostAt, row'.notified = row.notified,
         \A v \in Users : Late(v)' => Late(v) /\ seen'[v] = seen[v],
         \A d \in Days : Listed(d)' => Listed(d)
  PROVE  PostInv'
<1>1. day \in Nat /\ \A d \in Days : d \in Nat
  BY Calendar DEF StreaksTypeOK, Days
<1>2. \A d : RunsOn(row, d)' <=> RunsOn(row, d)
  BY DEF RunsOn, Established
<1>3. \A d \in Days : ToldOf(d) => ToldOf(d)'
  BY <1>1, <1>2 DEF ToldOf
<1>4. QED
  BY <1>1, <1>2, <1>3 DEF PostInv

\* The end of a transaction makes no repair late and lists nothing.
LEMMA EndLate ==
  ASSUME StreaksTypeOK, NEW u \in Users, End(u), cron' = cron
  PROVE  /\ \A v \in Users : Late(v)' => v # u /\ Late(v) /\ seen'[v] = seen[v]
         /\ \A d \in Days : Listed(d)' => Listed(d)
BY DEF End, Late, Repairing, Listed, StreaksTypeOK

\* A message that counts a day leaves no streak behind that was announced as lost.
LEMMA PostCommit ==
  ASSUME StreaksTypeOK, ClockInv, CalendarInv, ViewInv, PostInv,
         NEW u \in Users, CommitMessage(u)
  PROVE  PostInv'
<1>1. /\ End(u) /\ doing[u] # "none" /\ posts' = posts /\ cron' = cron /\ day' = day
  BY DEF CommitMessage, clock
<1>2. /\ on[u] \in Nat /\ day \in Nat /\ row.lastDay \in Nat /\ on[u] >= day - 1
  BY <1>1, MovesToday
<1>3. /\ \A v \in Users : Late(v)' => Late(v) /\ seen'[v] = seen[v]
      /\ \A d \in Days : Listed(d)' => Listed(d)
  BY <1>1, EndLate
<1>4. CASE /\ row'.current = row.current /\ row'.lastDay = row.lastDay
           /\ row'.lost = row.lost /\ row'.lostAt = row.lostAt
           /\ row'.notified = row.notified
  BY <1>1, <1>2, <1>3, <1>4, PostKept
<1>5. CASE /\ row'.lastDay = on[u]
           /\ \/ /\ row'.lost = row.lost /\ row'.lostAt = row.lostAt
                 /\ row'.notified = row.notified
              \/ /\ RunsOn(row, row.lastDay) /\ on[u] - row.lastDay > 1
                 /\ row'.lostAt = row.lastDay
  <2>1. \A d \in Days : d \in Nat /\ (d <= day - 2 => ~RunsOn(row, d)')
    BY <1>2, <1>5, Calendar DEF RunsOn, Days
  <2>2. row'.lost # 0 => ~RunsOn(row, row.lostAt)'
    <3>1. row.lostAt \in Nat /\ (row.lost # 0 => row.lostAt <= day - 2) /\ on[u] <= day
      BY <1>1, RowNumbers, MovesToday DEF StreaksTypeOK, CalendarInv, LossIsOld
    <3>2. QED
      BY <1>2, <1>5, <3>1 DEF RunsOn
  <2>3. ASSUME NEW d \in Days, ToldOf(d) PROVE ToldOf(d)'
    <3>1. d <= day - 2 /\ ~RunsOn(row, d)
      BY <2>3 DEF ToldOf
    <3>2. row'.lost # 0 /\ row'.lostAt = d => row'.notified
      BY <1>5, <2>3, <3>1 DEF ToldOf
    <3>3. ASSUME NEW v \in Users, Late(v), seen[v].lastDay = d PROVE row'.notified
      <4>1. row.notified
        BY <2>3, <3>3 DEF ToldOf
      <4>2. SameRun(row.lastDay, seen[v].lastDay, day - 1)
        BY <3>3 DEF ViewInv, ViewOfRow, Late
      <4>3. on[u] - row.lastDay > 1 => row.lastDay = d
        BY <1>1, <1>2, <2>1, <3>1, <3>3, <4>2, MovesToday DEF SameRun
      <4>4. QED
        BY <1>5, <3>1, <4>1, <4>3
    <3>4. QED
      BY <1>1, <1>3, <2>1, <3>1, <3>2, <3>3 DEF ToldOf
  <2>4. QED
    BY <1>1, <1>3, <2>1, <2>2, <2>3 DEF PostInv
<1>6. QED
  BY <1>4, <1>5, CommitLoss

\* A repair forgets the announcement of the loss it repairs, and one that is
\* refused writes a loss that has been announced with its flag up.
LEMMA PostRestore ==
  ASSUME StreaksTypeOK, ClockInv, CalendarInv, ViewInv, PostInv,
         NEW u \in Users, Restore(u)
  PROVE  PostInv'
<1>1. /\ End(u) /\ doing[u] # "none" /\ Repairing(u) /\ cron' = cron /\ day' = day
  BY DEF Restore, clock, Repairing
<1>2. /\ on[u] \in Nat /\ day \in Nat /\ row.lastDay \in Nat /\ on[u] >= day - 1
  BY <1>1, MovesToday
<1>3. /\ \A v \in Users : Late(v)' => Late(v) /\ seen'[v] = seen[v]
      /\ \A d \in Days : Listed(d)' => Listed(d)
  BY <1>1, EndLate
<1>4. CASE row' = row /\ posts' = posts
  BY <1>1, <1>2, <1>3, <1>4, PostKept
<1>5. CASE /\ Late(u) /\ row'.current = 0 /\ row'.lastDay = row.lastDay
           /\ row'.lost # 0 /\ row'.lostAt = seen[u].lastDay
           /\ row'.notified = row.notified /\ posts' = posts
  <2>1. \A d : ~RunsOn(row, d)'
    BY <1>5 DEF RunsOn, Established
  <2>2. ASSUME NEW d \in Days, ToldOf(d) PROVE ToldOf(d)'
    BY <1>1, <1>3, <1>5, <2>1, <2>2 DEF ToldOf
  <2>3. QED
    BY <1>1, <1>3, <1>5, <2>1, <2>2 DEF PostInv
<1>6. CASE /\ row'.lastDay = on[u] /\ row'.lost = 0
           /\ \/ Late(u) /\ posts' = [posts EXCEPT ![seen[u].lastDay] = 0]
              \/ seen[u].lost # 0 /\ posts' = [posts EXCEPT ![seen[u].lostAt] = 0]
  <2>1. \A d \in Days : d \in Nat /\ (d <= day - 2 => ~RunsOn(row, d)')
    BY <1>2, <1>6, Calendar DEF RunsOn, Days
  <2>2. PICK l \in Nat :
            /\ posts' = [posts EXCEPT ![l] = 0]
            /\ \A v \in Users : Late(v) => seen[v].lastDay = l
    <3>1. CASE Late(u) /\ posts' = [posts EXCEPT ![seen[u].lastDay] = 0]
      BY <1>1, <3>1, LateAgree, ViewNumbers
    <3>2. CASE seen[u].lost # 0 /\ posts' = [posts EXCEPT ![seen[u].lostAt] = 0]
      BY <1>1, <3>2, ViewNumbers DEF ViewInv, ViewOfBoth, Late
    <3>3. QED
      BY <1>6, <3>1, <3>2
  <2>3. posts \in [Days -> Nat]
    BY DEF StreaksTypeOK
  <2>4. \A d \in Days : posts'[d] = IF d = l THEN 0 ELSE posts[d]
    BY <2>2, <2>3
  <2>5. ASSUME NEW d \in Days, ToldOf(d), d # l PROVE ToldOf(d)'
    BY <1>1, <1>3, <1>6, <2>1, <2>2, <2>5 DEF ToldOf
  <2>6. QED
    BY <1>1, <1>3, <1>6, <2>1, <2>4, <2>5 DEF PostInv
<1>7. QED
  BY <1>4, <1>5, <1>6, RestoreLoss

\* The cron writes the loss of a streak that runs, so one it has not announced.
LEMMA PostSnapshot ==
  ASSUME StreaksTypeOK, PostInv, CronSnapshot
  PROVE  PostInv'
<1>1. /\ day' = day /\ posts' = posts /\ UNCHANGED <<doing, on, seen>>
      /\ cron'.at # "listed" /\ day \in Nat
  BY Calendar DEF CronSnapshot, clock, history, Idle, StreaksTypeOK, Days
<1>2. /\ \A v \in Users : Late(v)' <=> Late(v)
      /\ \A d \in Days : ~Listed(d)'
  BY <1>1 DEF Late, Repairing, Listed
<1>3. CASE row' = row
  BY <1>1, <1>2, <1>3, PostKept
<1>4. CASE row' # row
  <2>1. /\ RunsOn(row, row.lastDay) /\ row'.current = 0 /\ row'.lostAt = row.lastDay
        /\ row'.notified = row.notified
    BY <1>4 DEF CronSnapshot, RunsOn, Lose, StreaksTypeOK, Row
  <2>2. \A d : ~RunsOn(row, d)'
    BY <2>1 DEF RunsOn, Established
  <2>3. ASSUME NEW d \in Days, ToldOf(d) PROVE ToldOf(d)'
    BY <1>1, <1>2, <2>1, <2>2, <2>3 DEF ToldOf
  <2>4. QED
    BY <1>1, <1>2, <2>2, <2>3 DEF PostInv
<1>5. QED
  BY <1>3, <1>4

\* What the cron lists has not been announced.
LEMMA PostList ==
  ASSUME StreaksTypeOK, CalendarInv, PostInv, CronList
  PROVE  PostInv'
<1>1. /\ day' = day /\ posts' = posts /\ UNCHANGED <<row, doing, on, seen>> /\ day \in Nat
  BY Calendar DEF CronList, clock, history, StreaksTypeOK, Days
<1>2. \A v \in Users : Late(v)' <=> Late(v)
  BY <1>1 DEF Late, Repairing
<1>3. ASSUME NEW d \in Days, Listed(d)'
      PROVE  row.lost # 0 /\ ~row.notified /\ row.lostAt = d /\ d <= day - 2
  <2>1. row.lost # 0 /\ ~row.notified /\ row.lostAt = d
    <3>1. Awaits(row)
      BY <1>3 DEF CronList, EndPass, Idle, Listed
    <3>2. row.lost # 0 /\ ~row.notified
      BY <3>1 DEF Awaits, StreaksTypeOK, Row
    <3>3. row.lostAt = d
      BY <1>3, <3>1 DEF CronList, Listed
    <3>4. QED
      BY <3>2, <3>3
  <2>2. QED
    BY <2>1 DEF CalendarInv, LossIsOld
<1>4. \A d \in Days : Listed(d)' => posts[d] = 0 /\ d <= day - 2 /\ ~RunsOn(row, d)
  BY <1>3 DEF PostInv, ToldOf
<1>5. ASSUME NEW d \in Days, ToldOf(d) PROVE ToldOf(d)'
  BY <1>1, <1>2, <1>5 DEF ToldOf
<1>6. QED
  BY <1>1, <1>4, <1>5 DEF PostInv

\* What the cron announces is announced for the first time, and flagged.
LEMMA PostAnnounce ==
  ASSUME StreaksTypeOK, PostInv, CronAnnounce
  PROVE  PostInv'
<1>1. /\ day' = day /\ UNCHANGED <<doing, on, seen>> /\ day \in Nat
      /\ cron.at = "listed" /\ cron'.at = "idle"
  BY Calendar DEF CronAnnounce, clock, EndPass, Idle, StreaksTypeOK, Days
<1>2. /\ \A v \in Users : Late(v)' <=> Late(v)
      /\ \A d \in Days : ~Listed(d)'
  BY <1>1 DEF Late, Repairing, Listed
<1>3. CASE row.notified
  <2>1. row' = row /\ posts' = posts
    BY <1>3 DEF CronAnnounce
  <2>2. QED
    BY <1>1, <1>2, <2>1, PostKept
<1>4. CASE ~row.notified
  <2>1. row' = Announced(row) /\ posts' = [posts EXCEPT ![cron.lostAt] = @ + 1]
    BY <1>4 DEF CronAnnounce
  <2>2. row'.notified
    BY <2>1 DEF Announced, StreaksTypeOK, Row
  <2>3. /\ \A d : RunsOn(row, d)' <=> RunsOn(row, d)
        /\ row'.lost = row.lost /\ row'.lostAt = row.lostAt
    BY AnnounceFields DEF RunsOn, Established
  <2>4. ASSUME NEW d \in Days
        PROVE  posts'[d] = 0 \/ (posts'[d] = 1 /\ d <= day - 2 /\ ~RunsOn(row, d))
    <3>1. posts'[d] = IF d = cron.lostAt THEN posts[d] + 1 ELSE posts[d]
      BY <2>1 DEF StreaksTypeOK
    <3>2. CASE d = cron.lostAt
      <4>1. posts[d] = 0 /\ d <= day - 2 /\ ~RunsOn(row, d)
        BY <1>1, <3>2 DEF PostInv, Listed
      <4>2. QED
        BY <3>1, <3>2, <4>1
    <3>3. CASE d # cron.lostAt
      BY <3>1, <3>3 DEF PostInv, ToldOf
    <3>4. QED
      BY <3>2, <3>3
  <2>5. QED
    BY <1>1, <1>2, <2>2, <2>3, <2>4 DEF PostInv, ToldOf
<1>5. QED
  BY <1>3, <1>4

\* One step of anybody.
LEMMA PostStep ==
  StreaksTypeOK /\ ClockInv /\ CalendarInv /\ ViewInv /\ PostInv /\ [Next]_vars => PostInv'
<1> SUFFICES ASSUME StreaksTypeOK, ClockInv, CalendarInv, ViewInv, PostInv, [Next]_vars
             PROVE  PostInv'
  OBVIOUS
<1>1. day \in Nat
  BY Calendar DEF StreaksTypeOK, Days
<1>2. ASSUME NEW u \in Users, BeginMessage(u) PROVE PostInv'
  <2>1. /\ \A v \in Users : Late(v)' => Late(v) /\ seen'[v] = seen[v]
        /\ \A d \in Days : Listed(d)' => Listed(d)
    BY <1>2 DEF BeginMessage, Begin, Late, Repairing, Listed, StreaksTypeOK
  <2>2. QED
    BY <1>1, <1>2, <2>1, PostKept DEF BeginMessage, clock, history
<1>3. ASSUME NEW u \in Users, ReadRow(u) PROVE PostInv'
  <2>1. /\ UNCHANGED <<day, row, posts, cron>>
        /\ on'[u] = day /\ seen'[u] = row
        /\ \A v \in Users \ {u} : (Late(v)' <=> Late(v)) /\ seen'[v] = seen[v]
    BY <1>3 DEF ReadRow, Begin, Late, Repairing, clock, history, StreaksTypeOK
  <2>2. Late(u)' => RunsOn(row, row.lastDay)
    BY <2>1 DEF Late, IsLate, RunsOn
  <2>3. ASSUME NEW d \in Days, ToldOf(d) PROVE ToldOf(d)'
    BY <2>1, <2>2, <2>3 DEF ToldOf
  <2>4. QED
    BY <2>1, <2>3 DEF PostInv, Listed
<1>4. ASSUME NEW u \in Users, Abort(u) PROVE PostInv'
  BY <1>1, <1>4, EndLate, PostKept DEF Abort, clock, history
<1>5. CASE Noon \/ Midnight \/ CronFails \/ Restart \/ UNCHANGED vars
  <2>1. UNCHANGED <<row, posts>>
    BY <1>5 DEF Noon, Midnight, Pass, CronFails, Restart, vars, history
  <2>2. day' \in Nat /\ day' >= day
    BY <1>1, <1>5 DEF Noon, Midnight, CronFails, Restart, vars, clock
  <2>3. \A v \in Users : Late(v)' => Late(v) /\ seen'[v] = seen[v]
    BY <1>5 DEF Noon, Midnight, Pass, CronFails, Restart, vars, Late, Repairing
  <2>4. \A d \in Days : Listed(d)' => Listed(d)
    BY <1>5 DEF Noon, Midnight, Pass, CronFails, EndPass, Idle, Restart, vars, Listed
  <2>5. QED
    BY <2>1, <2>2, <2>3, <2>4, PostKept
<1>6. QED
  BY <1>2, <1>3, <1>4, <1>5, PostCommit, PostRestore, PostSnapshot, PostList, PostAnnounce
     DEF Next, Cron

\* The initial state.
LEMMA ViewInit == Init => ViewInv /\ PostInv
BY DEF Init, ViewInv, ViewOfRow, ViewOfBoth, Repairing, PostInv, NewRow, Idle, Listed

\* As long as a loss is not repaired it is announced once, for any calendar,
\* window and quota: passes of the cron that list it twice, restarts between the
\* statements, and repairs that write the loss of a streak they read before the
\* cron or a message wrote it.
THEOREM LossAnnouncedOnceHolds == Spec => []LossAnnouncedOnce
<1>1. PostInv => LossAnnouncedOnce
  BY DEF PostInv, LossAnnouncedOnce
<1>2. QED
  BY <1>1, ClockInit, ClockStep, CalendarInit, CalendarStep, ViewInit, ViewStep, PostStep,
     StreaksTypeCorrect, PTL DEF Spec
=============================================================================
