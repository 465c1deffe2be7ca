------------------------------- MODULE Streaks -------------------------------
(***************************************************************************)
(* The streak of one friendship (internal/friends/streaks.go,              *)
(* streak_loss_cron.go): one row of friend_streaks, the transactions that  *)
(* the two friends' messages and repairs run on it, and the loss cron.     *)
(*                                                                         *)
(* PostgreSQL runs at READ COMMITTED.  A message marks its sender's day    *)
(* first, which locks the row until the commit: it is one step, but on the *)
(* day its transaction began (sent_at).  A repair reads the row without a  *)
(* lock and writes later from what it read: two steps.  The cron's         *)
(* statements are steps of their own.  An aborted transaction has no       *)
(* effect.  Each friend has one transaction open at a time.  Day 0 and a   *)
(* lost streak of 0 stand for NULL.                                        *)
(***************************************************************************)
EXTENDS Integers, FiniteSets

CONSTANTS Users,      \* the two friends
          Restorers,  \* those of them who may press the repair button
          MaxDay,     \* bound: the calendar stops there
          MonthLength, \* days per calendar month
          RestoreWindow, RestoreMonthlyQuota,
          Milestones  \* StreakMilestones

ASSUME StreaksAssumption ==
    /\ Cardinality(Users) = 2 /\ "cron" \notin Users /\ Restorers \subseteq Users
    /\ {MaxDay, MonthLength, RestoreWindow, RestoreMonthlyQuota} \subseteq Nat \ {0}
    /\ Milestones \subseteq Nat \ {0} /\ IsFiniteSet(Milestones)

VARIABLES day,        \* today, UTC
          noon,       \* whether noon has passed
          row,        \* the committed row of friend_streaks
          doing,      \* [Users -> open transaction: "none", "message", "restore"]
          on,         \* [Users -> day that transaction takes for today]
          seen,       \* [Users -> what a repair has read]
          cron,       \* the pass of the cron: where it is, the loss it listed
          old,        \* who has a transaction or a pass under way since before the
                      \* last noon or midnight
          wrote,      \* history: <<user, day>> of every stored message
          posts,      \* history: [lost_at -> system_streak_lost messages posted for
                      \* that loss since it was last repaired]
          repairs,    \* history: [month -> successful repairs]
          milestones  \* history: [milestone -> times it was notified]

history == <<wrote, posts, repairs, milestones>>
clock == <<day, noon>>
vars == <<clock, row, doing, on, seen, cron, old, history>>

Days == 1..MaxDay
Month(d) == d \div MonthLength
Months == {Month(d) : d \in 0..MaxDay}

Row == [current : Nat, lastDay : 0..MaxDay, msgDay : [Users -> 0..MaxDay],
        milestone : Nat, lost : Nat, lostAt : 0..MaxDay, notified : BOOLEAN,
        used : Nat, month : Months]

\* The columns' defaults; nothing used, the month does not matter.
NewRow == [current |-> 0, lastDay |-> 0, msgDay |-> [u \in Users |-> 0],
           milestone |-> 0, lost |-> 0, lostAt |-> 0, notified |-> FALSE,
           used |-> 0, month |-> Month(0)]

Idle == [at |-> "idle", lost |-> 0, lostAt |-> 0]

\* Types of the row, of the transactions and of the cron's pass.
StreaksTypeOK ==
    /\ day \in Days /\ noon \in BOOLEAN
    /\ row \in Row
    /\ doing \in [Users -> {"none", "message", "restore"}]
    /\ on \in [Users -> 0..MaxDay]
    /\ \A u \in Users : doing[u] # "none" => on[u] \in Days
    /\ seen \in [Users -> Row]
    /\ cron \in [at : {"idle", "snapshot", "listed"}, lost : Nat, lostAt : 0..MaxDay]
    /\ old \subseteq Users \cup {"cron"}
    /\ wrote \subseteq Users \X Days
    /\ posts \in [Days -> Nat]
    /\ repairs \in [Months -> Nat]
    /\ milestones \in [Milestones -> Nat]

Init ==
    /\ day = 1 /\ noon = FALSE
    /\ row = NewRow
    /\ doing = [u \in Users |-> "none"]
    /\ on = [u \in Users |-> 0]
    /\ seen = [u \in Users |-> NewRow]
    /\ cron = Idle
    /\ old = {}
    /\ wrote = {}
    /\ posts = [d \in Days |-> 0]
    /\ repairs = [m \in Months |-> 0]
    /\ milestones = [m \in Milestones |-> 0]
------------------------------------------------------------------------------
\* A request ends within 3 s and a pass of the cron soon: they see either one
\* noon or one midnight.
Pass ==
    /\ old = {}
    /\ old' = {u \in Users : doing[u] # "none"} \cup
              IF cron.at = "idle" THEN {} ELSE {"cron"}
    /\ UNCHANGED <<row, doing, on, seen, cron, history>>

Noon == ~noon /\ Pass /\ noon' = TRUE /\ day' = day

Midnight == noon /\ day < MaxDay /\ Pass /\ noon' = FALSE /\ day' = day + 1

\* A transaction of u begins, and is over.
Begin(u, what) ==
    /\ doing[u] = "none"
    /\ doing' = [doing EXCEPT ![u] = what]
    /\ on' = [on EXCEPT ![u] = day]

End(u) ==
    /\ doing' = [doing EXCEPT ![u] = "none"]
    /\ on' = [on EXCEPT ![u] = 0]
    /\ seen' = [seen EXCEPT ![u] = NewRow]
    /\ old' = old \ {u}

\* Snapshot of a lost streak for a later repair.
Lose(r) == [r EXCEPT !.lost = r.current, !.lostAt = r.lastDay]

Established(r) == r.current >= 2 /\ r.lastDay # 0

\* Mutant: a day that is already counted counts again.
GrowAgain(r, today) ==
    IF r.lastDay = 0 \/ today - r.lastDay > 1 THEN 1
    ELSE IF today - r.lastDay >= 0 THEN r.current + 1 ELSE r.current

\* current_streak once both have written today.
Grow(r, today) ==
    IF r.lastDay = 0 \/ today - r.lastDay > 1 THEN 1
    ELSE IF today - r.lastDay = 1 THEN r.current + 1 ELSE r.current

\* Step 4 of UpdateStreakOnMessage: a streak of two or more that ends here is
\* snapshot, its announcement is due again.
Count(r, today) ==
    LET ended == Established(r) /\ today - r.lastDay > 1
        base  == IF ended THEN [Lose(r) EXCEPT !.notified = FALSE] ELSE r
    IN  IF \A u \in Users : r.msgDay[u] = today
        THEN [base EXCEPT !.current = Grow(r, today), !.lastDay = today]
        ELSE r

\* Mutant: a milestone is notified again as long as it is the highest.
CrossedAgain(r) == {m \in Milestones : m <= r.current /\ m >= r.milestone}

\* Step 5: milestones reached and not notified yet; the highest is.
Crossed(r) == {m \in Milestones : m <= r.current /\ m > r.milestone}

BeginMessage(u) ==
    /\ Begin(u, "message")
    /\ UNCHANGED <<clock, row, seen, cron, old, history>>

Reached(r) == {m \in Crossed(r) : \A k \in Crossed(r) : k <= m}

Celebrate(r) ==
    [r EXCEPT !.milestone = IF Reached(r) = {} THEN @ ELSE CHOOSE m \in Reached(r) : TRUE]

\* Steps 3 and 4: the sender's day is marked, the streak is counted.
Marked(u) == Count([row EXCEPT !.msgDay = [@ EXCEPT ![u] = on[u]]], on[u])

\* UpdateStreakOnMessage in appendInternal's transaction.
CommitMessage(u) ==
    /\ doing[u] = "message"
    /\ row' = Celebrate(Marked(u))
    /\ milestones' = [m \in Milestones |->
                          milestones[m] + IF m \in Reached(Marked(u)) THEN 1 ELSE 0]
    /\ wrote' = wrote \cup {<<u, on[u]>>}
    /\ End(u)
    /\ UNCHANGED <<clock, cron, posts, repairs>>

\* RestoreStreak reads the row.
ReadRow(u) ==
    /\ u \in Restorers
    /\ Begin(u, "restore")
    /\ seen' = [seen EXCEPT ![u] = row]
    /\ UNCHANGED <<clock, row, cron, old, history>>

Used(r, today) == IF r.month = Month(today) THEN r.used ELSE 0

\* Mutant: the token is given instead of taken.
RepairedForFree(r, s, today) ==
    [r EXCEPT !.current = s.lost, !.lastDay = today, !.lost = 0, !.lostAt = 0,
              !.notified = FALSE, !.used = Used(s, today) - 1, !.month = Month(today)]

\* Step 6: the row r after the repair of what was read in s.
Repaired(r, s, today) ==
    [r EXCEPT !.current = s.lost, !.lastDay = today, !.lost = 0, !.lostAt = 0,
              !.notified = FALSE, !.used = Used(s, today) + 1, !.month = Month(today)]

\* Step 3: a streak that has ended, but in a message's transaction not yet.
IsLate(s, today) == s.lost = 0 /\ Established(s) /\ today - s.lastDay > 1

\* What the repair of u goes by, and the row once the late snapshot is written.
Judged(u) == IF IsLate(seen[u], on[u]) THEN Lose(seen[u]) ELSE seen[u]

Base(u) ==
    IF IsLate(seen[u], on[u])
    THEN [row EXCEPT !.lost = seen[u].current, !.lostAt = seen[u].lastDay, !.current = 0]
    ELSE row

\* Steps 4 and 5.
Restorable(s, today) ==
    /\ s.lost >= 2
    /\ today - s.lostAt <= RestoreWindow
    /\ Used(s, today) < RestoreMonthlyQuota

\* The rest of RestoreStreak and its commit.  A refusal commits the late
\* snapshot too.
Restore(u) ==
    /\ doing[u] = "restore"
    /\ IF Restorable(Judged(u), on[u])
       THEN /\ row' = Repaired(Base(u), Judged(u), on[u])
            /\ repairs' = [repairs EXCEPT ![Month(on[u])] = @ + 1]
            /\ posts' = [posts EXCEPT ![Judged(u).lostAt] = 0]
       ELSE row' = Base(u) /\ UNCHANGED <<repairs, posts>>
    /\ End(u)
    /\ UNCHANGED <<clock, cron, wrote, milestones>>

\* Deadline, lost connection, or the victim of a deadlock: a message locks friends
\* and then the streak, the cron's announcement the streak and then friends.
Abort(u) ==
    /\ doing[u] # "none"
    /\ End(u)
    /\ UNCHANGED <<clock, row, cron, history>>

\* The pass is over.
EndPass == cron' = Idle /\ old' = old \ {"cron"}

\* RunStreakLossOnce, first statement.
CronSnapshot ==
    /\ cron.at = "idle"
    /\ row' = IF Established(row) /\ row.lastDay < day - 1 /\ row.lost = 0
              THEN [Lose(row) EXCEPT !.current = 0] ELSE row
    /\ cron' = [Idle EXCEPT !.at = "snapshot"]
    /\ UNCHANGED <<clock, doing, on, seen, old, history>>

\* A loss that has not been announced.
Awaits(r) == r.lost >= 2 /\ ~r.notified

\* Second statement: the losses to announce.
CronList ==
    /\ cron.at = "snapshot"
    /\ IF Awaits(row)
       THEN /\ cron' = [at |-> "listed", lost |-> row.lost, lostAt |-> row.lostAt]
            /\ old' = old
       ELSE EndPass
    /\ UNCHANGED <<clock, row, doing, on, seen, history>>

\* Mutant: the flag is not set.
KeepFlag(r) == r

Announced(r) == [r EXCEPT !.notified = TRUE]

\* insertStreakLossMessage: only the flag is looked at again, under the lock.
CronAnnounce ==
    /\ cron.at = "listed"
    /\ IF row.notified THEN UNCHANGED <<row, posts>>
       ELSE /\ row' = Announced(row)
            /\ posts' = [posts EXCEPT ![cron.lostAt] = @ + 1]
    /\ EndPass
    /\ UNCHANGED <<clock, doing, on, seen, wrote, repairs, milestones>>

\* A statement of the pass fails: the snapshot is skipped, a listing or an
\* announcement (the victim of a deadlock with a message) waits for the next pass.
CronFails ==
    /\ \/ cron.at = "idle" /\ cron' = [Idle EXCEPT !.at = "snapshot"] /\ old' = old
       \/ cron.at # "idle" /\ EndPass
    /\ UNCHANGED <<clock, row, doing, on, seen, history>>

\* The gateway restarts: open transactions are rolled back, the pass is over.
Restart ==
    /\ doing' = [u \in Users |-> "none"]
    /\ on' = [u \in Users |-> 0]
    /\ seen' = [u \in Users |-> NewRow]
    /\ cron' = Idle
    /\ old' = {}
    /\ UNCHANGED <<clock, row, history>>

Cron == CronSnapshot \/ CronList \/ CronAnnounce \/ CronFails

Next ==
    \/ \E u \in Users :
          BeginMessage(u) \/ CommitMessage(u) \/ ReadRow(u) \/ Restore(u) \/ Abort(u)
    \/ Noon \/ Midnight \/ Cron \/ Restart

Spec == Init /\ [][Next]_vars

\* The cron ticks every 15 minutes, and none of its statements fails for ever.
FairSpec == Spec /\ SF_vars(CronSnapshot) /\ SF_vars(CronList) /\ SF_vars(CronAnnounce)
------------------------------------------------------------------------------
\* Days on which both friends wrote.
Together == {d \in Days : \A u \in Users : <<u, d>> \in wrote}

\* A streak is earned: neither the current one nor the one that can be repaired
\* is longer than the days on which both have written, whatever was lost,
\* repaired twice or committed after midnight.
StreakIsEarned ==
    /\ row.current <= Cardinality(Together)
    /\ row.lost <= Cardinality(Together)

\* As long as a loss is not repaired the friends are told of it once, whatever
\* passes, restarts and concurrent repairs there are (streak_loss_cron.go: flag
\* and message in one transaction "garantit qu'on ne notifie pas deux fois").
LossAnnouncedOnce == \A d \in Days : posts[d] <= 1

\* Each milestone is celebrated once, however often the streak is lost and
\* repaired in between.
MilestonesOnce == \A m \in Milestones : milestones[m] <= 1

(***************************************************************************)
(* What comments of the code promise and the code does not keep.           *)
(***************************************************************************)
\* "3 restaurations / mois / friendship, peu importe lequel des deux les
\* declenche" (streaks.go).
RestoresWithinQuota == \A m \in Months : repairs[m] <= RestoreMonthlyQuota

\* "ligne systeme pour chaque perte non encore notifiee" (streak_loss_cron.go): a
\* pass that looks for losses to announce finds the one in the row if the friends
\* were never told of it.
LossTold ==
    [][CronList /\ row.lost >= 2 /\ posts[row.lostAt] = 0 => cron'.at = "listed"]_vars

\* The cron "materialise la fin d'un streak dans le chat ami": its snapshot leaves
\* no streak of two or more that has ended uncounted among the losses.
EndIsMaterialised ==
    [][CronSnapshot => ~(Established(row') /\ row'.lastDay < day - 1)]_vars
=============================================================================
