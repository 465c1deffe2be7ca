------------------------------ MODULE BotManager ------------------------------
(***************************************************************************)
(* The AI tutor pool of internal/ws/bot_manager.go.  A bot b stands for    *)
(* one goroutine and for the timer that starts it:                         *)
(*    ticking  armed by SpawnFor, 10 s                                     *)
(*    fired    the timer fired, attemptSpawn has not taken the lock        *)
(*    now      SpawnNow has not taken the lock                             *)
(*    check    counted in activeBots, before InQueue                       *)
(*    wake     before Hub.Wakeup                                           *)
(*    running  runBot: in conversation                                     *)
(* What the bot says is left out: it may take its leave at any time        *)
(* (message cap, quota, AI failure).                                       *)
(***************************************************************************)
EXTENDS Hub, FiniteSets

CONSTANT MaxConcurrent    \* 20 in production; 0 stands for a disabled bot

ASSUME BotAssumption == MaxConcurrent \in Nat /\ IsFiniteSet(Bots)

VARIABLES bot,        \* [Bots -> where the goroutine is]
          user,       \* [Bots -> the session it works for]
          hungUp,     \* [Bots -> BOOLEAN]: a Left waits on the bot's end of the transport
          timers,     \* [Sessions -> bot or None]: the timers map
          spawned,    \* [Sessions -> bot or None]: SpawnNow call not yet returned
          active      \* activeBots

botVars == <<bot, user, hungUp, timers, spawned, active>>

Counted == {"check", "wake", "running"}

BotTypeOK ==
    /\ bot \in [Bots -> {"idle", "ticking", "fired", "now"} \cup Counted]
    /\ user \in [Bots -> Sessions \cup {None}]
    /\ hungUp \in [Bots -> BOOLEAN]
    /\ timers \in [Sessions -> Bots \cup {None}]
    /\ spawned \in [Sessions -> Bots \cup {None}]
    /\ active \in Nat

BotInit ==
    /\ bot = [b \in Bots |-> "idle"]
    /\ user = [b \in Bots |-> None]
    /\ hungUp = [b \in Bots |-> FALSE]
    /\ timers = [s \in Sessions |-> None]
    /\ spawned = [s \in Sessions |-> None]
    /\ active = 0

\* Goroutine b is over, without having been counted.
Drop(b) ==
    /\ bot' = [bot EXCEPT ![b] = "idle"]
    /\ user' = [user EXCEPT ![b] = None]

\* Goroutine b starts at a place of its own for session s.
Start(b, s, place) ==
    /\ bot' = [bot EXCEPT ![b] = place]
    /\ user' = [user EXCEPT ![b] = s]
    /\ hungUp' = [hungUp EXCEPT ![b] = FALSE]

\* Mutant: off by one.
FullLate == active > MaxConcurrent

Full == active >= MaxConcurrent

\* SpawnFor: one timer per session, none when the pool is full.
SpawnFor(s, fresh) ==
    IF timers[s] # None \/ Full
    THEN UNCHANGED botVars
    ELSE \E b \in fresh :
            /\ Start(b, s, "ticking")
            /\ timers' = [timers EXCEPT ![s] = b]
            /\ UNCHANGED <<spawned, active>>

\* Cancel: stops the timer of the map's entry, if it has not fired yet.
CancelTimer(s) ==
    /\ timers' = [timers EXCEPT ![s] = None]
    /\ LET stopped(b) == b = timers[s] /\ bot[b] = "ticking" IN
       /\ bot' = [b \in Bots |-> IF stopped(b) THEN "idle" ELSE bot[b]]
       /\ user' = [b \in Bots |-> IF stopped(b) THEN None ELSE user[b]]
    /\ UNCHANGED <<hungUp, spawned, active>>

\* `go SpawnNow(...)` of the tutor mode.
SpawnNow(s, fresh) ==
    \E b \in fresh :
        /\ Start(b, s, "now")
        /\ spawned' = [spawned EXCEPT ![s] = b]
        /\ UNCHANGED <<timers, active>>

\* A SpawnNow call returns: its caller can read the `spawned` channel.
Returned(b) == spawned' = [s \in Sessions |-> IF spawned[s] = b THEN None ELSE spawned[s]]

\* The user's side of the transport sends a Left to the bot b, nothing if b
\* has closed its end.
HangUp(b) == hungUp' = [hungUp EXCEPT ![b] = bot[b] = "running"]

\* Mutant: the increment is forgotten.
CountNothing(b, place) ==
    /\ bot' = [bot EXCEPT ![b] = place]
    /\ UNCHANGED <<user, active>>

\* activeBots++, under the lock.
Count(b, place) ==
    /\ bot' = [bot EXCEPT ![b] = place]
    /\ active' = active + 1
    /\ UNCHANGED user

Fire(b) ==
    /\ bot[b] = "ticking"
    /\ bot' = [bot EXCEPT ![b] = "fired"]
    /\ UNCHANGED <<user, hungUp, timers, spawned, active, matcherVars, hubVars>>

\* attemptSpawn's critical section: it deletes whatever entry its session has.
AttemptSpawn(b) ==
    /\ bot[b] = "fired"
    /\ timers' = [timers EXCEPT ![user[b]] = None]
    /\ IF Full
       THEN Drop(b) /\ UNCHANGED active
       ELSE Count(b, "check")
    /\ UNCHANGED <<hungUp, spawned, matcherVars, hubVars>>

\* SpawnNow's critical section.
BeginNow(b) ==
    /\ bot[b] = "now"
    /\ IF Full
       THEN Drop(b) /\ Returned(b) /\ UNCHANGED active
       ELSE Count(b, "wake") /\ UNCHANGED spawned
    /\ UNCHANGED <<hungUp, timers, matcherVars, hubVars>>

\* The deferred decrement, on every way out of attemptSpawn and SpawnNow.
Release(b) ==
    /\ Drop(b)
    /\ active' = active - 1
    /\ hungUp' = [hungUp EXCEPT ![b] = FALSE]
    /\ Returned(b)
    /\ UNCHANGED timers

\* attemptSpawn asks whether the session still waits, and leaves it in its queue.
CheckWaiting(b) ==
    /\ bot[b] = "check"
    /\ IF InQueue(user[b])
       THEN bot' = [bot EXCEPT ![b] = "wake"] /\ UNCHANGED <<user, hungUp, timers, spawned, active>>
       ELSE Release(b)
    /\ UNCHANGED <<matcherVars, hubVars>>

\* startBot: wake the session up, give up if it cannot be.
StartBot(b) ==
    /\ bot[b] = "wake"
    /\ IF CanWakeup(user[b])
       THEN /\ Wakeup(user[b], b, None)
            /\ bot' = [bot EXCEPT ![b] = "running"]
            /\ UNCHANGED <<user, hungUp, timers, spawned, active>>
       ELSE Release(b) /\ UNCHANGED hubVars
    /\ UNCHANGED matcherVars

\* runBot returns: Left to the user's end, close, decrement.  `idle` with a
\* session still holding b is that Left in the session's buffer.
EndBot(b) ==
    /\ bot[b] = "running"
    /\ Release(b)
    /\ UNCHANGED <<matcherVars, hubVars>>

BotStep(b) ==
    \/ AttemptSpawn(b) \/ BeginNow(b) \/ CheckWaiting(b) \/ StartBot(b)
=============================================================================
