------------------------------- MODULE Matcher -------------------------------
(***************************************************************************)
(* The matching queues of internal/matcher: one Redis sorted set per       *)
(* (speaks, wants) pair.  A session can only ever be inscribed in its own  *)
(* queue (queueOwn) and looks for a partner in the mirror one              *)
(* (queueTarget), so one set of inscribed sessions stands for all of them. *)
(* Each operation is one Lua script or one command: it is atomic in Redis. *)
(* Which candidate the script pops (lowest score, or closest level) is     *)
(* left open here: any of them may be the one.                             *)
(***************************************************************************)
EXTENDS Naturals

CONSTANTS Sessions,   \* session IDs: a new one for every WebSocket connection
          Langs,      \* language codes
          Speaks,     \* [Sessions -> Langs]: the language a session offers
          Wants,      \* [Sessions -> Langs]: the language it practises
          None        \* "no such value": an empty channel, no peer, no room

\* ValidatePair: the handler refuses a session whose two languages are equal.
ASSUME MatcherAssumption ==
    /\ Speaks \in [Sessions -> Langs]
    /\ Wants \in [Sessions -> Langs]
    /\ \A s \in Sessions : Speaks[s] # Wants[s]
    /\ None \notin Sessions

VARIABLES queue,      \* sessions inscribed in their own queue
          avoided     \* history: the peer an inscribed session told TryMatch to avoid

matcherVars == <<queue, avoided>>

MatcherTypeOK ==
    /\ queue \subseteq Sessions
    /\ avoided \in [Sessions -> Sessions \cup {None}]

MatcherInit ==
    /\ queue = {}
    /\ avoided = [s \in Sessions |-> None]

Mirror(s, c) == Speaks[c] = Wants[s] /\ Wants[c] = Speaks[s]

\* Mutant: the script scans one's own queue.
CandidatesOwn(s, avoid) == {c \in queue : Speaks[c] = Speaks[s] /\ Wants[c] = Wants[s]} \ {avoid}

\* Members of s's target queue once the peer to avoid is set aside.
Candidates(s, avoid) == {c \in queue : Mirror(s, c)} \ {avoid}

\* c's entry is removed (no effect when it is not there).
Withdraw(c) ==
    /\ queue' = queue \ {c}
    /\ avoided' = [avoided EXCEPT ![c] = None]

\* The script found a candidate: it leaves its queue, s is not inscribed.
PopPeer(s, avoid, c) ==
    /\ c \in Candidates(s, avoid)
    /\ Withdraw(c)

\* The script found none: s is inscribed in its own queue.
Inscribe(s, avoid) ==
    /\ Candidates(s, avoid) = {}
    /\ queue' = queue \cup {s}
    /\ avoided' = [avoided EXCEPT ![s] = avoid]

\* Mutant: ZREM on a queue s is not in.
CancelWrongKey(s) == UNCHANGED matcherVars

\* Cancel: ZREM of one's own entry, idempotent.
CancelEntry(s) == Withdraw(s)

InQueue(s) == s \in queue
=============================================================================
