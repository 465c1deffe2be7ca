----------------------------- MODULE FriendPrompt -----------------------------
(***************************************************************************)
(* Two partners become friends, end to end: the card of                    *)
(* chat/FriendPromptCard.tsx, the two session loops of internal/ws/chat.go *)
(* that exchange the acceptances, and internal/ws/friends.go with          *)
(* internal/friends/pending.go, which store the friendship or, as long as  *)
(* a partner has no account, an entry under a device fingerprint that the  *)
(* next login resolves.  A login may come while the conversation goes on;  *)
(* the session keeps the account it had when it was opened.                *)
(***************************************************************************)
EXTENDS Naturals, Sequences

CONSTANT MaxFails      \* bound: writes to the database that fail

ASSUME FriendPromptAssumption == MaxFails \in Nat

VARIABLES card,      \* [Sides -> friendPrompt of the store]
          friendLink, \* [Sides -> the chat the card opens]
          side,      \* [Sides -> friend variables of the session loop]
          cardRoom,  \* [Sides -> envelopes for its loop]
          wire,      \* [Sides -> an accept sent by its browser is under way]
          cardDown,  \* [Sides -> frames for its browser]
          loggedIn,  \* [Sides -> the browser is logged in]
          stored,    \* the friendship is in the table
          pending,   \* [Sides -> entries under its fingerprint: peer's "uid" or "fp"]
          resolving, \* [Sides -> entries a login has read and not yet cleaned up]
          hand,      \* [Sides -> the entry a login handles, or "adding"]
          burned,    \* history: the write that an entry asked of a login was not done
          fails

friendVars == <<card, friendLink, side, cardRoom, wire, cardDown, loggedIn, stored, pending,
                resolving, hand, burned, fails>>

FriendSides == {"a", "b"}
Peer(u) == IF u = "a" THEN "b" ELSE "a"
Cards == {"null", "shown", "self_accepted", "made", "made_pending", "skipped"}

FriendTypeOK ==
    /\ card \in [FriendSides -> Cards]
    /\ friendLink \in [FriendSides -> {"none", "peer", "another"}]
    /\ side \in [FriendSides -> [user : BOOLEAN, prompted : BOOLEAN,
                                 window : {"no", "open", "over"},
                                 mine : BOOLEAN, peers : BOOLEAN, done : BOOLEAN,
                                 peerGone : BOOLEAN, here : BOOLEAN]]
    /\ loggedIn \in [FriendSides -> BOOLEAN] /\ stored \in BOOLEAN /\ fails \in 0..MaxFails
    /\ pending \in [FriendSides -> SUBSET {"uid", "fp"}]
    /\ resolving \in [FriendSides -> SUBSET {"uid", "fp"}]
    /\ hand \in [FriendSides -> {"none", "uid", "fp", "adding"}] /\ burned \in BOOLEAN

FriendInit ==
    /\ loggedIn \in [FriendSides -> BOOLEAN]
    /\ card = [u \in FriendSides |-> "null"] /\ friendLink = [u \in FriendSides |-> "none"]
    /\ side = [u \in FriendSides |->
                 [user |-> loggedIn[u], prompted |-> FALSE, window |-> "no",
                  mine |-> FALSE, peers |-> FALSE, done |-> FALSE, peerGone |-> FALSE,
                  here |-> TRUE]]
    /\ cardRoom = [u \in FriendSides |-> <<>>] /\ cardDown = cardRoom
    /\ wire = [u \in FriendSides |-> FALSE]
    /\ stored = FALSE /\ pending = [u \in FriendSides |-> {}] /\ resolving = pending
    /\ hand = [u \in FriendSides |-> "none"] /\ burned = FALSE /\ fails = 0

Tell(u, frame) == cardDown' = [cardDown EXCEPT ![u] = Append(@, frame)]
LoginRun == <<resolving, hand, burned>>
Database == <<stored, pending, LoginRun, fails>>
Browser  == <<card, friendLink, loggedIn>>

-----------------------------------------------------------------------------
(* The session loop *)

\* Ten minutes after the match.
PromptTimer(u) ==
    /\ side[u].here /\ side[u].window = "no" /\ ~side[u].prompted
    /\ IF side[u].peerGone
       THEN side' = [side EXCEPT ![u].window = "over"] /\ UNCHANGED cardDown
       ELSE /\ side' = [side EXCEPT ![u].prompted = TRUE, ![u].window = "open"]
            /\ Tell(u, "friend_prompt")
    /\ UNCHANGED <<cardRoom, wire, Browser, Database>>

\* Mutant: the end of the window is told even when it is done.
WindowOverAnyway(u) ==
    /\ side[u].here /\ side[u].window = "open"
    /\ side' = [side EXCEPT ![u].window = "over"]
    /\ Tell(u, "friend_skipped")
    /\ UNCHANGED <<cardRoom, wire, Browser, Database>>

\* A minute later: too late, unless it is done.
WindowOver(u) ==
    /\ side[u].here /\ side[u].window = "open"
    /\ side' = [side EXCEPT ![u].window = "over"]
    /\ IF side[u].done THEN UNCHANGED cardDown ELSE Tell(u, "friend_skipped")
    /\ UNCHANGED <<cardRoom, wire, Browser, Database>>

\* AddPendingFriendship, the entries that are added for the two sessions.
Entries(u) ==
    LET users == {v \in FriendSides : side[v].user}
    IN [v \in FriendSides |-> IF v \in users THEN {}
                              ELSE IF Peer(v) \in users THEN {"uid"} ELSE {"fp"}]

Fails == fails < MaxFails /\ fails' = fails + 1

\* tryMakeFriendsOrPending.  Both sides run it: adding twice adds once.
Made(u, l) ==
    \/ /\ \A v \in FriendSides : side[v].user
       /\ stored' = TRUE
       /\ side' = [side EXCEPT ![u] = [l EXCEPT !.done = TRUE]] /\ Tell(u, "friend_made")
       /\ UNCHANGED <<pending, fails>>
    \/ /\ \E v \in FriendSides : ~side[v].user
       /\ pending' = [v \in FriendSides |-> pending[v] \cup Entries(u)[v]]
       /\ side' = [side EXCEPT ![u] = [l EXCEPT !.done = TRUE]] /\ Tell(u, "made_pending")
       /\ UNCHANGED <<stored, fails>>
    \/ /\ Fails /\ side' = [side EXCEPT ![u] = l]
       /\ \/ UNCHANGED pending
          \/ /\ \A v \in FriendSides : ~side[v].user   \* the second of two entries failed
             /\ pending' = [pending EXCEPT ![u] = @ \cup Entries(u)[u]]
       /\ UNCHANGED <<stored, cardDown>>

Agreed(l) == l.mine /\ l.peers /\ ~l.done

\* The frame friend_accept.
OnAccept(u) ==
    /\ side[u].here /\ wire[u] /\ wire' = [wire EXCEPT ![u] = FALSE]
    /\ LET l == [side[u] EXCEPT !.mine = TRUE]
       IN \/ /\ ~side[u].prompted \/ side[u].done \/ side[u].peerGone \/ side[u].mine
             /\ UNCHANGED <<side, cardRoom, cardDown, stored, pending, fails>>
          \/ /\ side[u].prompted /\ ~side[u].done /\ ~side[u].peerGone /\ ~side[u].mine
             /\ cardRoom' = [cardRoom EXCEPT ![Peer(u)] = Append(@, "accept")]
             /\ IF Agreed(l) THEN Made(u, l)
                ELSE side' = [side EXCEPT ![u] = l]
                     /\ UNCHANGED <<cardDown, stored, pending, fails>>
    /\ UNCHANGED <<Browser, LoginRun>>

\* An envelope of the room.
OnRoom(u) ==
    /\ side[u].here /\ cardRoom[u] # <<>>
    /\ cardRoom' = [cardRoom EXCEPT ![u] = Tail(@)]
    /\ LET l == [side[u] EXCEPT !.peers = TRUE]
       IN \/ /\ Head(cardRoom[u]) = "accept"
             /\ IF Agreed(l) THEN Made(u, l)
                ELSE side' = [side EXCEPT ![u] = l]
                     /\ UNCHANGED <<cardDown, stored, pending, fails>>
          \/ /\ Head(cardRoom[u]) = "left"
             /\ side' = [side EXCEPT ![u].peerGone = TRUE]
             /\ UNCHANGED <<cardDown, stored, pending, fails>>
    /\ UNCHANGED <<wire, Browser, LoginRun>>

LeaveLoop(u) ==
    /\ side[u].here /\ side' = [side EXCEPT ![u].here = FALSE]
    /\ cardRoom' = [cardRoom EXCEPT ![Peer(u)] = Append(@, "left")]
    /\ UNCHANGED <<wire, cardDown, Browser, Database>>

-----------------------------------------------------------------------------
(* The card *)

\* The button of the invitation.
Offered(u) == side[u].here /\ card[u] = "shown"

\* acceptFriend()
AcceptFriend(u) ==
    /\ Offered(u) /\ ~wire[u]
    /\ wire' = [wire EXCEPT ![u] = TRUE]
    /\ card' = [card EXCEPT ![u] = "self_accepted"]
    /\ UNCHANGED <<friendLink, loggedIn, side, cardRoom, cardDown, Database>>

\* onFrame.
OnFriendFrame(u) ==
    /\ side[u].here /\ cardDown[u] # <<>>
    /\ card' = [card EXCEPT ![u] =
         CASE Head(cardDown[u]) = "friend_prompt"  -> "shown"
           [] Head(cardDown[u]) = "friend_made"    -> "made"
           [] Head(cardDown[u]) = "made_pending"   -> "made_pending"
           [] Head(cardDown[u]) = "friend_skipped" -> "skipped"]
    /\ friendLink' = [friendLink EXCEPT
           ![u] = IF Head(cardDown[u]) = "friend_made" THEN "peer" ELSE @]
    /\ cardDown' = [cardDown EXCEPT ![u] = Tail(@)]
    /\ UNCHANGED <<loggedIn, side, cardRoom, wire, Database>>

\* An agreement without friendship: the card offers a login, then waits.
LinkAwaited(u) ==
    side[u].here /\ card[u] = "made_pending" /\ loggedIn[u] /\ friendLink[u] = "none"

\* The newest friend of the list, whoever it is, is shown as the partner.
NewestFriend == IF stored THEN "peer" ELSE "another"

\* Once logged in, the card asks for the list of friends every second.
PollFriends(u) ==
    /\ LinkAwaited(u) /\ friendLink' = [friendLink EXCEPT ![u] = NewestFriend]
    /\ UNCHANGED <<card, loggedIn, side, cardRoom, wire, cardDown, Database>>

-----------------------------------------------------------------------------
(* internal/friends/pending.go *)

\* A login, from the card or later, reads the entries of the fingerprint, and handles
\* them one by one, one call at a time; no call looks at the answer of another.
Login(u) ==
    /\ resolving[u] = {}
    /\ loggedIn' = [loggedIn EXCEPT ![u] = TRUE]
    /\ resolving' = [resolving EXCEPT ![u] = pending[u]]
    /\ ~loggedIn[u] \/ pending[u] # {}
    /\ UNCHANGED <<card, friendLink, side, cardRoom, wire, cardDown, stored, pending, hand,
                   burned, fails>>

Handled(u, entry, next) ==
    /\ hand[u] = "none" /\ entry \in resolving[u]
    /\ hand' = [hand EXCEPT ![u] = next]
    /\ UNCHANGED <<Browser, side, cardRoom, wire, cardDown, resolving>>

\* An entry that names an account becomes a friendship.
Befriend(u) ==
    /\ Handled(u, "uid", "uid")
    /\ \/ stored' = TRUE /\ UNCHANGED <<fails, burned>>
       \/ Fails /\ burned' = TRUE /\ UNCHANGED stored
    /\ UNCHANGED pending

\* Mutant: the partner's entry is taken away, and not replaced.
UnlinkOnly(u) ==
    /\ Handled(u, "fp", "fp")
    /\ \/ pending' = [pending EXCEPT ![Peer(u)] = @ \ {"fp"}] /\ UNCHANGED fails
       \/ Fails /\ UNCHANGED pending
    /\ UNCHANGED <<stored, burned>>

\* One that names a fingerprint is replaced, in the partner's set, by this account: the
\* partner's entry is removed,
Unlink(u) ==
    /\ Handled(u, "fp", "adding")
    /\ \/ pending' = [pending EXCEPT ![Peer(u)] = @ \ {"fp"}] /\ UNCHANGED fails
       \/ Fails /\ UNCHANGED pending
    /\ UNCHANGED <<stored, burned>>

\* then the new one is added.
Relink(u) ==
    /\ hand[u] = "adding" /\ hand' = [hand EXCEPT ![u] = "fp"]
    /\ \/ /\ pending' = [pending EXCEPT ![Peer(u)] = @ \cup {"uid"}]
          /\ UNCHANGED <<fails, burned>>
       \/ Fails /\ burned' = TRUE /\ UNCHANGED pending
    /\ UNCHANGED <<Browser, side, cardRoom, wire, cardDown, resolving, stored>>

\* The entry itself goes last, whatever came of it.
CleanUp(u) ==
    /\ hand[u] \in {"uid", "fp"} /\ hand' = [hand EXCEPT ![u] = "none"]
    /\ resolving' = [resolving EXCEPT ![u] = @ \ {hand[u]}]
    /\ \/ pending' = [pending EXCEPT ![u] = @ \ {hand[u]}] /\ UNCHANGED fails
       \/ Fails /\ UNCHANGED pending
    /\ UNCHANGED <<Browser, side, cardRoom, wire, cardDown, stored, burned>>

\* The gateway stops: the login runs in a goroutine that nothing waits for.
CutLogin(u) ==
    /\ resolving[u] # {}
    /\ resolving' = [resolving EXCEPT ![u] = {}] /\ hand' = [hand EXCEPT ![u] = "none"]
    /\ burned' = (burned \/ hand[u] = "adding")
    /\ UNCHANGED <<Browser, side, cardRoom, wire, cardDown, stored, pending, fails>>

FriendNext == \E u \in FriendSides :
    \/ PromptTimer(u) \/ WindowOver(u) \/ OnAccept(u) \/ OnRoom(u) \/ LeaveLoop(u)
    \/ AcceptFriend(u) \/ OnFriendFrame(u) \/ PollFriends(u) \/ Login(u)
    \/ Befriend(u) \/ Unlink(u) \/ Relink(u) \/ CleanUp(u) \/ CutLogin(u)

FriendSpec == FriendInit /\ [][FriendNext]_friendVars

-----------------------------------------------------------------------------
Delivered == \A u \in FriendSides :
    cardRoom[u] = <<>> /\ cardDown[u] = <<>> /\ ~wire[u] /\ side[u].here

\* Once everything is delivered, and no write failed, the two partners read the same
\* outcome, however their acceptances and the ends of their windows crossed.
FriendsAgree ==
    Delivered /\ fails = 0 => (card["a"] \in {"made", "made_pending"}) <=>
                              (card["b"] \in {"made", "made_pending"})

\* A friendship that was announced is never lost between the steps of logins that cross
\* and of loops that write it again: it is in the table, or under a fingerprint, or a
\* login is about to write it there.  The exception is a login that failed, or was cut,
\* at that very write, since the entries are removed all the same.
MadeIsKept ==
    (\E u \in FriendSides : side[u].done) /\ ~burned =>
      stored \/ \E u \in FriendSides : pending[u] # {} \/ hand[u] = "adding"
=============================================================================
