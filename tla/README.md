# Jolyne: verification project

Jolyne pairs language learners for anonymous text conversations. A Go gateway
(`src/backend/cmd/gateway`, one process) keeps a WebSocket per user, matches two
users who each speak what the other wants to practise, relays their messages
through Redis pub/sub, fills in with an AI tutor when nobody is there, and keeps
in PostgreSQL what outlives a conversation (friends, streaks, lessons,
subscriptions). A React client (`src/frontend`) drives it and keeps a good deal of
state of its own: reconnecting sockets, optimistic lists, timers, answers that
come late.

This directory holds TLA+ modules translated from that code, TLC runs on small
instances, and theorems checked by TLAPS. Sources below are relative to
`src/backend/internal/` or `src/frontend/src/` unless they start with `src/`.

## 1. Inventory

| component | state | operations | talks to |
|---|---|---|---|
| Matching queues `matcher/` | one Redis sorted set per (speaks, wants), one level hash | TryMatch (Lua: pop or inscribe), Cancel, InQueue | session loop, bot pool |
| Hub `ws/hub.go` | map session -> wakeup channel of one event | Register, Unregister, Lookup, Wakeup (never blocks) | session loops wake each other, bots wake a session |
| Session loop `ws/session.go`, `ws/handler.go` | lastPeer, deferred Cancel, current partner | runSession: search, queue, waiting room, tutor mode, block and quota checks, requeue, dismissWakeup | queues, Hub, bots, conversation |
| Conversation loop `ws/chat.go` | peerGone, tandem and friend handshakes, counters | runChat: relay, Left, arrivals, Next, Report, FriendAccept, tandem | room, toxicity, friends, quota |
| Room transport `ws/room.go`, `ws/local_room.go` | Redis channel; in-process pair of buffers with a bot | openRoom, Send, SendLeft, Close | two conversation loops, or one and a bot |
| Bot pool `ws/bot_manager.go` | timers map, activeBots, bots | SpawnFor, Cancel, attemptSpawn, SpawnNow, startBot, runBot | queues, Hub, Claude, quota |
| Block list `blocking/` | Redis keys reporter -> reported, 30 days | Add, IsBlocked | report, session loop |
| Quota engine `quota/` | Redis counters per user and day | CheckAndIncrement, Refund, Used | session loop, bots, handlers |
| Pending friendships `friends/pending.go`, `ws/friends.go` | Redis sets per fingerprint | Add, Resolve at login | friends store |
| Friend streaks `friends/streaks.go`, `streak_loss_cron.go` | one row of `friend_streaks` per friendship | UpdateStreakOnMessage, RestoreStreak, loss cron | friend chat, push |
| Friend chat channel `ws/friend_handler.go`, `ws/inbox_handler.go` | messages in PostgreSQL, pub/sub | store then publish, inbox fan-out | friends, streaks |
| Learning path `learn/` | progress, hearts, gems, heart requests | CompleteLesson, SpendHeart, CreateHeartRequest, GrantHeart | profile |
| Vocabulary `vocab/` | cards with SM-2 interval and ease | review, reminders | quests |
| Billing `billing/` | subscription mirror, processed event ids | webhook, checkout, customer creation | Stripe |
| Bans and toxicity `bans/`, `ws/toxicity.go` | strikes (30 min), ban keys (1 h) | inspect asynchronously, ban, IsBanned at the handshake | scorers |
| Connection `ws/conn.go` | outbound buffer, closed flag | reader, writer, Send, close | everything above |
| Conversation analysis `ws/analyzer*.go` | batch of pending messages | add, flush, fallback | Claude |
| Accounts `users/` | users, mailed tokens, session cookie | signup, login, logout, verify, forgot, reset | PostgreSQL, mail |
| Profiles `profile/` | form columns, photos by position, `is_verified` | Upsert, SetPhoto, DeletePhoto, ReorderPhotos, VerifyProfile | PostgreSQL, picture host, face matcher |
| Inbox channel `ws/inbox_handler.go` | subscriptions of a socket | snapshot, forward | friend chat |
| reports, admin, analytics, push, mail, translate, grammar | rows and files | request-scoped CRUD and calls to services | PostgreSQL, external services |

The client's parts, each with the endpoints or frames it uses:

| part | state | operations |
|---|---|---|
| Matching `hooks/useMatch.ts`, `lib/ws.ts`, `stores/chatStore.ts` | connection with its sockets, status, messages | start, stop, next, retry, frames |
| Conversation page `components/chat/` | tandem strip, friend prompt, controls and their timers, composer, reading aids, thread | see the modules below |
| Friend conversation `components/friends/` | messages by id, edits, streak badge and dialogs | send, edit, delete, reconnect, restore, remove |
| Inbox `lib/inbox_ws.ts`, `InboxProvider.tsx`, `FriendsMode.tsx` | socket, unread counts, toasts, muted friends | events, poll, mark read |
| Setup and paywall `components/setup/`, `premium/` | pages, suggestions, quota, queue size, checkout | navigate, poll, check, pay |
| Learn `components/learn/` | courses, path, players, hearts | enrol, play, complete, ask and give hearts |
| Sign-in `hooks/useAuthForm.ts`, `app/auth/`, `stores/userStore.ts` | forms, providers, user | submit, follow a link, bootstrap, log out |
| Notebook `app/vocab/`, `components/vocab/` | list, due stack, review player | delete, review |
| Account page `app/account/` | form against its snapshot, history decoy, photo grid, face check | edit, save, leave, upload, drag, verify |

**Who runs concurrently.** Each WebSocket has a reader, a writer and a
`runSession` goroutine. Each armed timer, spawn attempt and bot conversation is
a goroutine of its own. All of them share the Hub (mutex), the pool (mutex) and
Redis (one script or command at a time). Crons run beside the requests against
PostgreSQL at READ COMMITTED.

**What is hard.** The pop of a peer in Redis and its wakeup in memory are two
steps, and the peer does as it likes between them. The wakeup channel holds one
event. A bot's session stays in its queue while it talks ("waiting room"), so a
human may arrive at any point of the bot's conversation. A Left is published to
whoever is subscribed and is not stored. Bots are counted by goroutines that end
in five different places. `PROJECT.json` lists each hazard at its line, with the
property that covers it or the module it waits for.

In the client the same few patterns recur. A request is never called off: its
answer is applied to the page as it is when it comes. A timer is armed by one step
and fires in another. A socket is replaced while the old one still closes. A list
is changed before the server agrees. A click and what the server makes of it are two
steps, and the state may be another by the second. The same account is open in several
tabs. The server, for its part, honours whatever arrives, twice if it is sent twice.

**What makes each component correct.**

* Queues: whoever is inscribed can be woken and will be withdrawn; two
  compatible people never both wait.
* Hub and rooms: two sessions in one room are each other's partner; whoever
  leaves is noticed by a partner that was there.
* Bot pool: the counter is exact and bounded; no bot talks with nobody able to
  stop it; slots come back; a human takes over.
* Block list: a reporter does not meet the reported one again.
* Tandem and friend handshakes: both sides agree on who keeps the clock; both
  partners read the same outcome.
* Pending friendships: one that two people agreed to is created, once, whatever
  the order of their logins.
* Streaks: a streak is no longer than the days both wrote, a loss is announced once,
  a milestone is celebrated once. That every loss is announced in the end, and that
  repairs stay in their quota, is what the comments say and the code does not keep
  (section 5).
* Learning: the points of a lesson are given once, a course is done from its beginning;
  hearts stay in range, a grant is spent once, daily limits hold (planned).
* Billing: no subscription event is lost, and the mirror ends up as the last state
  Stripe reported; a user has one customer and an event one effect.
* Vocabulary: a word one remembers comes back later than last time.
* Profiles: the photo a certified profile shows is the one that was compared, as long as
  it is not changed during the comparison.
* Accounts: a mailed link changes its account once at most.
* Client: what the user sees agrees with the server in the end; what one partner,
  course, word or language pair was asked for is not taken for another's; points and
  restorations are not given or spent twice; the account page leaves no edits behind by
  any way of its own. Section 6 has the places where the code does not do so.

## 2. Modules

```
Matcher <- Hub <- BotManager <- Matchmaking <- MCMatchmaking   (EXTENDS, TLC)
                                     |  ^-------- MatchmakingProofs (EXTENDS, TLAPS)
                                     +--> Pairing (INSTANCE, refinement)
Streaks <- MCStreaks (EXTENDS, TLC)
   ^------ StreaksProofs (EXTENDS, TLAPS)
MatchClient, Tandem, ChatControls, FriendPrompt, Composer, Reading, ChatThread,
FriendThread, FriendPanel, Setup, Lesson, Learn, Auth, Vocab, Account, Photos,
Billing
         <- MCWebClient (EXTENDS, TLC)
Inbox (TLC by itself)

CollectionLemmas (queues and sets of requests, TLAPS)
   ^--- PagesProofs         of Setup, Lesson, Learn
   ^--- AccountProofs       of Auth, Vocab, Account, Photos, Billing
   ^--- PartnersProofs      of ChatThread, FriendPrompt, FriendThread
   ^--- SearchProofs        of MatchClient
   ^--- ConversationProofs  of ChatControls, Composer, Reading, FriendPanel, Tandem
```

The four lower modules are layers of one state machine: `Matcher` has the queues
and one operator per Lua script or command, `Hub` the registry and the wakeup
channels, `BotManager` the pool and its goroutines' steps, `Matchmaking` the
session loop that calls all three and the state formula `Spec`.

| TLA+ | code |
|---|---|
| `queue` | the sorted sets. A session is only ever added to its own queue, so a set of sessions is enough; which queue follows from `Speaks` and `Wants` |
| `hub`, `inbox` | the Hub's map and the one-event channels |
| `bot`, `user`, `hungUp` | where a bot goroutine is, its session, and whether a Left waits on its end of the in-process transport |
| `timers`, `spawned`, `active` | the timers map, the `spawned` channel of the tutor mode, `activeBots` |
| `pc` | where the goroutine of a session stands in `runSession` |
| `peer`, `room`, `kind`, `last` | partner, Redis room, kind of conversation, `lastPeer` |
| `left`, `gone` | a Left not read yet; `peerGone` |
| `inscribed` | `defer Matcher.Cancel` has been executed |
| `blocked` | the block list |
| `avoided`, `met` | history, for the properties only |

**Where one action ends and the next begins.** An action is the stretch of a
goroutine between two calls that another goroutine can order (a Redis script, a
Hub call, a channel). Some neighbouring calls are one action, each because no
other goroutine can tell the difference or because the merged order is one of
the orders the code has:

* `Hub.Lookup` and `Hub.Wakeup` are `CanWakeup`: between them only the target
  can change, and Wakeup looks it up again under the lock.
* The block and quota checks happen at `secure`; entering the room goes with
  passing them (`EnterChat`). What lies between is local.
* `closing` runs the deferred Cancel and then Unregister as `Close`. A peer that
  pops the session before sees an entry whose owner is still in the Hub; one
  that comes between the two finds nothing in the queue; one that popped earlier
  fails or not at Wakeup in both orders, as it does around the whole action.
* The Cancel after a waiting room goes with the departure from the conversation;
  the explicit Cancel of a queue timeout is the deferred one.
* A closed connection is seen by the session in a `select` only, so it is an
  alternative of each select (`HangUpChat`, `HangUpAwait`, `GiveUp`), not a
  separate variable.

**What is abstracted.** Which candidate a script pops (score, level window,
retries) is any compatible one but the avoided one. Message contents, the
tutor's turns and every counter that ends them are one choice: a bot may say
goodbye at any time. Whether a free user still has credit is a choice at each
check. A session ID and a room ID are never used twice, as UUIDs; `NewRoom` names any room nobody refers to
any more. Redis calls do not fail (their error paths end the session as
`SearchRefused` does, or log and go on). The 30-day expiry of a block is left
out. `RemoveFromQueue` is only called by tests.

**What it implements.** `Pairing` is the abstract specification: people talk two by
two, with somebody who speaks what they want, and never meet somebody one of them
has reported. `Matchmaking` maps to it with `talk <- Talking` (pairs of sessions
that hold one room, both in the conversation) and `reported <- blocked`; queues,
pops, events, dismissals and bots are stutters. `PairsOnly` is the refinement.

### Streaks

`Streaks` is one friendship's row of `friend_streaks` and everybody who writes to
it. It shares no state with matchmaking: friends write through the friend chat,
the cron runs by itself.

| TLA+ | code |
|---|---|
| `day`, `noon`, `Midnight`, `Noon` | today in UTC, and which half of it |
| `row` | the committed row: streak, last counted day, last day of each friend's message, milestone, loss and its day, `lost_notified_at`, `restores_used`, `restores_month` |
| `doing`, `on`, `seen` | a friend's open transaction, the day it takes for today (`sent_at` is the instant the transaction begins), the row a repair has read |
| `cron` | where the pass stands, the loss it listed |
| `old` | which transactions and passes have seen a noon or a midnight |
| `BeginMessage`, `CommitMessage` | `appendInternal` with `UpdateStreakOnMessage` |
| `ReadRow`, `Restore` | `RestoreStreak`, up to its SELECT and from there |
| `CronSnapshot`, `CronList`, `CronAnnounce`, `CronFails` | the statements and transactions of `RunStreakLossOnce`, and what it does when one fails |
| `Abort`, `Restart` | deadline or deadlock; the end of the process |
| `wrote`, `posts`, `repairs`, `milestones` | history, for the properties only |

Steps follow what READ COMMITTED lets others see. A message's first statement on
the row is an UPDATE, so nobody else reads for writing or writes until it
commits: from there it is one step, but with the day on which the transaction
began. A repair's SELECT takes no lock and its UPDATE does not look again: two
steps. Each statement of the cron commits by itself; the announcement locks the
row first and is one step. A request lives for seconds (its context has a
deadline of 3 s) and a pass for little more, so whatever is open sees either one
noon or one midnight. Without the noon, a request that began just after one
midnight could be open at the next, and TLC shows a loss announced twice that
way: only a day-old transaction could do it.

Bound: each friend has one transaction open at a time. A friend who writes from
two devices in the same seconds is not modelled.

Left out: the display (`ReadStreak`), the pushes, the "restored" line in the
chat, all of which only read the row; the deletion of a friendship.

### Billing

`Billing` is the checkout and the webhook of `billing/handlers.go` for one user, with
Stripe as the environment. Every call to Stripe or to PostgreSQL is one step, so that
two checkouts, several deliveries and a crash or an error after any of them interleave.

| TLA+ | code |
|---|---|
| `linked`, `mirror` | `stripe_customer_id`; `subscription_status`, `current_period_end` and `plan`, which one UPDATE writes together |
| `processed` | the table `stripe_events` |
| `checkout` | where each tab's request stands: row read with (`known`) or without (`unknown`) a customer, customer `created`, not linked yet |
| `customers`, `payers` | the customers Stripe has created, and those a checkout session was opened for |
| `ownerOf`, `unanswered` | the events in the order in which the subscriptions changed, with their customer; those not answered 200 |
| `delivery` | where each webhook request stands: `received`, looked up and `fresh`, `applied` |
| `effects` | history: the calls of `SetSubscription` that succeeded |

`OpenCheckout` reads the row as `RequireAuth` does and does not look at it again;
`LinkCustomer` is `SetCustomerID`, which overwrites. `LookupEvent`, `ApplyEvent` and
`MarkEvent` are the three statements of `HandleWebhook`, in its order. A failed mark is
only logged (`MarkEvent` may leave `processed` as it is); every other failure, and a
process that stops, is `CheckoutFailed` or `DeliveryFailed`, also after a statement has
committed. Events of other types, or without a customer, belong to `NoCustomer`: they
are marked without an effect.

What is abstracted: the number of an event stands for the state it tells of (status,
end of the period, plan). Stripe delivers in any order, again, several at once, and does
not give up on an event that was not answered; an answer may be lost. Left out: the
portal, which only reads the row, and the analytics.

### The client

Each module is one part of the client *with what it talks to*: the server's
operations it calls are actions of the same module, requests and frames are lists
of things under way, and the network may lose either way what the code allows to be
lost. React state is a variable, a handler an action, an effect part of the action
that triggers it. Layout, wording, animation and colours are left out.

| module | client | server and network in it |
|---|---|---|
| `MatchClient` | `useMatch`, `lib/ws.ts`, `chatStore`, the screens of `Conversation.tsx` | sessions that pair, leave, refuse; sockets that drop; offline |
| `Tandem` | `TandemStrip.tsx`, tandem frames | both `runChat` loops, FIFO queues between them, the clock's owner |
| `ChatControls` | `ChatHeader`, `ChatView`, `BackGuardModal`, `ReportModal`, `BotQueueWatch` | frames either way, the session loop that searches, waits, meets, reads a Next or a report, and lets a human interrupt the AI |
| `FriendPrompt` | `FriendPromptCard.tsx`, its login and poll | both loops' acceptances, `ws/friends.go`, `friends/pending.go` call by call, two logins at once, failed writes, a gateway that stops |
| `Composer` | `MessageInput.tsx`, `lib/pii.ts`, `lib/grammar.ts` | late and failed grammar answers |
| `Reading` | `autoTranslate.ts`, `TranslationPopover.tsx`, `BotQuotaCounter.tsx` | late and failed translations, saves, another word in the same popover |
| `ChatThread` | messages and corrections in `useMatch`, `chatStore`, `CorrectionModal`, `useTabAttention` | relay, refusals, corrections dropped by their interval |
| `FriendThread` | `FriendConversation.tsx`, `lib/friend_ws.ts` | log; publication as a step of its own, which may fail; the last messages on reconnection |
| `FriendPanel` | streak badge, banner, restoration, menu | repairs by either friend, served or not when their answer is lost, pushes before or after answers |
| `Inbox` | `inbox_ws.ts`, `InboxProvider.tsx`, `notificationStore`, `FriendsMode.tsx` | events heard by an open socket only, lists read earlier than they arrive |
| `Setup` | `SetupView.tsx`, `sessionStore`, `PaywallModal.tsx` | suggestion, quota, queue size, checkout in another tab |
| `Lesson` | every lesson player | `learn/store.go` completion, lost requests and lost answers, readings of the hearts that arrive in a later lesson |
| `Learn` | `LearnMode.tsx`, `CoursePath.tsx`, hearts | enrolment, progress, heart requests |
| `Auth` | `useAuthForm`, `LoginSheet`, `app/auth`, `userStore` | `users/`: accounts, mailed tokens with lookup, consumption and effect as steps of their own, requests of other tabs and of pages that were left, the cookie they share |
| `Vocab` | `app/vocab/page.tsx`, `ReviewPlayer.tsx` | `vocab/`: SM-2 (`srs.go`), reviews from a conversation |
| `Account` | the form of `app/account/page.tsx`, the browser's history, the layout's ways out | Upsert, portal |
| `Photos` | `PhotoSlot`, `usePhotoDrag`, `VerificationCard`, the grid | `profile/`: positions, what withdraws a certification, the two steps of a comparison |

`MCWebClient` composes them. The parts share no variable but the account that is
signed in, and a product of all of them says nothing that they do not say one
by one; it would only multiply their states. So its `Init` picks one `part`, whose
variables begin in any of their initial states, and the others rest in one of
theirs: one run explores all sixteen, and `Billing` (the paywall's server, with tabs
and Stripe around it), side by side, under one set of constants. A
`VIEW` compares states by the part and its own variables; for `FriendPrompt` and
`Billing` without telling the two partners, the tabs and the deliveries apart, since
every action and property treats them alike, and for a partner who has left the
conversation by what is still read of him. Each component has its own
`Init`, `Next` and `Spec` (`MatchSpec`, `LessonSpec`, ...), which is what the theorems
are about. Where two parts do interact (a conversation and
its strip, its card, its thread) the frames and status changes that one sends to the
other are actions of the receiving module.

Where the two sides are several steps apart:

* `ChatControls`. Next (button, shortcut, card, switch to a human) and a report are
  frames; the page changes only with what the server answers. The session reads them
  during a conversation (`ReadAsk`), where it may refuse them, and its next partner may
  be announced with or without a stay in the queue before. A human may interrupt the AI
  that fills a wait (`TakeOver`), before or after a frame meant for the AI is read. The
  page stays mounted from one partner to the next unless the queue comes between.
  `meant` is the partner a frame was sent for; `relieved` and `doubled` say that a human
  has interrupted the AI, and that two frames were sent for one partner.
* `FriendPrompt`. A login reads the set of its fingerprint (`Login`), then for each entry
  either stores the friendship (`Befriend`) or takes the partner's entry away (`Unlink`)
  and adds its own account there (`Relink`), and removes the entry last (`CleanUp`),
  whatever the other calls answered. Two logins cross anywhere; one login at a time is
  under way per partner. The login runs in a goroutine with a context of its own:
  only the end of the gateway cuts it (`CutLogin`).
* `FriendThread`. A message, an edit or a deletion is committed first and published by a
  later step, which may fail (`missed`). A history holds the last `HistMax` messages.
* `Auth`. One page is followed, the last one that was loaded. What another tab or a page
  that was left has sent goes on at the server, as a request without a page
  (`owner = "gone"`), and its answer may still bring its cookie. A mailed token is looked
  up (`LookUp`), consumed in a transaction that may fail (`Consume`), and honoured by
  `SetPassword` or `MarkVerified` (`Honour`), which may fail once the token is gone.
* `Photos`. A comparison reads the first photo when it begins; `MarkVerified` certifies
  whatever is first when it ends. `compared` and `vouched` keep the two apart. The
  three rules that withdraw a certification are those of the three statements.
* `Account`. The page is left by its buttons, its history, the portal, the closing of the
  tab ("gone"), or by the layout around it ("away").
* `Lesson`. Hearts are read by requests of their own (`reads`), answered in any order and
  shown at once, whichever lesson is played by then.

Abstractions worth knowing:

* A text, a word or a photo is a model value; a correction is a version number; an
  ease is in hundredths and an interval in thousandths of a day, so that `srs.go`'s
  arithmetic is done on integers (rounded down).
* `Account`'s draft stands for the whole form; its history is the stack of entries
  from the page before, `history.back()` calls being steps that come later.
* `Photos`: each transaction of `profile/store.go` is one step. Interleavings of two
  of them inside READ COMMITTED are not explored (section 6). A pointer drag is where it
  begins and where it ends.
* `Auth`: the expiry of tokens, the rate limits and the exchange with an OAuth provider
  are left out; in `FriendPrompt`, the expiry of entries after seven days.
* `Reading`: one target language; the reset when it changes (`autoTranslate.ts:35-43`)
  and the cut to the last thirty messages (`MessageList.tsx:62`) are left out.
* `Lesson`: a completion is served and answered in one step, or lost on either way.
* `ChatControls`: what a refused report, a spent quota or a queue timeout shows is the
  end of what the module follows; reconnections are in `MatchClient`.
* Requests of a part that the network loses are lost before or after they are
  served, without the client knowing which.

## 3. Runs

| run | question | instance |
|---|---|---|
| `matchmaking_rooms` | do queues, rooms, departures and blocks stay consistent between humans, and implement `Pairing`? | `a1`, `a2` speak fr and want en, `b1` the reverse: two compete for one; `a1` is free (may be refused at any check); no bots; 4 rooms |
| `matchmaking_bots` | does the pool count exactly, and is a bot always stoppable? | `a1` in tutor mode, `b1` queued, two bot goroutines for one slot; 3 rooms |
| `matchmaking_live` | do slots come back, departures get noticed, humans take over? | `a1`, `b1`, one bot, weak fairness |
| `matchmaking_phantom` | is the entry withdrawn before a human conversation, as the comment says? | violated |
| `matchmaking_deadroom` | does a dismissed event never leave anyone in a dead room, as the comment says? | violated |
| `streaks_row` | are streaks earned, losses announced once, milestones celebrated once? | two friends, both may repair, interchangeable; 6 days, months of 4, window 2, quota 1, milestones 2 and 3 |
| `streaks_told` | does a pass of the cron find every loss not announced yet, as the comment says? | 6 days, one friend may repair; strong fairness of the cron; violated |
| `streaks_quota` | do repairs stay within the monthly quota, as the comment says? | 4 days, both may repair; violated |
| `client_parts` | do late, lost, crossed and repeated answers leave the client in agreement with the server, and the row with Stripe? | the sixteen parts and `Billing`, bounds below |
| `inbox_badge` | does the badge of an open list end on the server's count? | 3 sockets, 1 message, 1 change of the list, 1 fault; weak fairness |
| `inbox_sockets` | is there one inbox socket per session, as the comment says? | violated |
| `streaks_end` | does every streak that ends become a loss, as the cron's comment says? | 7 days, nobody repairs; violated |

**Properties.**

* `TypeOK`: types.
* `NoGhostEntry`: whoever is inscribed is registered and has its Cancel deferred.
* `NoMissedMatch`: two mirror sessions are never both inscribed, unless one
  asked to avoid the other. It fails as soon as search and inscription are not
  one script, or look at the wrong queue.
* `RoomsAgree`: sessions that hold one room name each other.
* `LeftReachesWitness`: once both were subscribed, a departure cannot be lost.
* `BlockedNeverMeet`: with nobody in tutor mode (there `MeetTutor` joins
  unchecked, see section 6).
* `BotCapacity`: `active` counts exactly the goroutines between increment and
  decrement, and never passes `MaxConcurrent`.
* `NoAbandonedBot`: a bot in conversation has its session, or its event still
  waiting, or something that stops it.
* `SlotsComeBack`, `DepartureNoticed`, `HumanTakesOver`: the same as promises.
* `StreakIsEarned`: neither the current streak nor the repairable one exceeds the
  number of days on which both wrote, although repairs write what they read
  earlier and a message may commit after midnight.
* `LossAnnouncedOnce`: between two repairs a loss has at most one message.
* `MilestonesOnce`: over the whole life of the friendship.
* `NoEventLost`: a subscription event that Stripe will not deliver again was applied.
  It is the promise behind the order "effect, then mark"; it fails with the other one.
* `MirrorSettles`: once Stripe was answered for everything, a row whose events came in
  order (some of them again) holds the newest of its customer's, although the lookup,
  the effect and the mark of two deliveries cross, and another tab may link another
  customer in between.
* `RestoresWithinQuota`, `LossTold`, `EndIsMaterialised`, `OneInboxSocket`,
  `NoPhantomEntry`, `NoDeadRoom`: what a comment says and a run refutes, see section 5.
* `PairsOnly`: what the sessions hold of each other implements `Pairing`.

Of the client:

* `MessagesOfThisPeer`: the messages on the screen are the header's partner's,
  although frames of a replaced connection reach the same store. Two searches
  that waited together for the fingerprint are excepted (section 6).
* `SearchHasSocket`: the search screen always has something under way behind it.
* `TandemInStep`: when everything is delivered both strips impose one language, and
  only while a clock runs.
* `NextForThisPartner`: a Next tapped once for a partner is not confirmed on another,
  although the page stays; and a Next or a report is read in the conversation it was
  meant for. The second half excepts sessions in which a human has interrupted the AI,
  or in which one partner was sent two frames: there the code ends the wrong
  conversation (section 6).
* `FriendsAgree`: both partners read the same outcome if no write failed.
* `MadeIsKept`: a friendship that was announced is, at every step of two logins that
  cross, in the table, under a fingerprint, or about to be written there by a login;
  unless that very write failed or was cut, since the entry is removed all the same.
* `WarnedBeforePII`: personal data leaves only after a warning about this very text;
  unless a correction taken since has rewritten the text, which keeps the confirmation
  (section 6).
* `TranslatedOnce`: no message is translated twice by one list.
* `SavedIsThisWord`: a word is kept with its own translation, and "saved" is said of a
  word that is in the notebook, or that has replaced such a word in the same popover
  (section 6).
* `CorrectionsMoveForward`: neither side goes back to an older correction.
* `ThreadConverges`: with nothing under way the conversation shows the end of the log,
  each message once and in its last state. A message whose last publication failed is
  excepted until the next reconnection.
* `OneTokenPerLoss`: however often the dialog is confirmed, and although a restoration
  may be served and its answer lost, a loss costs one token.
* `CountsThisPair`: a count that *appears* is that of the pair on the screen. The count of
  the former pair stays, after a change, until the first answer for the new one.
* `PaidOnce`: points are given once through retries. It is about the points; a retry
  takes its hearts again (section 6).
* `NoHoleInPath`: what the server keeps of a course is its beginning, whichever course
  the late answers are about. What the page shows may be out of date (section 6).
* `LinkOnce`: a mailed link is honoured once at most, whichever tabs, former pages and
  retries send it and however lookup, consumption and effect of their requests cross.
* `RecallNeverShortens`: whoever grades a word, in whatever order, its interval goes
  back by a lapse only.
* `EditsNotLeftBehind`: the history, the page's buttons, the portal and the closing of
  the tab leave edits behind only out of a dialog or after a save. The layout's menu, its
  logout and a toast are excepted (section 6).
* `CertifiedPhoto`: a certified profile shows first the photo that was compared; or, when
  that was changed during the comparison, the one that was first at the end of it, or
  any photo if there was none then.
* `BadgeHeals`: the badge of a list that stays open ends on the server's count.

One more is a theorem that no run states: `TeacherWithinQuota` (no search for the AI
teacher with a quota known to be spent).

**Bounds.** Nothing is cut off by a guard: every session connects once, so the
behaviours are finite in each counter and the runs are exhaustive. A person who
reconnects is another session, and three of them contain every pattern of two
rivals and a partner. With one room more the number of reachable states
does not change: rooms never run out. `Streaks` stops its calendar at `MaxDay`:
six days hold two days of writing, a loss, a repair inside or outside the window,
a new streak and its loss, and cross the end of a month; a second loss behind an
unrepaired one needs seven. A message that commits late, a stale repair and the
announcement of the loss between them need six. Two goroutines for one slot are what
makes the three readings of the capacity disagree. `CHECK_DEADLOCK FALSE`
everywhere: once all sessions are gone nothing is left to do.

`Billing` bounds what its environment does: two customers need two checkouts that cross,
two events are an older and a newer one or one for each customer, two effects are those
or one of them again. With a third effect, and with three events in one delivery at a
time, no error was found either; the theorems hold for all values.

The client's run (`MCWebClient.cfg`) explores 3.5 million states. Its bounds are
guards on what the environment does, never on what the code does: two connections,
two partners, one network drop, one frame under way on each lossy leg, two messages and
two versions of a correction, two requests under way per part (three in `Auth`), one
mailed link used from several pages and tabs, one lost answer, two courses of two
lessons, two hearts, one word graded twice, two photos of two pictures. Some values say
more than they seem to:

* `ChatControls`: two partners in a session (`MaxPartners`), one frame on its way up
  (`UpCap`) and two down (`DownCap`), a countdown of two seconds for the code's own, one
  line of talk, which is what opens the report.
* `FriendThread`: a history of one message (`HistMax`, 200 in the code) over a log of
  two, so that a reconnection does leave messages out.
* `Auth`: `MaxForms = 1` counts forms sent, apart from the resets, which the links bound.
* `Account`: `MaxHist = 6`. Four entries hold the decoy on top of the page; an edit made
  while the page's own step back is still coming pushes another one, which needs six.
* `Lesson`: `MaxReads = 1` reading of the hearts under way, which may be asked for after
  one lesson and answered in the next; two were checked aside, with the same result.
* `Streaks` and `matchmaking_*`: above.

Two is what it takes for an answer to come after another of its kind and for a former partner, course,
pair or word to differ from the present one; two grades of one word reach the intervals
of one day and six days, and what comes after, the product, is what the theorem
`RecallNeverShortensHolds` adds. Each module's own actions all fire at these values.
What the bounds cut short is what the theorems of section 4 are for: every property of
this run but the conjunction `TypeOK` holds for any value of them. `Inbox` is checked by
itself because its property needs fairness. No `SYMMETRY` is used in the client's runs.

**Fairness.** `WF` on each session's own server steps and on each bot's steps:
the Go scheduler runs runnable goroutines, timers fire, a ready `select` is
served. Nothing a person does (connecting, Next, Report, hanging up) and no
tutor's goodbye is fair; no strong fairness is used there. In `Streaks` the three
successful steps of the cron are strongly fair: it ticks every 15 minutes, each
step may fail, but not for ever. Messages, repairs and midnights are not fair. No
property that holds rests on it: `FairSpec` is there for `streaks_told` and `streaks_end`,
so that what they refute is not refuted by a cron that never runs.
In `Inbox`, `WF` on the poll (an interval timer of one minute), on its successful
answer, on the read mark, on the delivery of events and on the end of a closing
socket; nothing the user does is fair, and `BadgeHeals` promises nothing unless
the list stays open.

## 4. Proofs

Eight modules hold the theorems; `PROJECT.json` lists each with what it establishes.
All of them assume only the named assumption of the component's module (`XAssumption`:
bounds are natural numbers, no value is both a language and "none", and the like),
which TLC evaluates in every run. Each argument has the same three parts: an inductive
invariant (`...Inv`) that implies the property, a lemma that the initial states satisfy
it, and a lemma that every step keeps it, with one step per action. TLC checked the
strengthenings of the longer ones as invariants before they were proved.

### Matchmaking

`MatchmakingProofs` proves the eight safety properties of `Spec`, and that it
implements `Pairing`, for every set of sessions, languages, rooms and every finite set
of bots, from the named assumptions of the modules (IDs of different kinds are
different; a session does not speak what it wants; the tutor mode needs a pool).

The argument:

1. `TypeInv == TypeOK /\ BotCapacity /\ ShapeOK` is inductive by itself.
   `ShapeOK` says what each program counter implies (who is registered, who has
   a partner, whose bot is which). `BotCapacity` belongs to it: that the counter
   stays in `Nat` after a decrement needs that it is exact.
2. `NoMissedMatch` is inductive over `TypeInv`: an inscription happens
   only when the script saw no candidate, and whatever it excluded was avoided.
3. `RoomInv` strengthens `RoomsAgree` with the events in the channels: an event
   from a human names the room its sender holds, or a room nobody else holds.
   Without it the step that adopts an event says nothing.
4. `BotInv`, `LeftInv` and `BlockInv` are each one layer on top.
5. `PairsOnly`: the initial states of `Matchmaking` map to those of `Pairing`, and
   each step maps to a step of it or to a stutter. Only entering a room, leaving it and
   reporting are not stutters. That an entry makes a legal pair needs `RoomInv` (one
   other session at most holds the room, and it names this one), `MirrorInv` (whoever
   one is told of, pops and talks with speaks what one wants) and `BlockInv`.

Each layer has one lemma per actor with one step per action. `BlockedNeverMeetHolds`
and `PairsOnlyHolds` assume `TutorMode = {}` (there `MeetTutor` joins unchecked).

### Streaks

`StreaksProofs` proves, for every calendar, month length, window, quota and finite
set of milestones (`StreaksAssumption`), four theorems:

1. `StreaksTypeOK` is inductive by itself, and so is `ClockInv`: what has seen
   neither noon nor midnight began today.
2. `MilestonesOnce`: with `MilestoneInv`, whatever was celebrated is not above
   `row.milestone`, which only grows.
3. `StreakIsEarned`: a bound by the days in all is not inductive. `EarnedInv`
   bounds the row, and what each repair has read, by the days both wrote *up to*
   the day the streak was counted or lost. The step that needs more is a message
   older than the last counted day (`gap < 0`), which moves that day back. It can
   only have been overtaken by a repair: a friend's message of the later day
   alone does not count it. `EarnedInv` therefore says that the streak was earned
   by the message's own day as well, and `CalendarInv` gives why: a repaired loss
   is at least two days old, a transaction sees one midnight at most, and a friend
   with a message under way has none committed on a later day.

4. `LossAnnouncedOnce`: `PostInv` says that a loss which was announced is over for
   everybody who could announce it again: it is not on the cron's list, the streak does
   not run from its day, and the flag is up in the row if that loss is there and while a
   late repair may write it back. `ViewInv` relates what each repair has read to the row
   and to what the other one has read; the hard step is the repair that began before an
   announcement and commits after it.

The lemmas `CountFields` to `AnnounceFields` say what each operation leaves of the
row, so that the invariants are proved without expanding the operations.

### Billing

`AccountProofs` proves `BillingTypeOK`, `NoEventLost` and `MirrorSettles` for any number
of tabs, deliveries, customers and events. Neither property is inductive; `BillingInv`
adds three facts:

* `MarkedOK`: an event that is marked, or acknowledged, or at `applied` in a delivery,
  has been *taken*: it was applied, or it names no customer. What a step marks or
  acknowledges comes from a delivery of which this is known, whatever the others do.
* `LinkOK`: a customer that was created and not linked yet is nobody's payer, belongs to
  no other request and is not the row's. So a customer is linked once, and all its
  events come after that.
* `RowOK`: the row holds an event of its customer that was applied no earlier than any
  other of that customer. When another customer is linked nothing of it was applied yet.

With all events of the customer applied and in order, the last one applied is the newest.

### The client

| theorem | what the property lacks to be inductive |
|---|---|
| `NextForThisPartner` | `Followed`: while no human interrupts and no frame is doubled, a frame on its way up means that session and page are with the same partner and no frame on its way down says otherwise; and the announcement of the next partner is the last news on its way to the page |
| `WarnedBeforePII` | `PendingWarned`: while a confirmation is pending the field holds the text of the warning, or a correction has rewritten it since |
| `TranslatedOnce` | `QueuedOnce`: a message is in the queue of an instance or was tried by it, once in all, and only the present instance can have reserved it |
| `SavedIsThisWord` | `OwnTranslation`, `SavedInInstance`: a translation that is shown is that of the word shown, so that this is what a save keeps; a late save goes to the instance of the popover that asked, whichever word that shows by then |
| `OneTokenPerLoss` | `TokensCounted`: a token is gone for each loss that was repaired, and a streak is either alive or lost |
| `CountsThisPair`, `TeacherWithinQuota` | `PollsInv` (a poll whose effect lives is about the pair on the screen) and `OfferInv` (the AI teacher is never ticked with a quota known to be spent) |
| `PaidOnce` | `Paid`: points are counted only with the mark that the lesson is done, which a retry meets |
| `NoHoleInPath` | `CallOK`, `TreeOK`, `ActiveOK`: requests, the path and the lesson on the screen were true when they were made, and lessons are never undone |
| `LinkOnce` | `OpenedOnce`: one request at a time has the token's row open, whoever sent it; it has made the link worthless before it honours it, and a link that was honoured is neither live nor open |
| `RecallNeverShortens` | `Scheduled`: with one repetition the interval is six days at most, which the fixed second interval does not undercut; `FactorGrows` for the product |
| `EditsNotLeftBehind` | `HistoryOK`: while there are edits a decoy lies on top of the page's entry, so that the step back lands on it |
| `CertifiedPhoto` | `RowsOK` and `CallsOK`: a certification is about a photo, and every request names pictures. The step that needs more is the reorder, which compares the first photo with what was first: `Reordering` shows that the rows are permuted, because no two go to one place |
| `TandemInStep` | `TandemInv`: outside a session each side's proposal is in one place (from its browser, in the room, in a prompt, in its acceptance, or lost) and what is left of the last session is read first; inside one, the owner's language is on its way to each strip or there, and nothing under way makes the other loop start |
| `CorrectionsMoveForward` | `ThreadInv`: versions rise along each wire, are not older than what the receiver shows nor newer than what was submitted, and are about messages of the other author |
| `FriendsAgree`, `MadeIsKept` | `FriendInv`: a loop has accepted exactly if its acceptance is on the way or known to the other; a loop is done as soon as it knows both; what it announces is the last thing its card reads. `InHand`: an entry that a login still holds has been written where it belongs before it goes |
| `ThreadConverges` | `LogInv`: unless its publication failed or is to come, the last frame about a message, on the bus, then on the way down, then shown, carries the state the log has of it; or it is older than all that is shown |
| `MessagesOfThisPeer` | `OneTalk`: there is one partner the page talks with, and on every stream that is still heard each message follows the announcement of who sends it; `OnlyActive`: unless two searches waited together every other connection is closed |
| `SearchHasSocket` | `Hope` and `ConnOK`: while the search shows, a connection remains that neither the user nor a fatal error ended, and such a connection has a socket or a timer |

`ThreadConverges` is the refinement-like statement among them: the page is a cache of
the log, and the bus, the socket and the history are the queue of its updates.

What makes these invariants long is what is *under way*. A property of the screen is
seldom inductive because a late answer brings into the screen whatever it carries; so
each invariant says of every frame, request and timer what its arrival would do.

### What stays with TLC

* Liveness (`SlotsComeBack`, `DepartureNoticed`, `HumanTakesOver`, `BadgeHeals`): it
  rests on fairness, hence on ENABLED, which the prover does not handle.
* The types of `Photos`: that the order a drag asks for has its type rests on the sorting
  operator of the library, a recursive choice over a set: induction over data.
* `MCWebClient.TypeOK`, the conjunction of the parts' types: the theorems are about each
  part's own specification; the composition adds no step.
* The violations, which are counterexamples.

## 5. Findings

* **Phantom entry** (`ws/session.go:309-316`). The comment says the Cancel after
  a waiting room keeps a peer from popping the entry during the next
  conversation. A peer that popped the session before the Cancel can wake it
  after it has searched again and is inscribed anew; it enters the human
  conversation inscribed, and a third user pops it there: a search spent on
  somebody who does not answer.
* **Dead room** (`ws/session.go:324-340`). `dismissWakeup` runs at the top of the
  loop; a session that ends by timeout, disconnection or quota closes its
  channel with the event in it and tells nobody, and a ghost Left published
  before the peer has subscribed is lost. The peer then waits in a room where
  nobody comes until its user presses Next.

* **Shared quota** (`friends/streaks.go:243`). The repair reads the counter without
  a lock and writes `used+1` later; two repairs at once both succeed and count as
  one, against "3 restaurations / mois / friendship" (lines 282-284).
* **A loss nobody hears of** (`friends/streak_loss_cron.go:53`). A streak that ends
  while an older, unrepaired loss is in the row is not recorded, because the
  snapshot asks for `lost_streak IS NULL`; an old loss stays in the row after its
  window has passed. The cron is said to put the end of a streak into the chat
  (lines 14-16). A repair then looks at the old loss only, and refuses it.

* **A loss passed over** (`friends/streak_loss_cron.go:118`). The announcement looks at
  `lost_notified_at` only. When a repair has emptied the loss between the cron's list and
  its announcement, the flag goes up on a row without a loss, and neither the cron's
  snapshot (lines 45-54) nor a repair's (`streaks.go:258-267`) takes it down: the next
  streak that ends in silence is recorded with the flag up, and no pass announces it,
  against "ligne système pour chaque perte non encore notifiée" (line 61).

* **Two inbox sockets** (`lib/inbox_ws.ts:66`). `reconnect()` closes the socket and
  opens the next, but `closed` stays false: the old socket's `onclose` schedules
  another one, which nothing cancels. The file's first lines promise one
  connection per session; every event is then counted twice.

## 6. Kept as hazards

What the code does, without a comment or a test that says otherwise unless one is named
here. The properties that come near each are excepted where section 3 says so.

Server:

* A session whose channel holds a bot's event can be popped by a human whose
  Wakeup then fails: it goes on in the waiting room without being in any queue
  (`ws/session.go:166`).
* The tutor mode's select takes any event for the tutor's
  (`ws/session.go:83-94`): an earlier human's is joined with neither the block
  nor the quota check.
* A loss that is repaired between the cron's list and its announcement is
  announced all the same, and the flag then silences a later late snapshot
  (`friends/streak_loss_cron.go:62`).
* A repair that begins after midnight while another, of the day before, commits,
  may be refused and yet write its late snapshot over the repaired streak
  (`friends/streaks.go:259`).
* A message and an announcement take their two row locks in opposite order.
* The cron lists losses in one statement and announces them later, looking at the
  flag only (`friends/streak_loss_cron.go:62`).
* Two proposals that cross leave the losing side's own flag set (`ws/chat.go:308`);
  a correction inside `correctMinInterval` is dropped without a word
  (`ws/chat.go:385`); `friendKindRemoved` is never published
  (`ws/friend_handler.go:154`).
* A human who interrupts the AI before a Next, or a report, meant for the AI is read
  receives it (`ws/chat.go:220-236`); a second Next for one partner (Ctrl+K again, the
  card's button twice while the page leaves) waits in the session's channel and skips
  the next partner.
* An entry of `friends/pending.go` is removed although `store.Add` failed, or the partner's
  new entry was not written (lines 96-97, 107-111): the friendship that was announced is
  lost. After two logins that cross, both partners have an account and each set names
  the other's: the friendship is created by the next login of either.
* A message of a friend that was stored and not published (`ws/friend_handler.go:580-590`)
  is not seen until the other's socket opens again.
* A mailed link can be used up without effect: `ConsumeToken` commits before `SetPassword`
  or `MarkVerified` (`users/handlers.go:257-263`, `327-345`), which may fail.
* A refund after midnight makes the next day's counter negative
  (`quota/quota.go:103`); a heart request's count and insert are two statements
  (`learn/store.go:866`); a heart granted at the maximum is lost
  (`learn/store.go:952`).
* The webhook applies what comes, whenever it was created: an older state delivered
  after a newer one replaces it for good (`billing/handlers.go:145`), which is why
  `MirrorSettles` assumes that the events of the customer came in order. Two deliveries
  of an event that overlap both apply it (`billing/handlers.go:118`); the handler relies
  on the repeat being harmless, which it is unless something newer came in between.
* Two checkouts that read the row before either links a customer open sessions for two
  of them (`billing/handlers.go:187`). The row keeps the last; what is paid as the other
  one reaches no row.
* "Easy" can give a shorter interval than "good": after "easy" and "hard" (4.8 days)
  it gives six days and "good" eleven (`vocab/srs.go:83-92`).
* `ReviewTermsInContext` selects a due word and grades it in a later transaction: a
  grade given in between counts twice (`vocab/srs_store.go:137-147`).
* A comparison of faces may end after the main photo was replaced, moved or deleted:
  `MarkProfileVerified` certifies whatever is first by then. If nothing is, the first
  photo that comes later takes nothing back, whoever it shows
  (`profile/verification.go:43-121`, `profile/store.go:253-262`).
* Two photo transactions at once (two tabs, or a drag beside an upload) may leave a gap in
  the positions, or let a reorder keep a certification by a main photo it read before
  the other committed (`profile/store.go:220-232`, `420-439`). Transactions are single
  steps here, so neither is explored; nor is the loss of an answer while the faces are
  being compared.

Client:

* `ErrorView`'s Back resets the store and leaves the connection open; a soft error
  replaces the conversation; a queue timeout searches again by itself.
* Two starts that wait together for the fingerprint open two connections
  (`useMatch.ts:87`).
* The Quit that is armed, and a report's closing timer, outlive their partner and
  their sheet; the back guard's countdown starts again on a re-render.
* A suggestion that is taken replaces the field by the correction of the text that was
  checked, whatever was typed since, and keeps the confirmation asked for another text
  (`MessageInput.tsx:93-102`); the comments at lines 26-27 and 64 say that it is reset as
  soon as the text changes. `WarnedBeforePII` excepts it.
* The save of a word marks as saved the word that has replaced it in the same popover
  (`MessageList.tsx:72-73`, `TranslationPopover.tsx:118-131`). `SavedIsThisWord` excepts
  it.
* A change of the target language forgets what was translated while translations into
  the former language are still in the queue (`autoTranslate.ts:35-43`).
* A message typed while a friend's socket is down is thrown away
  (`friend_ws.ts:87-90`); an edit saved after its window is refused without a word;
  one's own second tab breaks the convergence of a thread.
* The list of friends may be older than the events before it; toasts' timers start
  again (`NotificationToasts.tsx:47-57`).
* The restoration dialog's timer closes the dialog opened next
  (`StreakRestoreModal.tsx`); the friend card shows the newest friend as the partner
  (`FriendPromptCard.tsx:39-55`).
* A retry of a lesson's completion takes its hearts again for each try that was served
  (`LessonPlayer.tsx:75`). The hearts of a lesson are a live property: a reading asked for
  after one lesson and answered during the next changes them there (`LearnMode.tsx:107-119`,
  `367`), so that a lesson may end well past the hearts it began with, or fail before.
* The late answer of a failed lesson closes the next; a daily answer is lost
  (`DailyLessonPlayer.tsx:62-65`); courses, daily lessons and hearts answered for a course
  that was left are shown in the next (`LearnMode.tsx:107-133`).
* Late answers of a closed sign-in sheet are applied (`useAuthForm.ts:82-100`); a late
  bootstrap overwrites a login or a logout (`userStore.ts:20`); a failed logout looks
  done; a lost answer to a verified link says it failed after a reload; the length of
  a password is counted in UTF-16 units here and in runes there
  (`password.ts:26`, `users/store.go:49-67`).
* A card that two players show, or a player and a conversation, is graded twice in one
  recall (`vocab/srs_store.go:68`, `137-147`).
* A failed deletion in the notebook puts back words that were deleted meanwhile
  (`app/vocab/page.tsx:72-80`); a player opened again before the due stack has
  come back grades a card twice.
* The account menu's link to the notebook, its logout (the page turns into a 404) and a
  toast leave a page with edits by a client navigation, without a dialog and without a
  save (`AuthTopRight.tsx:61-79`, `NotificationToasts.tsx:68-71`). The menu's own link to
  the account page, which replaces the decoy of the history, and the pages one leaves
  for are not modelled.
* What is typed during a save of the account form is lost when the page leaves, and
  "save and leave" leaves when the save failed (`app/account/page.tsx:168-204`). A
  failed load shows an empty form that never becomes dirty: nothing can be saved.
* A photo put into a far slot is clamped by the server and shown in its own by the
  page (`PhotoSlot.tsx:47-48`); the face check's dialog, open when an earlier
  comparison succeeds, comes back by itself when the main photo is replaced later.

## 7. Plan

In this order:

1. `Hearts`: requests, grants and regeneration with their row locks.
2. `BotChat`: the turns of a bot's conversation with the quota counter, refunds and
   midnight; strikes of the toxicity inspections.
3. Interleaved photo transactions; a friend on two devices in `Streaks`.

Not modelled, and not planned: reports, admin, analytics, push and mail (rows that
are written and listed); AI client, translation and grammar on the server (calls
with a cache); icebreakers, personas and language detection (texts and heuristics);
the reader and writer of a WebSocket beyond the fact that it may close; the scorers;
legal texts and dictionaries, a quarter of the client's lines, which hold no state.
