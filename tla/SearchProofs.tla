----------------------------- MODULE SearchProofs -----------------------------
(***************************************************************************)
(* Theorems about the search of a partner as the browser runs it: the      *)
(* connection objects, their sockets and the store they feed.              *)
(***************************************************************************)
EXTENDS MatchClient, CollectionLemmas

-----------------------------------------------------------------------------
(* The inductive invariant *)

Frames == [type : {"queued", "matched", "msg", "peer_left", "queue_timeout",
                   "message_blocked", "invalid_param", "quota_exceeded"},
           match : 0..MaxMatches]

Connections == [ws : {"unused", "none", "connecting", "open", "closing"},
                byUser : BOOLEAN, fatal : BOOLEAN, wait : {"none", "timer", "online"}]

Sessions == [at : {"none", "queued", "matched", "over"}, match : 0..MaxMatches]

\* What each variable holds.
PageTypes == /\ online \in BOOLEAN /\ drops \in 0..MaxDrops /\ mode \in 1..Len(Modes)
             /\ fingerprint \in {"absent", "loading", "ready"} /\ starting \in 0..MaxConns
             /\ activeConn \in 0..MaxConns

Chats == [status : {"idle", "connecting", "queued", "matched", "post_chat", "ended", "error"},
          peer : 0..MaxMatches, shown : SUBSET (0..MaxMatches),
          error : {"none", "queued", "matched", "msg", "peer_left", "queue_timeout",
                   "message_blocked", "invalid_param", "quota_exceeded"}]

ConnTypes == /\ chat \in Chats
             /\ conn \in [Conns -> Connections]
             /\ chatSession \in [Conns -> Sessions]
             /\ net \in [Conns -> Seq(Frames)]

\* A connection, its session and what the server sent on it.  A socket that is not open
\* carries nothing; a delay runs only while there is no socket; a connection without a
\* socket is over or waits; a fatal error is the last thing the server says.
ConnOK(cn, s, q) ==
    /\ cn.ws = "unused" => cn = NewConn
    /\ cn.ws \in {"unused", "connecting", "none"} => s = NoSession /\ q = <<>>
    /\ cn.ws = "closing" => cn.byUser
    /\ cn.wait # "none" => cn.ws = "none" /\ ~cn.fatal
    /\ cn.ws = "none" => cn.byUser \/ cn.fatal \/ cn.wait # "none"
    /\ cn.fatal => cn.ws # "connecting" /\ s.at = "none" /\ q = <<>>
    /\ \A i \in DOMAIN q : q[i].type \in FatalCodes => s.at = "none" /\ i = Len(q)

EachConn == \A c \in Conns : ConnOK(conn[c], chatSession[c], net[c])

\* Connections are created in the order of their numbers, none before the fingerprint.
UsedFirst ==
    /\ {c \in Conns : conn[c].ws # "unused"} = 1..Used
    /\ activeConn <= Used

Loading ==
    /\ Used + Waiting <= MaxConns
    /\ fingerprint # "ready" => Used = 0
    /\ fingerprint = "loading" => starting > 0
    /\ fingerprint = "absent" => starting = 0

\* A connection that will serve again: neither the user nor an error ended it.
Hopeful(cn) == cn.ws # "unused" /\ ~cn.byUser /\ ~cn.fatal

Hope ==
    chat.status \in {"connecting", "queued", "matched"} =>
        Waiting > 0 \/ \E c \in Conns : Hopeful(conn[c])

\* Unless two searches waited together, every connection but the current one is closed.
OnlyActive ==
    starting <= 1 =>
        \A c \in Conns : conn[c].ws # "unused" /\ ~conn[c].byUser => c = activeConn

\* After the first n frames of q, a page that was talking with p talks with m.
Told(q, n, m, p) ==
    \/ \E j \in 1..n : /\ q[j].type = "matched" /\ q[j].match = m
                       /\ \A k \in j + 1..n : q[k].type # "matched"
    \/ m = p /\ \A k \in 1..n : q[k].type # "matched"

\* Every message comes after the announcement of who sends it.
Follows(s, q, p) ==
    /\ \A i \in DOMAIN q : q[i].type = "msg" => Told(q, i - 1, q[i].match, p)
    /\ s.at = "matched" => Told(q, Len(q), s.match, p)

ChatOn(ch, p) == ch.shown \subseteq {p} /\ ch.peer \in {0, p}

OneTalk ==
    starting <= 1 =>
        \E p \in 0..MaxMatches :
            /\ ChatOn(chat, p)
            /\ \A c \in Conns : ~conn[c].byUser => Follows(chatSession[c], net[c], p)

SearchInv ==
    /\ PageTypes /\ ConnTypes /\ EachConn /\ UsedFirst /\ Loading
    /\ Hope /\ OnlyActive /\ OneTalk

LEMMA SearchConstants ==
  /\ MaxConns \in Nat /\ MaxMatches \in Nat /\ MaxDrops \in Nat /\ MaxConns > 0
  /\ Len(Modes) > 1 /\ Modes[1] = "anon"
BY MatchClientAssumption DEF MatchClientAssumption

LEMMA SearchInvGives == SearchInv => MatchTypeOK
BY DEF SearchInv, PageTypes, ConnTypes, Chats, Connections, Sessions, MatchTypeOK

-----------------------------------------------------------------------------
(* What a page was told *)

\* Nothing is said on a socket that is gone.
LEMMA FollowsNone == ASSUME NEW p PROVE Follows(NoSession, <<>>, p)
BY DEF Follows, NoSession

\* A frame more: a message of the partner the session has, or any other frame.
LEMMA FollowsSent ==
  ASSUME NEW q \in Seq(Frames), NEW f \in Frames, NEW s, NEW t, NEW p, Follows(s, q, p),
         f.type = "msg" => s.at = "matched" /\ s.match = f.match,
         t.at = "matched" => \/ f.type = "matched" /\ f.match = t.match
                             \/ f.type # "matched" /\ t = s
  PROVE  Follows(t, Append(q, f), p)
<1> DEFINE r == Append(q, f)
<1>1. /\ Len(q) \in Nat /\ Len(r) = Len(q) + 1 /\ r[Len(q) + 1] = f
      /\ \A i \in 1..Len(q) : r[i] = q[i]
      /\ DOMAIN q = 1..Len(q) /\ DOMAIN r = 1..Len(q) + 1
      OBVIOUS
<1> HIDE DEF r
<1>2. ASSUME NEW n \in Nat, n <= Len(q), NEW m, Told(q, n, m, p)
      PROVE  Told(r, n, m, p)
      BY <1>1, <1>2 DEF Told
<1>3. ASSUME NEW i \in DOMAIN r, r[i].type = "msg"
      PROVE  Told(r, i - 1, r[i].match, p)
  <2>1. CASE i \in 1..Len(q)
    <3>1. r[i] = q[i] /\ i - 1 \in Nat /\ i - 1 <= Len(q)
          BY <1>1, <2>1
    <3>2. Told(q, i - 1, q[i].match, p)
          BY <1>1, <1>3, <2>1, <3>1 DEF Follows
    <3> QED BY <1>2, <3>1, <3>2
  <2>2. CASE i = Len(q) + 1
    <3>1. r[i] = f /\ i - 1 = Len(q)
          BY <1>1, <2>2
    <3>2. Told(q, Len(q), f.match, p)
          BY <1>3, <3>1 DEF Follows
    <3> QED BY <1>1, <1>2, <3>1, <3>2
  <2> QED BY <1>1, <1>3, <2>1, <2>2
<1>4. ASSUME t.at = "matched"
      PROVE  Told(r, Len(r), t.match, p)
  <2>1. CASE f.type = "matched" /\ f.match = t.match
    <3>1. Len(r) \in 1..Len(r) /\ r[Len(r)] = f /\ \A k \in Len(r) + 1..Len(r) : FALSE
          BY <1>1
    <3> QED BY <2>1, <3>1, Zenon DEF Told
  <2>2. CASE f.type # "matched" /\ t = s
    <3>1. Told(q, Len(q), t.match, p)
          BY <1>4, <2>2 DEF Follows
    <3>2. Told(r, Len(q), t.match, p)
          BY <1>1, <1>2, <3>1
    <3>3. r[Len(r)].type # "matched" /\ Len(r) = Len(q) + 1
          BY <1>1, <2>2
    <3> QED BY <1>1, <3>2, <3>3 DEF Told
  <2> QED BY <1>4, <2>1, <2>2
<1> QED BY <1>3, <1>4 DEF Follows, r

\* The first frame is read: who the page talks with is who it was told about.
LEMMA FollowsRead ==
  ASSUME NEW q \in Seq(Frames), q # <<>>, NEW s, NEW p \in 0..MaxMatches, Follows(s, q, p),
         NEW ch \in Chats, ChatOn(ch, p)
  PROVE  \E o \in 0..MaxMatches :
            ChatOn(Applied(ch, Head(q)), o) /\ Follows(s, Tail(q), o)
<1> DEFINE h == Head(q)
           r == Tail(q)
           o == IF h.type = "matched" THEN h.match ELSE p
<1>1. /\ Len(q) \in Nat /\ Len(q) > 0 /\ Len(r) = Len(q) - 1 /\ q[1] = h /\ h \in Frames
      /\ \A i \in 1..Len(q) - 1 : r[i] = q[i + 1]
      /\ DOMAIN q = 1..Len(q) /\ DOMAIN r = 1..Len(q) - 1
      OBVIOUS
<1>2. o \in 0..MaxMatches
      BY <1>1, SearchConstants DEF Frames
<1> HIDE DEF h, r
<1>3. ASSUME NEW n \in Nat, 1 <= n, n <= Len(q), NEW m, Told(q, n, m, p)
      PROVE  Told(r, n - 1, m, o)
  <2>1. CASE \A k \in 1..n : q[k].type # "matched"
    <3>1. m = p /\ o = p
          BY <1>1, <1>3, <2>1 DEF Told
    <3>2. \A k \in 1..n - 1 : k + 1 \in 1..n /\ r[k] = q[k + 1]
          BY <1>1, <1>3
    <3> QED BY <2>1, <3>1, <3>2 DEF Told
  <2>2. CASE \E j \in 1..n : /\ q[j].type = "matched" /\ q[j].match = m
                             /\ \A k \in j + 1..n : q[k].type # "matched"
    <3>1. PICK j \in 1..n : /\ q[j].type = "matched" /\ q[j].match = m
                            /\ \A k \in j + 1..n : q[k].type # "matched"
          BY <2>2
    <3>2. \A k \in j..n - 1 : /\ k + 1 \in j + 1..n
                              /\ k \in 1..n - 1 /\ r[k] = q[k + 1]
          BY <1>1, <1>3
    <3>3. CASE j = 1
      <4>1. o = m
            BY <1>1, <3>1, <3>3
      <4>2. \A k \in 1..n - 1 : r[k].type # "matched"
            BY <3>1, <3>2, <3>3
      <4> QED BY <4>1, <4>2 DEF Told
    <3>4. CASE j # 1
      <4>1. j - 1 \in 1..n - 1 /\ r[j - 1] = q[j]
            BY <1>1, <1>3, <3>4
      <4>2. \A k \in (j - 1) + 1..n - 1 : r[k].type # "matched"
            BY <3>1, <3>2
      <4> QED BY <3>1, <4>1, <4>2 DEF Told
    <3> QED BY <3>3, <3>4
  <2> QED BY <1>3, <2>1, <2>2 DEF Told
<1>4. ASSUME NEW i \in DOMAIN r, r[i].type = "msg"
      PROVE  Told(r, i - 1, r[i].match, o)
  <2>1. i + 1 \in DOMAIN q /\ r[i] = q[i + 1] /\ i \in Nat /\ 1 <= i /\ i <= Len(q)
        BY <1>1, <1>4
  <2>2. Told(q, (i + 1) - 1, q[i + 1].match, p)
        BY <1>4, <2>1 DEF Follows
  <2>3. (i + 1) - 1 = i
        BY <2>1
  <2> QED BY <1>3, <2>1, <2>2, <2>3
<1>5. s.at = "matched" => Told(r, Len(r), s.match, o)
      BY <1>1, <1>3 DEF Follows
<1>6. ChatOn(Applied(ch, h), o)
  <2>1. CASE h.type = "matched"
        BY <2>1 DEF Applied, MatchedWith, NewChat, ChatOn
  <2>2. CASE h.type = "msg"
    <3>1. Told(q, 1 - 1, q[1].match, p)
          BY <1>1, <2>2 DEF Follows
    <3>2. h.match = p
          BY <1>1, <3>1 DEF Told
    <3> QED BY <2>2, <3>2 DEF Applied, ChatOn, Chats
  <2>3. CASE h.type \notin {"matched", "msg"}
        BY <2>3 DEF Applied, ErrorShown, ChatOn, Chats
  <2> QED BY <2>1, <2>2, <2>3
<1> QED BY <1>2, <1>4, <1>5, <1>6 DEF Follows, h, r

-----------------------------------------------------------------------------
(* The connections created *)

LEMMA UsedNat == Used \in Nat
<1>1. {c \in Conns : conn[c].ws # "unused"} \subseteq 1..MaxConns
      BY DEF Conns
<1>2. IsFiniteSet(1..MaxConns)
      BY SearchConstants, FS_Interval
<1> QED BY <1>1, <1>2, FS_Subset, FS_CardinalityType DEF Used

LEMMA UsedSame ==
  ASSUME UsedFirst, activeConn' \in {activeConn, 0},
         \A c \in Conns : conn'[c].ws = "unused" <=> conn[c].ws = "unused"
  PROVE  UsedFirst' /\ Used' = Used /\ Used \in Nat
<1>1. {c \in Conns : conn'[c].ws # "unused"} = {c \in Conns : conn[c].ws # "unused"}
      OBVIOUS
<1>2. Used' = Used
      BY <1>1 DEF Used
<1>3. activeConn' <= Used
      BY UsedNat DEF UsedFirst
<1> QED BY <1>1, <1>2, <1>3, UsedNat DEF UsedFirst

LEMMA UsedNumbers ==
  ASSUME UsedFirst, Used <= MaxConns
  PROVE  /\ Used \in Nat
         /\ \A c \in Conns : conn[c].ws # "unused" <=> c <= Used
<1>1. \A c \in Conns : c <= Used <=> c \in 1..Used
      BY UsedNat, SearchConstants DEF Conns
<1> QED BY <1>1, UsedNat DEF UsedFirst

\* close() of the current connection: it does not count any more, the others are as
\* they were.
LEMMA ClosedGives ==
  ASSUME ConnTypes, EachConn, NEW a \in 0..MaxConns, a # 0 => conn[a].ws # "unused"
  PROVE  LET cs == ClosedConn(conn, a)
         IN /\ cs \in [Conns -> Connections]
            /\ \A c \in Conns :
                  /\ ConnOK(cs[c], chatSession[c], net[c])
                  /\ cs[c].ws = "unused" <=> conn[c].ws = "unused"
                  /\ IF c = a THEN cs[c].byUser ELSE cs[c] = conn[c]
<1> DEFINE cs == ClosedConn(conn, a)
<1>1. conn \in [Conns -> Connections] /\ \A c \in Conns : ConnOK(conn[c], chatSession[c], net[c])
      BY DEF ConnTypes, EachConn
<1>2. CASE a = 0
  <2>1. cs = conn /\ \A c \in Conns : c # a
        BY <1>2 DEF ClosedConn, Conns
  <2> QED BY <1>1, <2>1
<1>3. CASE a # 0
  <2>1. a \in Conns
        BY <1>3, SearchConstants DEF Conns
  <2> DEFINE w == IF conn[a].ws \in {"connecting", "open"} THEN "closing" ELSE conn[a].ws
             t == IF conn[a].wait = "timer" THEN "none" ELSE conn[a].wait
             n == [conn[a] EXCEPT !.byUser = TRUE, !.wait = t, !.ws = w]
  <2>2. cs = [conn EXCEPT ![a] = n]
        BY <1>1, <1>3, <2>1 DEF ClosedConn, Connections
  <2>3. conn[a] \in Connections /\ ConnOK(conn[a], chatSession[a], net[a])
        BY <1>1, <2>1
  <2>4. /\ n \in Connections /\ n.byUser /\ n.ws = w /\ n.wait = t
        /\ n.fatal = conn[a].fatal
        BY <2>3 DEF Connections
  <2> HIDE DEF n
  <2>5. ConnOK(n, chatSession[a], net[a])
        BY <1>3, <2>3, <2>4 DEF ConnOK
  <2>6. n.ws # "unused"
        BY <1>3, <2>4
  <2> HIDE DEF cs
  <2>7. cs \in [Conns -> Connections] /\ cs[a] = n /\ \A c \in Conns : c # a => cs[c] = conn[c]
        BY <1>1, <2>1, <2>2, <2>4
  <2>8. ASSUME NEW c \in Conns
        PROVE  /\ ConnOK(cs[c], chatSession[c], net[c])
               /\ cs[c].ws = "unused" <=> conn[c].ws = "unused"
               /\ c = a => cs[c].byUser
        BY <1>1, <1>3, <2>4, <2>5, <2>6, <2>7, Zenon
  <2> QED BY <2>7, <2>8, Zenon DEF cs
<1> QED BY <1>2, <1>3

Fresh == [NewConn EXCEPT !.ws = "connecting"]

\* connectMatch(), k times.
LEMMA ConnectGives ==
  ASSUME UsedFirst, NEW k \in Nat, Used + k <= MaxConns, NEW cs \in [Conns -> Connections],
         \A c \in Conns : /\ ConnOK(cs[c], chatSession[c], net[c])
                          /\ cs[c].ws = "unused" <=> conn[c].ws = "unused",
         Connect(cs, k)
  PROVE  /\ conn' \in [Conns -> Connections]
         /\ \A c \in Conns : ConnOK(conn'[c], chatSession[c], net[c])
         /\ \A c \in Conns : IF c \in Used + 1..Used + k THEN conn'[c] = Fresh
                             ELSE conn'[c] = cs[c]
         /\ UsedFirst' /\ Used' = Used + k /\ activeConn' \in 0..MaxConns
<1>1. Used <= MaxConns
      BY UsedNat, SearchConstants
<1>2. Used \in Nat /\ \A c \in Conns : conn[c].ws # "unused" <=> c <= Used
      BY <1>1, UsedNumbers
<1>3. ASSUME NEW c \in Conns, c \in Used + 1..Used + k
      PROVE  /\ conn'[c] = Fresh /\ chatSession[c] = NoSession /\ net[c] = <<>>
  <2>1. cs[c].ws = "unused"
        BY <1>2, <1>3
  <2>2. cs[c] = NewConn /\ chatSession[c] = NoSession /\ net[c] = <<>>
        BY <2>1 DEF ConnOK
  <2> QED BY <1>3, <2>2 DEF Connect, Fresh
<1>4. \A c \in Conns : c \notin Used + 1..Used + k => conn'[c] = cs[c]
      BY DEF Connect
<1>5. /\ Fresh \in Connections /\ ConnOK(Fresh, NoSession, <<>>)
      /\ Fresh.ws = "connecting"
  <2>1. NewConn \in Connections
        BY DEF NewConn, Connections
  <2>2. Fresh \in Connections /\ Fresh.ws = "connecting" /\ Fresh.byUser = NewConn.byUser
        /\ Fresh.fatal = NewConn.fatal /\ Fresh.wait = NewConn.wait
        BY <2>1 DEF Fresh, Connections
  <2>3. Fresh.byUser = FALSE /\ Fresh.fatal = FALSE /\ Fresh.wait = "none"
        BY <2>2 DEF NewConn
  <2>4. \A i \in DOMAIN <<>> : FALSE
        OBVIOUS
  <2> QED BY <2>2, <2>3, <2>4 DEF ConnOK
<1>6. /\ conn' = [c \in Conns |-> conn'[c]]
      /\ \A c \in Conns : conn'[c] \in Connections
  <2>1. conn' = [c \in Conns |-> conn'[c]]
        BY DEF Connect
  <2> QED BY <1>3, <1>4, <1>5, <2>1
<1>7. \A c \in Conns : ConnOK(conn'[c], chatSession[c], net[c])
      BY <1>3, <1>4, <1>5
<1>8. \A c \in Conns : conn'[c].ws # "unused" <=> c \in 1..Used + k
      BY <1>2, <1>3, <1>4, <1>5, SearchConstants DEF Conns
<1>9. {c \in Conns : conn'[c].ws # "unused"} = 1..Used + k
  <2>1. 1..Used + k \subseteq Conns
        BY <1>2, SearchConstants DEF Conns
  <2> QED BY <1>8, <2>1
<1>10. Used' = Used + k
  <2>1. Cardinality(1..Used + k) = Used + k
        BY <1>2, FS_Interval
  <2> QED BY <1>9, <2>1 DEF Used
<1>11. activeConn' \in 0..MaxConns /\ activeConn' <= Used + k
       BY <1>2, SearchConstants DEF Connect
<1> QED BY <1>3, <1>4, <1>6, <1>7, <1>9, <1>10, <1>11 DEF UsedFirst

LEMMA FreshServes == Hopeful(Fresh) /\ ~Fresh.byUser /\ Fresh.ws = "connecting"
<1>1. NewConn \in Connections
      BY DEF NewConn, Connections
<1>2. Fresh.ws = "connecting" /\ Fresh.byUser = NewConn.byUser /\ Fresh.fatal = NewConn.fatal
      BY <1>1 DEF Fresh, Connections
<1>3. NewConn.byUser = FALSE /\ NewConn.fatal = FALSE
      BY DEF NewConn
<1> QED BY <1>2, <1>3 DEF Hopeful

-----------------------------------------------------------------------------
(* What the server sends *)

\* A frame put on the wire of a session that is open.
LEMMA Sent ==
  ASSUME SearchInv, NEW c \in Conns, NEW f \in Frames, NEW s \in Sessions,
         chatSession[c].at # "none",
         chatSession' = [chatSession EXCEPT ![c] = s],
         net' = [net EXCEPT ![c] = Append(@, f)],
         ServerStep(c),
         f.type \in FatalCodes => s.at = "none",
         f.type = "msg" => chatSession[c].at = "matched" /\ chatSession[c].match = f.match,
         s.at = "matched" => \/ f.type = "matched" /\ f.match = s.match
                             \/ f.type # "matched" /\ s = chatSession[c]
  PROVE  SearchInv'
<1>1. /\ PageTypes /\ ConnTypes /\ EachConn /\ UsedFirst /\ Loading /\ Hope /\ OnlyActive
      /\ OneTalk
      BY DEF SearchInv
<1>2. UNCHANGED <<online, drops, fingerprint, starting, conn, activeConn, chat, mode>>
      BY DEF ServerStep
<1>3. /\ net \in [Conns -> Seq(Frames)] /\ net[c] \in Seq(Frames)
      /\ chatSession \in [Conns -> Sessions]
      /\ net'[c] = Append(net[c], f) /\ chatSession'[c] = s
      /\ \A d \in Conns : d # c => net'[d] = net[d] /\ chatSession'[d] = chatSession[d]
      BY <1>1 DEF ConnTypes
<1>4. ConnTypes'
      BY <1>1, <1>2, <1>3, Queued DEF ConnTypes
<1>5. EachConn'
  <2>1. ConnOK(conn[c], chatSession[c], net[c])
        BY <1>1 DEF EachConn
  <2> DEFINE q == Append(net[c], f)
  <2>2. /\ conn[c].ws \notin {"unused", "connecting", "none"} /\ ~conn[c].fatal
        /\ \A i \in DOMAIN net[c] : net[c][i].type \notin FatalCodes
    <3>1. NoSession.at = "none"
          BY DEF NoSession
    <3> QED BY <2>1, <3>1 DEF ConnOK
  <2>3. \A i \in DOMAIN q : q[i].type \in FatalCodes => i = Len(q) /\ s.at = "none"
        BY <1>3, <2>2, Queued
  <2>4. ConnOK(conn[c], s, q)
    <3> HIDE DEF q
    <3> QED BY <2>1, <2>2, <2>3, Zenon DEF ConnOK
  <2> QED BY <1>1, <1>2, <1>3, <2>4 DEF EachConn
<1>6. UsedFirst' /\ Used' = Used /\ Waiting' = Waiting
  <2>1. UsedFirst' /\ Used' = Used
        BY <1>1, <1>2, UsedSame
  <2> QED BY <1>2, <2>1 DEF Waiting
<1>7. Loading' /\ Hope' /\ OnlyActive' /\ PageTypes'
      BY <1>1, <1>2, <1>6 DEF Loading, Hope, OnlyActive, PageTypes
<1>8. OneTalk'
  <2> SUFFICES ASSUME starting <= 1
               PROVE  \E p \in 0..MaxMatches :
                        /\ ChatOn(chat, p)
                        /\ \A d \in Conns : ~conn[d].byUser => Follows(chatSession'[d], net'[d], p)
      BY <1>2 DEF OneTalk
  <2>1. PICK p \in 0..MaxMatches :
            /\ ChatOn(chat, p)
            /\ \A d \in Conns : ~conn[d].byUser => Follows(chatSession[d], net[d], p)
        BY <1>1 DEF OneTalk
  <2>2. ~conn[c].byUser => Follows(s, Append(net[c], f), p)
        BY <1>3, <2>1, FollowsSent
  <2> QED BY <1>3, <2>1, <2>2
<1> QED BY <1>4, <1>5, <1>6, <1>7, <1>8 DEF SearchInv

LEMMA ServerKeeps ==
  ASSUME SearchInv, NEW c \in Conns,
         \/ Pair(c) \/ PeerSpeaks(c) \/ PeerLeaves(c)
         \/ \E code \in FatalCodes \cup {"queue_timeout", "message_blocked"} :
              ServerRefuses(c, code)
  PROVE  SearchInv'
<1>1. chatSession \in [Conns -> Sessions] /\ chatSession[c] \in Sessions
      BY DEF SearchInv, ConnTypes
<1>2. CASE Pair(c)
  <2>1. PICK m \in 1..MaxMatches :
            /\ chatSession' = [chatSession EXCEPT ![c] = [at |-> "matched", match |-> m]]
            /\ ToBrowser(c, MatchFrame("matched", m))
        BY <1>2, Zenon DEF Pair
  <2> DEFINE f == MatchFrame("matched", m)
             s == [at |-> "matched", match |-> m]
  <2>2. f \in Frames /\ f.type = "matched" /\ f.match = m /\ s \in Sessions
        BY SearchConstants DEF MatchFrame, Frames, Sessions
  <2>3. s.at = "matched" /\ s.match = m
        OBVIOUS
  <2>4. f.type \notin FatalCodes /\ f.type # "msg"
        BY <2>2 DEF FatalCodes
  <2>5. net' = [net EXCEPT ![c] = Append(@, f)] /\ ServerStep(c)
        BY <1>2, <2>1, Zenon DEF Pair, ToBrowser
  <2>6. chatSession[c].at # "none"
        BY <1>2 DEF Pair
  <2> HIDE DEF f, s
  <2>7. chatSession' = [chatSession EXCEPT ![c] = s]
        BY <2>1 DEF s
  <2> QED BY <2>2, <2>3, <2>4, <2>5, <2>6, <2>7, Sent
<1>3. CASE PeerSpeaks(c)
  <2> DEFINE f == MatchFrame("msg", chatSession[c].match)
             s == chatSession[c]
  <2>1. f \in Frames /\ f.type = "msg" /\ f.match = s.match
        BY <1>1 DEF MatchFrame, Frames, Sessions
  <2>2. /\ net' = [net EXCEPT ![c] = Append(@, f)] /\ ServerStep(c) /\ s.at = "matched"
        /\ chatSession' = chatSession
        BY <1>3, Zenon DEF PeerSpeaks, ToBrowser
  <2>3. f.type \notin FatalCodes /\ f.type # "matched"
        BY <2>1 DEF FatalCodes
  <2>4. chatSession' = [chatSession EXCEPT ![c] = s]
        BY <1>1, <2>2
  <2> HIDE DEF f
  <2> QED BY <1>1, <2>1, <2>2, <2>3, <2>4, Sent
<1>4. CASE PeerLeaves(c)
  <2> DEFINE f == MatchFrame("peer_left", chatSession[c].match)
             s == [chatSession[c] EXCEPT !.at = "over"]
  <2>1. f \in Frames /\ f.type = "peer_left" /\ s \in Sessions /\ s.at = "over"
        BY <1>1 DEF MatchFrame, Frames, Sessions
  <2>2. /\ net' = [net EXCEPT ![c] = Append(@, f)] /\ ServerStep(c)
        /\ chatSession[c].at = "matched"
        BY <1>4, Zenon DEF PeerLeaves, ToBrowser
  <2>3. chatSession' = [chatSession EXCEPT ![c] = s]
        BY <1>1, <1>4 DEF PeerLeaves
  <2>4. f.type \notin FatalCodes
        BY <2>1 DEF FatalCodes
  <2> HIDE DEF f, s
  <2> QED BY <2>1, <2>2, <2>3, <2>4, Sent
<1>5. CASE \E code \in FatalCodes \cup {"queue_timeout", "message_blocked"} :
             ServerRefuses(c, code)
  <2>1. PICK code \in FatalCodes \cup {"queue_timeout", "message_blocked"} :
            ServerRefuses(c, code)
        BY <1>5
  <2> DEFINE f == MatchFrame(code, 0)
             s == IF code = "message_blocked" THEN chatSession[c] ELSE NoSession
  <2>2. f \in Frames /\ f.type = code /\ s \in Sessions /\ NoSession.at = "none"
        BY <1>1, SearchConstants DEF MatchFrame, Frames, Sessions, FatalCodes, NoSession
  <2>3. net' = [net EXCEPT ![c] = Append(@, f)] /\ ServerStep(c) /\ chatSession[c].at # "none"
        BY <2>1, Zenon DEF ServerRefuses, ToBrowser
  <2>4. chatSession' = [chatSession EXCEPT ![c] = s]
        BY <1>1, <2>1 DEF ServerRefuses
  <2>5. code \notin {"msg", "matched"} /\ (code \in FatalCodes => code # "message_blocked")
        BY <2>1 DEF FatalCodes
  <2>6. (code \in FatalCodes => s.at = "none") /\ (s.at = "matched" => s = chatSession[c])
        BY <2>2, <2>5
  <2> HIDE DEF f, s
  <2> QED BY <2>2, <2>3, <2>4, <2>5, <2>6, Sent
<1> QED BY <1>2, <1>3, <1>4, <1>5

\* next() asks the session for another partner.
LEMMA NextPeerKeeps == ASSUME SearchInv, NextPeer PROVE SearchInv'
<1> DEFINE c == activeConn
           f == MatchFrame("queued", 0)
           s == [chatSession[c] EXCEPT !.at = "queued"]
<1>1. c \in Conns
      BY SearchConstants DEF NextPeer, SearchInv, PageTypes, Conns
<1>2. chatSession \in [Conns -> Sessions] /\ chatSession[c] \in Sessions
      BY <1>1 DEF SearchInv, ConnTypes
<1>3. f \in Frames /\ f.type = "queued" /\ s \in Sessions /\ s.at = "queued"
      BY <1>2, SearchConstants DEF MatchFrame, Frames, Sessions
<1>4. /\ net' = [net EXCEPT ![c] = Append(@, f)] /\ ServerStep(c)
      /\ chatSession[c].at # "none"
      BY DEF NextPeer, ToBrowser, ServerStep
<1>5. chatSession' = [chatSession EXCEPT ![c] = s]
      BY <1>2 DEF NextPeer
<1>6. f.type \notin FatalCodes
      BY <1>3 DEF FatalCodes
<1> HIDE DEF c, f, s
<1> QED BY <1>1, <1>3, <1>4, <1>5, <1>6, Sent

-----------------------------------------------------------------------------
(* Sockets that open and close *)

\* One connection changes: what it was used for, and by whom it was ended, stays.
LEMMA OneChanges ==
  ASSUME SearchInv, NEW c \in Conns, NEW n \in Connections, NEW s \in Sessions,
         NEW q \in Seq(Frames), NEW g \in Chats, ConnOK(n, s, q),
         conn' = [conn EXCEPT ![c] = n],
         chatSession' = [chatSession EXCEPT ![c] = s],
         net' = [net EXCEPT ![c] = q],
         chat' = g,
         UNCHANGED <<fingerprint, starting, activeConn, mode>>,
         online' \in BOOLEAN, drops' \in 0..MaxDrops,
         conn[c].ws # "unused", n.ws # "unused", n.byUser = conn[c].byUser,
         g.status \in {"connecting", "queued", "matched"} =>
            \/ chat.status \in {"connecting", "queued", "matched"} /\ n.fatal = conn[c].fatal
            \/ ~n.byUser /\ ~n.fatal,
         \A p \in 0..MaxMatches :
            ~n.byUser /\ ChatOn(chat, p) /\ Follows(chatSession[c], net[c], p) =>
               \E o \in 0..MaxMatches : ChatOn(g, o) /\ Follows(s, q, o),
         n.byUser => g.peer = chat.peer /\ g.shown = chat.shown
  PROVE  SearchInv'
<1>1. /\ PageTypes /\ ConnTypes /\ EachConn /\ UsedFirst /\ Loading /\ Hope /\ OnlyActive
      /\ OneTalk
      BY DEF SearchInv
<1>2. /\ conn \in [Conns -> Connections] /\ chatSession \in [Conns -> Sessions]
      /\ net \in [Conns -> Seq(Frames)] /\ conn'[c] = n /\ chatSession'[c] = s /\ net'[c] = q
      /\ \A d \in Conns : d # c => /\ conn'[d] = conn[d] /\ chatSession'[d] = chatSession[d]
                                   /\ net'[d] = net[d]
      BY <1>1 DEF ConnTypes
<1>3. ConnTypes'
      BY <1>2 DEF ConnTypes
<1>4. PageTypes'
      BY <1>1 DEF PageTypes
<1>5. EachConn'
      BY <1>1, <1>2, Zenon DEF EachConn
<1>6. \A d \in Conns : conn'[d].ws = "unused" <=> conn[d].ws = "unused"
      BY <1>2
<1>7. UsedFirst' /\ Used' = Used /\ Waiting' = Waiting
  <2>1. UsedFirst' /\ Used' = Used
        BY <1>1, <1>6, UsedSame
  <2> QED BY <2>1 DEF Waiting
<1>8. Loading'
      BY <1>1, <1>7 DEF Loading
<1>9. OnlyActive'
      BY <1>1, <1>2 DEF OnlyActive
<1>10. Hope'
  <2> SUFFICES ASSUME g.status \in {"connecting", "queued", "matched"}, ~(Waiting > 0)
               PROVE  \E d \in Conns : Hopeful(conn'[d])
      BY <1>7 DEF Hope
  <2>1. CASE ~n.byUser /\ ~n.fatal
        BY <1>2, <2>1 DEF Hopeful
  <2>2. CASE chat.status \in {"connecting", "queued", "matched"} /\ n.fatal = conn[c].fatal
    <3>1. PICK d \in Conns : Hopeful(conn[d])
          BY <1>1, <2>2 DEF Hope
    <3> QED BY <1>2, <2>2, <3>1, Zenon DEF Hopeful
  <2> QED BY <2>1, <2>2
<1>11. OneTalk'
  <2> SUFFICES ASSUME starting <= 1
               PROVE  \E p \in 0..MaxMatches :
                        /\ ChatOn(g, p)
                        /\ \A d \in Conns :
                              ~conn'[d].byUser => Follows(chatSession'[d], net'[d], p)
      BY DEF OneTalk
  <2>1. PICK p \in 0..MaxMatches :
            /\ ChatOn(chat, p)
            /\ \A d \in Conns : ~conn[d].byUser => Follows(chatSession[d], net[d], p)
        BY <1>1 DEF OneTalk
  <2>2. CASE n.byUser
    <3>1. ChatOn(g, p)
          BY <2>1, <2>2 DEF ChatOn
    <3> QED BY <1>2, <2>1, <2>2, <3>1, Zenon
  <2>3. CASE ~n.byUser
    <3>1. PICK o \in 0..MaxMatches : ChatOn(g, o) /\ Follows(s, q, o)
          BY <2>1, <2>3
    <3>2. c = activeConn
          BY <1>1, <2>3 DEF OnlyActive
    <3>3. ASSUME NEW d \in Conns, d # c, ~conn'[d].byUser
          PROVE  Follows(chatSession'[d], net'[d], o)
      <4>1. conn[d].ws = "unused"
            BY <1>1, <1>2, <3>2, <3>3 DEF OnlyActive
      <4>2. chatSession[d] = NoSession /\ net[d] = <<>>
            BY <1>1, <4>1 DEF EachConn, ConnOK
      <4> QED BY <1>2, <3>3, <4>2, FollowsNone
    <3> QED BY <1>2, <3>1, <3>3
  <2> QED BY <2>2, <2>3
<1> QED BY <1>3, <1>4, <1>5, <1>7, <1>8, <1>9, <1>10, <1>11 DEF SearchInv

LEMMA CloseKeeps ==
  ASSUME SearchInv, NEW c \in Conns, conn[c].ws \in {"connecting", "open", "closing"},
         OnClose(c), online' = online, drops' \in 0..MaxDrops
  PROVE  SearchInv'
<1> DEFINE w == IF conn[c].byUser \/ conn[c].fatal THEN conn[c].wait
                ELSE IF online THEN "timer" ELSE "online"
           n == [conn[c] EXCEPT !.ws = "none", !.wait = w]
           g == Disconnected(chat)
<1>1. /\ conn \in [Conns -> Connections] /\ conn[c] \in Connections /\ chat \in Chats
      /\ chatSession \in [Conns -> Sessions] /\ net \in [Conns -> Seq(Frames)]
      /\ ConnOK(conn[c], chatSession[c], net[c]) /\ online \in BOOLEAN
      BY DEF SearchInv, ConnTypes, EachConn, PageTypes
<1>2. /\ n \in Connections /\ n.ws = "none" /\ n.wait = w
      /\ n.byUser = conn[c].byUser /\ n.fatal = conn[c].fatal
      BY <1>1 DEF Connections
<1>3. g \in Chats /\ g.peer = chat.peer /\ g.shown = chat.shown
      BY <1>1 DEF Disconnected, Chats
<1>4. g.status \in {"connecting", "queued", "matched"} =>
         chat.status \in {"connecting", "queued", "matched"}
      BY <1>1 DEF Disconnected, Chats
<1>5. conn' = [conn EXCEPT ![c] = n]
      BY <1>1 DEF OnClose
<1>6. /\ chatSession' = [chatSession EXCEPT ![c] = NoSession] /\ net' = [net EXCEPT ![c] = <<>>]
      /\ chat' = g /\ UNCHANGED <<fingerprint, starting, activeConn, mode>>
      BY DEF OnClose
<1>7. NoSession \in Sessions /\ NoSession.at = "none" /\ <<>> \in Seq(Frames)
      /\ \A i \in DOMAIN <<>> : FALSE
      BY SearchConstants DEF NoSession, Sessions
<1>8. IF conn[c].byUser \/ conn[c].fatal THEN w = "none" ELSE w # "none"
      BY <1>1 DEF ConnOK
<1> HIDE DEF w, n, g
<1>9. ConnOK(n, NoSession, <<>>)
  <2>1. n.wait # "none" => ~n.fatal
        BY <1>2, <1>8
  <2>2. n.byUser \/ n.fatal \/ n.wait # "none"
        BY <1>2, <1>8
  <2> QED BY <1>2, <1>7, <2>1, <2>2 DEF ConnOK
<1>10. \A p \in 0..MaxMatches :
          ChatOn(chat, p) => ChatOn(g, p) /\ Follows(NoSession, <<>>, p)
       BY <1>3, FollowsNone DEF ChatOn
<1> QED BY <1>1, <1>2, <1>3, <1>4, <1>5, <1>6, <1>7, <1>9, <1>10, OneChanges

LEMMA AcceptKeeps == ASSUME SearchInv, NEW c \in Conns, AcceptSocket(c) PROVE SearchInv'
<1> DEFINE f == MatchFrame("queued", 0)
           n == [conn[c] EXCEPT !.ws = "open"]
           s == [chatSession[c] EXCEPT !.at = "queued"]
           q == Append(net[c], f)
<1>1. /\ conn \in [Conns -> Connections] /\ conn[c] \in Connections /\ chat \in Chats
      /\ chatSession \in [Conns -> Sessions] /\ chatSession[c] \in Sessions
      /\ net \in [Conns -> Seq(Frames)] /\ net[c] \in Seq(Frames)
      /\ ConnOK(conn[c], chatSession[c], net[c])
      /\ online \in BOOLEAN /\ drops \in 0..MaxDrops
      BY DEF SearchInv, ConnTypes, EachConn, PageTypes
<1>2. /\ n \in Connections /\ n.ws = "open" /\ n.wait = conn[c].wait
      /\ n.byUser = conn[c].byUser /\ n.fatal = conn[c].fatal
      BY <1>1 DEF Connections
<1>3. s \in Sessions /\ s.at = "queued"
      BY <1>1 DEF Sessions
<1>4. f \in Frames /\ f.type = "queued"
      BY SearchConstants DEF MatchFrame, Frames
<1>5. q \in Seq(Frames) /\ f.type \notin FatalCodes /\ f.type # "msg" /\ f.type # "matched"
      BY <1>1, <1>4 DEF FatalCodes
<1>6. conn' = [conn EXCEPT ![c] = n] /\ chatSession' = [chatSession EXCEPT ![c] = s]
      BY <1>1 DEF AcceptSocket
<1>7. net' = [net EXCEPT ![c] = q]
      BY <1>1 DEF AcceptSocket, ToBrowser
<1>8. chat' = chat /\ UNCHANGED <<online, drops, fingerprint, starting, activeConn, mode>>
      /\ conn[c].ws = "connecting"
      BY DEF AcceptSocket
<1>9. net[c] = <<>> /\ conn[c].wait = "none" /\ ~conn[c].fatal
      BY <1>1, <1>8 DEF ConnOK
<1>10. \A i \in DOMAIN q : q[i] = f
       BY <1>9
<1>11. \A p : Follows(chatSession[c], net[c], p) => Follows(s, q, p)
  <2> SUFFICES ASSUME NEW p PROVE Follows(s, q, p)
      OBVIOUS
  <2>1. s.at # "matched"
        BY <1>3
  <2>2. \A i \in DOMAIN q : q[i].type # "msg"
        BY <1>5, <1>10
  <2> HIDE DEF q, s
  <2> QED BY <2>1, <2>2 DEF Follows
<1> HIDE DEF f, n, s, q
<1>12. ConnOK(n, s, q)
       BY <1>2, <1>3, <1>5, <1>9, <1>10 DEF ConnOK
<1> QED BY <1>1, <1>2, <1>3, <1>5, <1>6, <1>7, <1>8, <1>11, <1>12, OneChanges

LEMMA ReadKeeps == ASSUME SearchInv, NEW c \in Conns, OnMatchFrame(c) PROVE SearchInv'
<1> DEFINE h == Head(net[c])
           n == [conn[c] EXCEPT !.fatal = @ \/ (h.type \in FatalCodes)]
           q == Tail(net[c])
           g == Applied(chat, h)
           s == chatSession[c]
<1>1. /\ conn \in [Conns -> Connections] /\ conn[c] \in Connections /\ chat \in Chats
      /\ chatSession \in [Conns -> Sessions] /\ s \in Sessions
      /\ net \in [Conns -> Seq(Frames)] /\ net[c] \in Seq(Frames)
      /\ ConnOK(conn[c], s, net[c])
      /\ online \in BOOLEAN /\ drops \in 0..MaxDrops
      BY DEF SearchInv, ConnTypes, EachConn, PageTypes
<1>2. /\ chat' = g /\ net' = [net EXCEPT ![c] = q] /\ conn' = [conn EXCEPT ![c] = n]
      /\ chatSession' = [chatSession EXCEPT ![c] = s] /\ net[c] # <<>>
      /\ conn[c].ws = "open" /\ conn[c].byUser = FALSE
      /\ UNCHANGED <<online, drops, fingerprint, starting, activeConn, mode>>
      BY <1>1 DEF OnMatchFrame, SocketOpen, Connections
<1>3. /\ h \in Frames /\ q \in Seq(Frames) /\ Len(q) = Len(net[c]) - 1 /\ h = net[c][1]
      /\ Len(net[c]) \in Nat /\ 1 \in DOMAIN net[c]
      /\ \A i \in DOMAIN q : i + 1 \in DOMAIN net[c] /\ q[i] = net[c][i + 1]
      BY <1>1, <1>2, Dequeued
<1>4. conn[c].fatal = FALSE
      BY <1>1, <1>2 DEF ConnOK, Connections
<1>5. /\ n \in Connections /\ n.ws = "open" /\ n.byUser = FALSE /\ n.wait = conn[c].wait
      /\ n.fatal <=> h.type \in FatalCodes
      BY <1>1, <1>2, <1>4 DEF Connections
<1>6. g \in Chats /\ (g.status \in {"connecting", "queued", "matched"} =>
                         \/ chat.status \in {"connecting", "queued", "matched"} /\ ~n.fatal
                         \/ ~n.fatal)
  <2>1. CASE h.type = "queued"
    <3>1. g = [chat EXCEPT !.status = "queued"]
          BY <2>1 DEF Applied
    <3> QED BY <1>1, <1>5, <2>1, <3>1 DEF Chats, FatalCodes
  <2>2. CASE h.type = "matched"
    <3>1. g = MatchedWith(h.match)
          BY <2>2 DEF Applied
    <3> QED BY <1>3, <1>5, <2>2, <3>1, SearchConstants
            DEF MatchedWith, NewChat, Chats, Frames, FatalCodes
  <2>3. CASE h.type = "msg"
    <3>1. g = [chat EXCEPT !.shown = @ \cup {h.match}]
          BY <2>3 DEF Applied
    <3> QED BY <1>1, <1>3, <1>5, <2>3, <3>1 DEF Chats, Frames, FatalCodes
  <2>4. CASE h.type = "peer_left"
    <3>1. g = [chat EXCEPT !.status = "post_chat"]
          BY <2>4 DEF Applied
    <3> QED BY <1>1, <3>1 DEF Chats
  <2>5. CASE h.type \notin {"queued", "matched", "msg", "peer_left"}
    <3>1. g = [chat EXCEPT !.status = "error", !.error = h.type]
          BY <2>5 DEF Applied, ErrorShown
    <3> QED BY <1>1, <1>3, <2>5, <3>1 DEF Chats, Frames
  <2> QED BY <2>1, <2>2, <2>3, <2>4, <2>5
<1>7. \A p \in 0..MaxMatches :
         ChatOn(chat, p) /\ Follows(chatSession[c], net[c], p) =>
            \E o \in 0..MaxMatches : ChatOn(g, o) /\ Follows(s, q, o)
      BY <1>1, <1>2, FollowsRead
<1>8. ConnOK(n, s, q)
  <2>1. n.fatal => s.at = "none" /\ q = <<>>
    <3>1. h.type \in FatalCodes => s.at = "none" /\ 1 = Len(net[c])
          BY <1>1, <1>3 DEF ConnOK
    <3>2. Len(q) = 0 => q = <<>>
          BY <1>3
    <3> QED BY <1>3, <1>5, <3>1, <3>2
  <2>2. \A i \in DOMAIN q : q[i].type \in FatalCodes => s.at = "none" /\ i = Len(q)
    <3>1. \A i \in DOMAIN net[c] :
             net[c][i].type \in FatalCodes => s.at = "none" /\ i = Len(net[c])
          BY <1>1 DEF ConnOK
    <3>2. \A i \in DOMAIN q : i \in Nat
          BY <1>3
    <3> HIDE DEF q, s
    <3> QED BY <1>3, <3>1, <3>2
  <2>3. n.wait = "none"
        BY <1>1, <1>2, <1>5 DEF ConnOK
  <2> HIDE DEF n, q, s
  <2> QED BY <1>5, <2>1, <2>2, <2>3 DEF ConnOK
<1> HIDE DEF h, n, q, g
<1>9. g.status \in {"connecting", "queued", "matched"} => ~n.byUser /\ ~n.fatal
      BY <1>5, <1>6
<1>10. conn[c].ws # "unused" /\ n.ws # "unused" /\ n.byUser = conn[c].byUser /\ ~n.byUser
       BY <1>2, <1>5
<1> QED BY <1>1, <1>2, <1>3, <1>5, <1>6, <1>7, <1>8, <1>9, <1>10, OneChanges

LEMMA ReopenKeeps == ASSUME SearchInv, NEW c \in Conns, Reopen(c) PROVE SearchInv'
<1> DEFINE w == IF conn[c].byUser \/ conn[c].fatal THEN conn[c].ws ELSE "connecting"
           n == [conn[c] EXCEPT !.wait = "none", !.ws = w]
<1>1. /\ conn \in [Conns -> Connections] /\ conn[c] \in Connections /\ chat \in Chats
      /\ chatSession \in [Conns -> Sessions] /\ chatSession[c] \in Sessions
      /\ net \in [Conns -> Seq(Frames)] /\ net[c] \in Seq(Frames)
      /\ ConnOK(conn[c], chatSession[c], net[c])
      /\ online \in BOOLEAN /\ drops \in 0..MaxDrops
      BY DEF SearchInv, ConnTypes, EachConn, PageTypes
<1>2. /\ conn' = [conn EXCEPT ![c] = n] /\ conn[c].wait = "timer"
      /\ UNCHANGED <<online, drops, fingerprint, starting, activeConn, chatSession, net,
                     chat, mode>>
      BY <1>1 DEF Reopen
<1>3. conn[c].ws = "none" /\ conn[c].fatal = FALSE /\ net[c] = <<>>
      /\ chatSession[c] = NoSession
      BY <1>1, <1>2 DEF ConnOK, Connections
<1>4. /\ n \in Connections /\ n.wait = "none" /\ n.ws = w
      /\ n.byUser = conn[c].byUser /\ n.fatal = FALSE
      BY <1>1, <1>3 DEF Connections
<1>5. chatSession' = [chatSession EXCEPT ![c] = NoSession] /\ net' = [net EXCEPT ![c] = <<>>]
      BY <1>1, <1>2, <1>3
<1>6. \A i \in DOMAIN <<>> : FALSE
      OBVIOUS
<1>7. w \in {"none", "connecting"} /\ (w = "none" => n.byUser)
      BY <1>3, <1>4
<1> HIDE DEF n, w
<1>8. ConnOK(n, NoSession, <<>>)
      BY <1>4, <1>6, <1>7 DEF ConnOK
<1>9. \A p \in 0..MaxMatches : ChatOn(chat, p) => ChatOn(chat, p) /\ Follows(NoSession, <<>>, p)
      BY FollowsNone
<1>10. n.ws # "unused" /\ conn[c].ws # "unused" /\ n.fatal = conn[c].fatal
       BY <1>3, <1>4, <1>7
<1>11. NoSession \in Sessions /\ <<>> \in Seq(Frames)
       BY <1>1, <1>3
<1> QED BY <1>1, <1>2, <1>4, <1>5, <1>8, <1>9, <1>10, <1>11, OneChanges

-----------------------------------------------------------------------------
(* The network and the tabs *)

LEMMA SurroundingsKeep ==
  ASSUME SearchInv, GoOffline \/ GoOnline \/ \E m \in DOMAIN Modes : SwitchTab(m)
  PROVE  SearchInv'
<1>1. /\ PageTypes /\ ConnTypes /\ EachConn /\ UsedFirst /\ Loading /\ Hope /\ OnlyActive
      /\ OneTalk
      BY DEF SearchInv
<1>2. CASE GoOffline \/ \E m \in DOMAIN Modes : SwitchTab(m)
  <2>1. /\ UNCHANGED <<fingerprint, starting, conn, activeConn, chatSession, net, chat>>
        /\ PageTypes'
    <3>1. CASE GoOffline
      <4>1. /\ UNCHANGED <<fingerprint, starting, conn, activeConn, chatSession, net, chat, mode>>
            /\ online' = FALSE /\ drops' = drops + 1 /\ drops < MaxDrops
            BY <3>1 DEF GoOffline
      <4>2. drops' \in 0..MaxDrops
            BY <1>1, <4>1, SearchConstants DEF PageTypes
      <4> QED BY <1>1, <4>1, <4>2 DEF PageTypes
    <3>2. CASE \E m \in DOMAIN Modes : SwitchTab(m)
      <4>1. DOMAIN Modes = 1..Len(Modes)
            BY MatchClientAssumption DEF SwitchTab, PageTypes
      <4> QED BY <1>1, <3>2, <4>1 DEF SwitchTab, PageTypes
    <3> QED BY <1>2, <3>1, <3>2
  <2>2. Used' = Used /\ Waiting' = Waiting
        BY <2>1 DEF Used, Waiting
  <2> QED BY <1>1, <2>1, <2>2
          DEF SearchInv, ConnTypes, EachConn, UsedFirst, Loading, Hope, OnlyActive, OneTalk
<1>3. CASE GoOnline
  <2>1. /\ UNCHANGED <<drops, fingerprint, starting, activeConn, chatSession, net, chat, mode>>
        /\ online' = TRUE
        BY <1>3 DEF GoOnline
  <2>2. /\ conn \in [Conns -> Connections] /\ conn' = [c \in Conns |-> conn'[c]]
        /\ \A c \in Conns : conn'[c] = IF conn[c].wait = "online"
                                       THEN [conn[c] EXCEPT !.wait = "timer"] ELSE conn[c]
        BY <1>1, <1>3 DEF GoOnline, ConnTypes
  <2>3. ASSUME NEW c \in Conns
        PROVE  /\ conn'[c] \in Connections /\ conn'[c].ws = conn[c].ws
               /\ conn'[c].byUser = conn[c].byUser /\ conn'[c].fatal = conn[c].fatal
               /\ conn[c].wait = "none" => conn'[c] = conn[c]
               /\ conn'[c].wait = "none" <=> conn[c].wait = "none"
    <3>1. CASE conn[c].wait = "online"
      <4>1. conn[c] \in Connections /\ conn'[c] = [conn[c] EXCEPT !.wait = "timer"]
            BY <2>2, <3>1
      <4> QED BY <3>1, <4>1 DEF Connections
    <3>2. CASE conn[c].wait # "online"
          BY <2>2, <3>2
    <3> QED BY <3>1, <3>2
  <2>4. EachConn'
    <3> SUFFICES ASSUME NEW c \in Conns PROVE ConnOK(conn'[c], chatSession[c], net[c])
        BY <2>1 DEF EachConn
    <3>1. ConnOK(conn[c], chatSession[c], net[c])
          BY <1>1 DEF EachConn
    <3>2. CASE conn[c].wait = "none"
          BY <2>3, <3>1, <3>2
    <3>3. CASE conn[c].wait # "none"
      <4>1. conn[c].ws = "none" /\ conn'[c].ws = "none" /\ conn'[c].wait # "none"
            BY <2>3, <3>1, <3>3 DEF ConnOK
      <4> QED BY <2>3, <3>1, <4>1 DEF ConnOK
    <3> QED BY <3>2, <3>3
  <2>5. ConnTypes' /\ PageTypes'
        BY <1>1, <2>1, <2>2, <2>3 DEF ConnTypes, PageTypes
  <2>6. UsedFirst' /\ Used' = Used /\ Waiting' = Waiting
    <3>1. UsedFirst' /\ Used' = Used
          BY <1>1, <2>1, <2>3, UsedSame
    <3> QED BY <2>1, <3>1 DEF Waiting
  <2>7. Loading' /\ OnlyActive' /\ OneTalk'
        BY <1>1, <2>1, <2>3, <2>6 DEF Loading, OnlyActive, OneTalk
  <2>8. Hope'
        BY <1>1, <2>1, <2>3, <2>6 DEF Hope, Hopeful
  <2> QED BY <2>4, <2>5, <2>6, <2>7, <2>8 DEF SearchInv
<1> QED BY <1>2, <1>3

-----------------------------------------------------------------------------
(* What the user does *)

\* The store is reset or says goodbye, and the current connection is closed or not.
LEMMA LeaveKeeps ==
  ASSUME SearchInv, Stop \/ FarewellOver \/ ErrorBack \/ BackForwardCache
  PROVE  SearchInv'
<1>1. /\ PageTypes /\ ConnTypes /\ EachConn /\ UsedFirst /\ Loading /\ Hope /\ OnlyActive
      /\ OneTalk
      BY DEF SearchInv
<1>2. /\ UNCHANGED <<online, drops, fingerprint, starting, chatSession, net, mode>>
      /\ \/ conn' = conn /\ activeConn' = activeConn
         \/ conn' = ClosedConn(conn, activeConn) /\ activeConn' = 0
      /\ chat' = NewChat \/ chat' = Farewell
      BY DEF Stop, FarewellOver, ErrorBack, BackForwardCache, ResetChat
<1>3. /\ chat' \in Chats /\ chat'.status \notin {"connecting", "queued", "matched"}
      /\ \A p : ChatOn(chat, p) => ChatOn(chat', p)
  <2>1. CASE chat' = NewChat
        BY <2>1, SearchConstants DEF NewChat, Chats, ChatOn
  <2>2. CASE chat' = Farewell
    <3>1. chat \in Chats
          BY <1>1 DEF ConnTypes
    <3>2. /\ chat' \in Chats /\ chat'.status = "ended"
          /\ chat'.peer = chat.peer /\ chat'.shown = chat.shown
          BY <2>2, <3>1 DEF Farewell, Chats
    <3> QED BY <3>2 DEF ChatOn
  <2> QED BY <1>2, <2>1, <2>2
<1>4. Used \in Nat /\ Used <= MaxConns /\ activeConn \in 0..MaxConns
  <2>1. Used \in Nat
        BY UsedNat
  <2>2. Waiting \in Nat /\ Used + Waiting <= MaxConns
        BY <1>1, SearchConstants DEF Waiting, Loading, PageTypes
  <2> QED BY <1>1, <2>1, <2>2, SearchConstants DEF PageTypes
<1>5. activeConn # 0 => conn[activeConn].ws # "unused"
  <2>1. activeConn # 0 => activeConn \in Conns
        BY <1>4 DEF Conns
  <2>2. activeConn <= Used
        BY <1>1 DEF UsedFirst
  <2> QED BY <1>1, <1>4, <2>1, <2>2, UsedNumbers
<1>6. /\ conn' \in [Conns -> Connections]
      /\ \A c \in Conns : /\ ConnOK(conn'[c], chatSession[c], net[c])
                          /\ conn'[c].ws = "unused" <=> conn[c].ws = "unused"
                          /\ ~conn'[c].byUser => conn'[c] = conn[c]
                          /\ c = activeConn => activeConn' = activeConn \/ conn'[c].byUser
  <2>1. CASE conn' = conn /\ activeConn' = activeConn
        BY <1>1, <2>1 DEF ConnTypes, EachConn
  <2>2. CASE conn' = ClosedConn(conn, activeConn) /\ activeConn' = 0
    <3>1. LET cs == ClosedConn(conn, activeConn)
          IN /\ cs \in [Conns -> Connections]
             /\ \A c \in Conns :
                   /\ ConnOK(cs[c], chatSession[c], net[c])
                   /\ cs[c].ws = "unused" <=> conn[c].ws = "unused"
                   /\ IF c = activeConn THEN cs[c].byUser ELSE cs[c] = conn[c]
          BY <1>1, <1>4, <1>5, ClosedGives
    <3> QED BY <2>2, <3>1, Zenon
  <2> QED BY <1>2, <2>1, <2>2
<1>7. ConnTypes' /\ EachConn'
      BY <1>1, <1>2, <1>3, <1>6 DEF ConnTypes, EachConn
<1>8. UsedFirst' /\ Used' = Used /\ Waiting' = Waiting
  <2>1. activeConn' \in {activeConn, 0}
        BY <1>2
  <2>2. UsedFirst' /\ Used' = Used
        BY <1>1, <1>6, <2>1, UsedSame
  <2> QED BY <1>2, <2>2 DEF Waiting
<1>9. PageTypes' /\ Loading'
      BY <1>1, <1>2, <1>8, SearchConstants DEF PageTypes, Loading
<1>10. Hope'
       BY <1>3 DEF Hope
<1>11. OnlyActive'
       BY <1>1, <1>2, <1>6 DEF OnlyActive
<1>12. OneTalk'
  <2> SUFFICES ASSUME starting <= 1
               PROVE  \E p \in 0..MaxMatches :
                        /\ ChatOn(chat', p)
                        /\ \A d \in Conns :
                              ~conn'[d].byUser => Follows(chatSession[d], net[d], p)
      BY <1>2 DEF OneTalk
  <2>1. PICK p \in 0..MaxMatches :
            /\ ChatOn(chat, p)
            /\ \A d \in Conns : ~conn[d].byUser => Follows(chatSession[d], net[d], p)
        BY <1>1 DEF OneTalk
  <2> QED BY <1>3, <1>6, <2>1
<1> QED BY <1>7, <1>8, <1>9, <1>10, <1>11, <1>12 DEF SearchInv

\* What holds before start() leaves the page: nothing was connected while the fingerprint
\* was missing.
LEMMA BeforeStart ==
  ASSUME SearchInv
  PROVE  /\ Used \in Nat /\ starting \in Nat /\ Used + Waiting <= MaxConns
         /\ activeConn \in 0..MaxConns /\ activeConn <= Used
         /\ activeConn # 0 => conn[activeConn].ws # "unused"
         /\ fingerprint # "ready" => Used = 0 /\ activeConn = 0
<1>1. PageTypes /\ UsedFirst /\ Loading
      BY DEF SearchInv
<1>2. Used \in Nat /\ starting \in Nat /\ activeConn \in 0..MaxConns /\ activeConn <= Used
      BY <1>1, UsedNat, SearchConstants DEF PageTypes, UsedFirst
<1>3. Used + Waiting <= MaxConns /\ Waiting \in Nat
      BY <1>1, <1>2 DEF Loading, Waiting
<1>4. activeConn # 0 => activeConn \in Conns
      BY <1>2, SearchConstants DEF Conns
<1>5. Used <= MaxConns
      BY <1>2, <1>3, SearchConstants
<1>6. activeConn # 0 => conn[activeConn].ws # "unused"
      BY <1>1, <1>2, <1>4, <1>5, UsedNumbers
<1>7. fingerprint # "ready" => Used = 0
      BY <1>1 DEF Loading
<1> QED BY <1>2, <1>3, <1>6, <1>7, SearchConstants

LEMMA StartKeeps == ASSUME SearchInv, StartSearch PROVE SearchInv'
<1>1. /\ PageTypes /\ ConnTypes /\ EachConn /\ UsedFirst /\ Loading /\ Hope /\ OnlyActive
      /\ OneTalk
      BY DEF SearchInv
<1>2. /\ UNCHANGED <<online, drops, chatSession, net, mode>>
      /\ Used + Waiting < MaxConns
      /\ fingerprint' = IF fingerprint = "absent" THEN "loading" ELSE fingerprint
      /\ chat' = [chat EXCEPT !.status = "connecting"]
      BY DEF StartSearch
<1> DEFINE cs == ClosedConn(conn, activeConn)
<1>3. /\ cs \in [Conns -> Connections]
      /\ \A c \in Conns : /\ ConnOK(cs[c], chatSession[c], net[c])
                          /\ cs[c].ws = "unused" <=> conn[c].ws = "unused"
                          /\ IF c = activeConn THEN cs[c].byUser ELSE cs[c] = conn[c]
      BY <1>1, BeforeStart, ClosedGives
<1>4. chat' \in Chats /\ chat'.peer = chat.peer /\ chat'.shown = chat.shown
      BY <1>1, <1>2 DEF ConnTypes, Chats
<1>5. \A p : ChatOn(chat, p) => ChatOn(chat', p)
      BY <1>4 DEF ChatOn
<1>6. CASE fingerprint = "ready"
  <2>1. Connect(cs, 1) /\ starting' = starting
        BY <1>6 DEF StartSearch
  <2>2. fingerprint' = "ready" /\ Waiting = 0 /\ Waiting' = 0
        BY <1>2, <1>6 DEF Waiting
  <2>3. Used + 1 <= MaxConns /\ Used \in Nat
        BY <1>2, <2>2, BeforeStart, SearchConstants
  <2> HIDE DEF cs
  <2>4. /\ conn' \in [Conns -> Connections]
        /\ \A c \in Conns : ConnOK(conn'[c], chatSession[c], net[c])
        /\ \A c \in Conns : IF c \in Used + 1..Used + 1 THEN conn'[c] = Fresh
                            ELSE conn'[c] = cs[c]
        /\ UsedFirst' /\ Used' = Used + 1 /\ activeConn' \in 0..MaxConns
        BY <1>1, <1>3, <2>1, <2>3, ConnectGives
  <2>5. activeConn' = Used + 1 /\ Used + 1 \in Conns
        BY <2>1, <2>3, SearchConstants DEF Connect, Conns
  <2>6. conn'[Used + 1] = Fresh /\ \A c \in Conns : c # Used + 1 => conn'[c] = cs[c]
        BY <2>3, <2>4, <2>5 DEF Conns
  <2>7. ConnTypes' /\ EachConn'
        BY <1>1, <1>2, <1>4, <2>4 DEF ConnTypes, EachConn
  <2>8. PageTypes' /\ Loading'
        BY <1>1, <1>2, <1>6, <2>1, <2>2, <2>3, <2>4 DEF PageTypes, Loading
  <2>9. Hope'
        BY <2>5, <2>6, FreshServes DEF Hope
  <2>10. starting <= 1 => \A c \in Conns : conn[c].ws # "unused" /\ c # activeConn => conn[c].byUser
         BY <1>1 DEF OnlyActive
  <2>11. ASSUME starting <= 1, NEW c \in Conns, c # Used + 1, ~conn'[c].byUser
         PROVE  conn[c].ws = "unused"
    <3>1. conn'[c] = cs[c] /\ c # activeConn /\ cs[c] = conn[c]
          BY <1>3, <2>6, <2>11
    <3> QED BY <2>10, <2>11, <3>1
  <2>12. OnlyActive'
    <3> SUFFICES ASSUME starting <= 1, NEW c \in Conns, conn'[c].ws # "unused",
                        ~conn'[c].byUser
                 PROVE  c = Used + 1
        BY <2>1, <2>5 DEF OnlyActive
    <3>1. CASE c # Used + 1
      <4>1. conn[c].ws = "unused" /\ conn'[c] = cs[c]
            BY <2>6, <2>11, <3>1
      <4> QED BY <1>3, <4>1
    <3> QED BY <3>1
  <2>13. OneTalk'
    <3> SUFFICES ASSUME starting <= 1
                 PROVE  \E p \in 0..MaxMatches :
                          /\ ChatOn(chat', p)
                          /\ \A d \in Conns :
                                ~conn'[d].byUser => Follows(chatSession[d], net[d], p)
        BY <1>2, <2>1 DEF OneTalk
    <3>1. PICK p \in 0..MaxMatches : ChatOn(chat, p)
          BY <1>1 DEF OneTalk
    <3>2. ASSUME NEW d \in Conns, ~conn'[d].byUser
          PROVE  chatSession[d] = NoSession /\ net[d] = <<>>
      <4>1. CASE d = Used + 1
        <5>1. conn'[d].ws = "connecting"
              BY <2>6, <4>1, FreshServes
        <5> QED BY <2>4, <5>1 DEF ConnOK
      <4>2. CASE d # Used + 1
        <5>1. conn[d].ws = "unused"
              BY <2>11, <3>2, <4>2
        <5> QED BY <1>1, <5>1 DEF EachConn, ConnOK
      <4> QED BY <4>1, <4>2
    <3> QED BY <1>5, <3>1, <3>2, FollowsNone
  <2> QED BY <2>4, <2>7, <2>8, <2>9, <2>12, <2>13 DEF SearchInv
<1>7. CASE fingerprint # "ready"
  <2>1. conn' = cs /\ activeConn' = 0 /\ starting' = starting + 1 /\ activeConn = 0 /\ Used = 0
        BY <1>7, BeforeStart DEF StartSearch
  <2>2. conn' = conn
        BY <2>1 DEF ClosedConn
  <2>3. UsedFirst' /\ Used' = 0
        BY <1>1, <2>1, <2>2, UsedSame
  <2>4. /\ fingerprint' = "loading" /\ starting \in Nat
        /\ Waiting' = starting + 1
        BY <1>1, <1>2, <1>7, <2>1, BeforeStart DEF Waiting, PageTypes
  <2>5. starting + 1 <= MaxConns
        BY <1>1, <1>2, <1>7, <2>1, <2>4, SearchConstants DEF Waiting, PageTypes, Loading
  <2>6. PageTypes' /\ Loading'
        BY <1>1, <1>2, <2>1, <2>3, <2>4, <2>5, SearchConstants DEF PageTypes, Loading
  <2>7. ConnTypes' /\ EachConn'
        BY <1>1, <1>2, <1>4, <2>2 DEF ConnTypes, EachConn
  <2>8. Hope'
        BY <2>4 DEF Hope
  <2>9. starting' <= 1 => starting <= 1
        BY <2>1, <2>4
  <2>10. OnlyActive'
         BY <1>1, <2>1, <2>2, <2>9 DEF OnlyActive
  <2>11. OneTalk'
         BY <1>1, <1>2, <1>5, <2>2, <2>9 DEF OneTalk
  <2> QED BY <2>3, <2>6, <2>7, <2>8, <2>10, <2>11 DEF SearchInv
<1> QED BY <1>6, <1>7

LEMMA FingerprintKeeps == ASSUME SearchInv, FingerprintReady PROVE SearchInv'
<1>1. /\ PageTypes /\ ConnTypes /\ EachConn /\ UsedFirst /\ Loading /\ OneTalk
      BY DEF SearchInv
<1>2. /\ UNCHANGED <<online, drops, starting, chatSession, net, chat, mode>>
      /\ fingerprint = "loading" /\ fingerprint' = "ready" /\ Connect(conn, starting)
      BY DEF FingerprintReady
<1>3. /\ Used = 0 /\ starting \in Nat /\ starting > 0 /\ starting <= MaxConns
      /\ Waiting = starting /\ Waiting' = 0
      BY <1>1, <1>2, BeforeStart DEF Loading, Waiting
<1>4. \A c \in Conns : conn[c].ws = "unused"
      BY <1>1, <1>3, UsedNumbers, SearchConstants DEF Conns
<1>5. /\ conn \in [Conns -> Connections]
      /\ \A c \in Conns : ConnOK(conn[c], chatSession[c], net[c])
      BY <1>1 DEF ConnTypes, EachConn
<1>6. /\ conn' \in [Conns -> Connections]
      /\ \A c \in Conns : ConnOK(conn'[c], chatSession[c], net[c])
      /\ \A c \in Conns : IF c \in Used + 1..Used + starting THEN conn'[c] = Fresh
                          ELSE conn'[c] = conn[c]
      /\ UsedFirst' /\ Used' = Used + starting /\ activeConn' \in 0..MaxConns
      BY <1>1, <1>2, <1>3, <1>5, ConnectGives
<1>7. activeConn' = starting /\ starting \in Conns
      BY <1>2, <1>3, SearchConstants DEF Connect, Conns
<1>8. \A c \in Conns : IF c <= starting THEN conn'[c] = Fresh ELSE conn'[c] = conn[c]
      BY <1>3, <1>6 DEF Conns
<1>9. ConnTypes' /\ EachConn'
      BY <1>1, <1>2, <1>6 DEF ConnTypes, EachConn
<1>10. PageTypes' /\ Loading'
       BY <1>1, <1>2, <1>3, <1>6 DEF PageTypes, Loading
<1>11. Hope'
       BY <1>7, <1>8, <1>3, FreshServes DEF Hope
<1>12. OnlyActive'
  <2> SUFFICES ASSUME starting <= 1, NEW c \in Conns, conn'[c].ws # "unused"
               PROVE  c = starting
      BY <1>2, <1>7 DEF OnlyActive
  <2>1. c <= starting
        BY <1>4, <1>8
  <2> QED BY <1>3, <2>1, SearchConstants DEF Conns
<1>13. OneTalk'
  <2> SUFFICES ASSUME starting <= 1
               PROVE  \E p \in 0..MaxMatches :
                        /\ ChatOn(chat, p)
                        /\ \A d \in Conns :
                              ~conn'[d].byUser => Follows(chatSession[d], net[d], p)
      BY <1>2 DEF OneTalk
  <2>1. PICK p \in 0..MaxMatches : ChatOn(chat, p)
        BY <1>1 DEF OneTalk
  <2>2. \A d \in Conns : chatSession[d] = NoSession /\ net[d] = <<>>
        BY <1>4, <1>5 DEF ConnOK
  <2> QED BY <2>1, <2>2, FollowsNone
<1> QED BY <1>6, <1>9, <1>10, <1>11, <1>12, <1>13 DEF SearchInv

LEMMA SearchInitially == MatchInit => SearchInv
<1> SUFFICES ASSUME MatchInit PROVE SearchInv
    OBVIOUS
<1>1. /\ online = TRUE /\ drops = 0 /\ starting = 0 /\ activeConn = 0
      /\ fingerprint \in {"absent", "ready"} /\ chat = NewChat /\ mode = 1
      /\ conn = [c \in Conns |-> NewConn] /\ chatSession = [c \in Conns |-> NoSession]
      /\ net = [c \in Conns |-> <<>>]
      BY DEF MatchInit
<1>2. /\ NewConn \in Connections /\ NewConn.ws = "unused" /\ NewConn.wait = "none"
      /\ NewConn.fatal = FALSE /\ NoSession \in Sessions
      BY SearchConstants DEF NewConn, Connections, NoSession, Sessions
<1>3. NewChat \in Chats /\ NewChat.status = "idle" /\ ChatOn(NewChat, 0)
      BY SearchConstants DEF NewChat, Chats, ChatOn
<1>4. \A i \in DOMAIN <<>> : FALSE
      OBVIOUS
<1>5. ConnOK(NewConn, NoSession, <<>>)
      BY <1>2, <1>4 DEF ConnOK
<1>6. PageTypes
      BY <1>1, SearchConstants DEF PageTypes
<1>7. ConnTypes /\ EachConn
      BY <1>1, <1>2, <1>3, <1>5 DEF ConnTypes, EachConn
<1>8. {c \in Conns : conn[c].ws # "unused"} = {} /\ Used = 0
  <2>1. {c \in Conns : conn[c].ws # "unused"} = {}
        BY <1>1, <1>2
  <2> QED BY <2>1, FS_EmptySet DEF Used
<1>9. UsedFirst
      BY <1>1, <1>8 DEF UsedFirst
<1>10. Loading /\ Hope /\ OnlyActive
       BY <1>1, <1>2, <1>3, <1>8, SearchConstants DEF Loading, Waiting, Hope, OnlyActive
<1>11. OneTalk
  <2>1. \A c \in Conns : Follows(chatSession[c], net[c], 0)
        BY <1>1, FollowsNone
  <2> QED BY <1>1, <1>3, <2>1, SearchConstants DEF OneTalk
<1> QED BY <1>6, <1>7, <1>9, <1>10, <1>11 DEF SearchInv

LEMMA SearchStutters == ASSUME SearchInv, UNCHANGED matchVars PROVE SearchInv'
<1>1. Used' = Used /\ Waiting' = Waiting
      BY DEF matchVars, Used, Waiting
<1> QED BY <1>1 DEF SearchInv, matchVars, PageTypes, ConnTypes, EachConn, UsedFirst, Loading,
                    Hope, OnlyActive, OneTalk

LEMMA SearchStep == ASSUME SearchInv, [MatchNext]_matchVars PROVE SearchInv'
<1>1. CASE UNCHANGED matchVars
      BY <1>1, SearchStutters
<1>2. CASE StartSearch \/ FingerprintReady \/ NextPeer
      BY <1>2, StartKeeps, FingerprintKeeps, NextPeerKeeps
<1>3. CASE Stop \/ FarewellOver \/ ErrorBack \/ BackForwardCache
      BY <1>3, LeaveKeeps
<1>4. CASE GoOffline \/ GoOnline
      BY <1>4, SurroundingsKeep
<1>5. ASSUME NEW m \in DOMAIN Modes, TapTab(m) \/ Swipe(m)
      PROVE  SearchInv'
  <2>1. SwitchTab(m)
        BY <1>5 DEF TapTab, Swipe
  <2> QED BY <2>1, SurroundingsKeep
<1>6. ASSUME NEW c \in Conns, AcceptSocket(c) \/ OnMatchFrame(c) \/ Reopen(c)
      PROVE  SearchInv'
      BY <1>6, AcceptKeeps, ReadKeeps, ReopenKeeps
<1>7. ASSUME NEW c \in Conns,
             \/ Pair(c) \/ PeerSpeaks(c) \/ PeerLeaves(c)
             \/ \E code \in FatalCodes \cup {"queue_timeout", "message_blocked"} :
                  ServerRefuses(c, code)
      PROVE  SearchInv'
      BY <1>7, ServerKeeps
<1>8. ASSUME NEW c \in Conns, ServerClosed(c) \/ CloseEnds(c) \/ NetworkDrop(c)
      PROVE  SearchInv'
  <2>1. drops \in 0..MaxDrops
        BY DEF SearchInv, PageTypes
  <2>2. /\ OnClose(c) /\ online' = online
        /\ conn[c].ws \in {"connecting", "open", "closing"}
        BY <1>8 DEF ServerClosed, CloseEnds, NetworkDrop
  <2>3. drops' = drops \/ (drops < MaxDrops /\ drops' = drops + 1)
        BY <1>8 DEF ServerClosed, CloseEnds, NetworkDrop
  <2>4. drops' \in 0..MaxDrops
        BY <2>1, <2>3, SearchConstants
  <2> QED BY <2>2, <2>4, CloseKeeps
<1> QED BY <1>1, <1>2, <1>3, <1>4, <1>5, <1>6, <1>7, <1>8, Zenon DEF MatchNext

-----------------------------------------------------------------------------
(* The theorems *)

\* The search keeps its types.
THEOREM MatchTypes == MatchSpec => []MatchTypeOK
<1>1. MatchInit => SearchInv
      BY SearchInitially
<1>2. SearchInv /\ [MatchNext]_matchVars => SearchInv'
      BY SearchStep
<1>3. SearchInv => MatchTypeOK
      BY SearchInvGives
<1> QED BY <1>1, <1>2, <1>3, PTL DEF MatchSpec

\* The messages on the page are those of the partner its header names, through every
\* reconnection, retry and next partner, as long as two searches never waited together for
\* the fingerprint (lib/ws.ts, hooks/useMatch.ts, stores/chatStore.ts).
THEOREM MessagesOfThisPeerHolds == MatchSpec => []MessagesOfThisPeer
<1>1. MatchInit => SearchInv
      BY SearchInitially
<1>2. SearchInv /\ [MatchNext]_matchVars => SearchInv'
      BY SearchStep
<1>3. SearchInv => MessagesOfThisPeer
  <2> SUFFICES ASSUME SearchInv, starting <= 1
               PROVE  /\ Cardinality(chat.shown) <= 1
                      /\ chat.peer # 0 => chat.shown \subseteq {chat.peer}
      BY DEF MessagesOfThisPeer
  <2>1. PICK p \in 0..MaxMatches : ChatOn(chat, p)
        BY DEF SearchInv, OneTalk
  <2>2. chat.shown = {} \/ chat.shown = {p}
        BY <2>1 DEF ChatOn
  <2>3. Cardinality({p}) = 1 /\ Cardinality({}) = 0
        BY FS_Singleton, FS_EmptySet
  <2>4. Cardinality(chat.shown) <= 1
        BY <2>2, <2>3
  <2> QED BY <2>1, <2>4 DEF ChatOn
<1> QED BY <1>1, <1>2, <1>3, PTL DEF MatchSpec

\* Whenever the search screen shows, a fingerprint, a socket or a reconnection is under way:
\* of the connections one at least was ended neither by the user nor by an error.
THEOREM SearchHasSocketHolds == MatchSpec => []SearchHasSocket
<1>1. MatchInit => SearchInv
      BY SearchInitially
<1>2. SearchInv /\ [MatchNext]_matchVars => SearchInv'
      BY SearchStep
<1>3. SearchInv => SearchHasSocket
  <2> SUFFICES ASSUME SearchInv, chat.status \in {"connecting", "queued"}, ~(Waiting > 0)
               PROVE  Live # {}
      BY DEF SearchHasSocket
  <2>1. PICK c \in Conns : Hopeful(conn[c])
        BY DEF SearchInv, Hope
  <2>2. conn[c] \in Connections /\ ConnOK(conn[c], chatSession[c], net[c])
        BY DEF SearchInv, ConnTypes, EachConn
  <2>3. conn[c].ws \in {"connecting", "open"} \/ conn[c].wait # "none"
        BY <2>1, <2>2 DEF Hopeful, ConnOK, Connections
  <2> QED BY <2>1, <2>3 DEF Live, Hopeful
<1> QED BY <1>1, <1>2, <1>3, PTL DEF MatchSpec
===============================================================================
