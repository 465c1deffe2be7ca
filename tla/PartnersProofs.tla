----------------------------- MODULE PartnersProofs -----------------------------
(***************************************************************************)
(* Theorems about what two partners share through the gateway: the thread  *)
(* of their conversation with its corrections, and the friendship they may *)
(* strike up.                                                              *)
(***************************************************************************)
EXTENDS ChatThread, FriendPrompt, FriendThread, CollectionLemmas

-----------------------------------------------------------------------------
(* The thread of a conversation *)

LineType == [id : 0..MaxIds, from : From]
FrameType == [type : {"msg", "correct", "left", "error"}, id : 0..MaxIds,
              version : 0..MaxVersions]

\* What each variable holds.
TabOK == tab \in [hidden : BOOLEAN, unread : Nat, seen : Nat]

SheetOK == /\ editable \subseteq Ids /\ target \in 0..MaxIds
           /\ status \in {"matched", "post_chat", "error"}

LinesOK == thread \in Seq(LineType)

VersionTypes == /\ shown \in [Ids -> 0..MaxVersions] /\ peerSees \in [Ids -> 0..MaxVersions]
                /\ versions \in 0..MaxVersions

WiresOK == /\ out \in Seq(FrameType) /\ Len(out) <= WireCap
           /\ in \in Seq(FrameType) /\ Len(in) <= WireCap

\* No two lines of the thread have one id: a message has one author.
OneLineEach ==
    \A i, j \in DOMAIN thread : thread[i].id = thread[j].id /\ thread[i].id # 0 => i = j

\* A version is shown after it was submitted, and one that I wrote here first.
Submitted ==
    \A m \in Ids : /\ shown[m] <= versions /\ peerSees[m] <= versions
                   /\ ~Mine(m) => peerSees[m] <= shown[m]

\* The corrections under way to the partner are of their messages, newer than what they
\* show and shown here; those of the other direction are of mine, and newer than what is
\* shown here.
CarriesOut ==
    \A m \in Ids : \A i \in DOMAIN out :
        out[i].type = "correct" /\ out[i].id = m =>
            Theirs(m) /\ peerSees[m] <= out[i].version /\ out[i].version <= shown[m]

CarriesIn ==
    \A m \in Ids : \A i \in DOMAIN in :
        in[i].type = "correct" /\ in[i].id = m =>
            Mine(m) /\ shown[m] <= in[i].version /\ in[i].version <= versions

\* They travel in the order they were submitted.
Rising(q) ==
    \A i, j \in DOMAIN q :
        i < j /\ q[i].type = "correct" /\ q[j].type = "correct" /\ q[i].id = q[j].id =>
            q[i].version <= q[j].version

HaveIds(q) == \A i \in DOMAIN q : q[i].type \in {"msg", "correct"} => q[i].id \in Ids

\* The sheet is open on a message of the partner.
SheetOnTheirs == \A m \in Ids : target = m => Theirs(m)

ThreadInv ==
    /\ TabOK /\ SheetOK /\ LinesOK /\ VersionTypes /\ WiresOK
    /\ OneLineEach /\ Submitted /\ CarriesOut /\ CarriesIn /\ Rising(out) /\ Rising(in)
    /\ HaveIds(out) /\ HaveIds(in) /\ SheetOnTheirs

LEMMA ThreadInvGives == ThreadInv => ThreadTypeOK
<1> SUFFICES ASSUME ThreadInv PROVE ThreadTypeOK
    OBVIOUS
<1>1. \A i \in DOMAIN thread : thread[i].id \in 0..MaxIds /\ thread[i].from \in From
  <2>1. \A i \in DOMAIN thread : thread[i] \in LineType
        BY DEF ThreadInv, LinesOK
  <2> QED BY <2>1 DEF LineType
<1>2. TabOK /\ SheetOK /\ VersionTypes /\ Len(out) <= WireCap /\ Len(in) <= WireCap
      BY DEF ThreadInv, WiresOK
<1> QED BY <1>1, <1>2, Zenon DEF TabOK, SheetOK, VersionTypes, ThreadTypeOK

LEMMA ThreadConstants ==
  /\ MaxIds \in Nat /\ MaxVersions \in Nat /\ WireCap \in Nat /\ WireCap > 0
  /\ \A m \in Ids : m \in Nat /\ m # 0 /\ m \in 0..MaxIds
BY ThreadAssumption DEF ThreadAssumption, Ids

\* The author of a message is the one of its only line.
LEMMA OneAuthor ==
  ASSUME NEW th, \A i, j \in DOMAIN th : th[i].id = th[j].id /\ th[i].id # 0 => i = j,
         NEW m \in Ids, NEW i \in DOMAIN th, th[i].id = m
  PROVE  (CHOOSE j \in DOMAIN th : th[j].id = m) = i
<1> DEFINE a == CHOOSE j \in DOMAIN th : th[j].id = m
<1>1. a \in DOMAIN th /\ th[a].id = m
      OBVIOUS
<1> QED BY <1>1, ThreadConstants

LEMMA Authors ==
  ASSUME OneLineEach, NEW m \in Ids
  PROVE  /\ Mine(m) <=> \E i \in DOMAIN thread : thread[i].id = m /\ thread[i].from = "me"
         /\ Theirs(m) <=> \E i \in DOMAIN thread : thread[i].id = m /\ thread[i].from = "peer"
<1>1. \A i \in DOMAIN thread : thread[i].id = m => Author(m) = i
      BY OneAuthor DEF OneLineEach, Author
<1> QED BY <1>1 DEF Mine, Theirs, Known

LEMMA NotBoth == ASSUME NEW m, Theirs(m) PROVE ~Mine(m) /\ Known(m)
BY DEF Theirs, Mine

LEMMA FromPeerNat == ASSUME NEW th \in Seq(LineType) PROVE FromPeer(th) \in Nat
<1> DEFINE S == {i \in DOMAIN th : th[i].from # "me"}
<1>1. S \subseteq 1..Len(th) /\ Len(th) \in Nat
      OBVIOUS
<1>2. IsFiniteSet(1..Len(th))
      BY <1>1, FS_Interval
<1> HIDE DEF S
<1>3. Cardinality(S) \in Nat
      BY <1>1, <1>2, FS_Subset, FS_CardinalityType
<1> QED BY <1>3 DEF FromPeer, S

\* A line more: nothing is forgotten about the authors of the others.
LEMMA LineAdded ==
  ASSUME LinesOK, OneLineEach, TabOK, NEW l \in LineType, l.id = 0 \/ ~Known(l.id),
         ThreadShown(Append(thread, l))
  PROVE  /\ LinesOK' /\ OneLineEach' /\ TabOK'
         /\ \A m \in Ids : (Mine(m) => Mine(m)') /\ (Theirs(m) => Theirs(m)')
<1>1. thread' = Append(thread, l) /\ tab' = Noticed(Append(thread, l))
      BY DEF ThreadShown
<1>2. thread \in Seq(LineType)
      BY DEF LinesOK
<1>3. /\ Append(thread, l) \in Seq(LineType)
      /\ \A i \in DOMAIN Append(thread, l) :
            \/ i \in DOMAIN thread /\ Append(thread, l)[i] = thread[i]
            \/ i = Len(thread) + 1 /\ Append(thread, l)[i] = l
      /\ \A i \in DOMAIN thread : i \in DOMAIN Append(thread, l) /\ Append(thread, l)[i] = thread[i]
      BY <1>2
<1>4. LinesOK' /\ (\A i \in DOMAIN thread : i \in DOMAIN thread' /\ thread'[i] = thread[i])
      BY <1>1, <1>3 DEF LinesOK
<1>5. OneLineEach'
      BY <1>1, <1>3 DEF OneLineEach, Known
<1>6. TabOK'
  <2>1. FromPeer(Append(thread, l)) \in Nat
        BY <1>3, FromPeerNat
  <2> DEFINE n == FromPeer(Append(thread, l))
             u == IF tab.hidden THEN tab.unread + n - tab.seen ELSE tab.unread
  <2>2. n > tab.seen => u \in Nat
        BY <2>1 DEF TabOK
  <2>3. tab' = IF n > tab.seen THEN [tab EXCEPT !.seen = n, !.unread = u] ELSE tab
        BY <1>1 DEF Noticed
  <2> HIDE DEF n, u
  <2> QED BY <2>1, <2>2, <2>3, Zenon DEF TabOK, n
<1>7. ASSUME NEW m \in Ids PROVE (Mine(m) => Mine(m)') /\ (Theirs(m) => Theirs(m)')
  <2>1. /\ Mine(m)' <=> \E i \in DOMAIN thread' : thread'[i].id = m /\ thread'[i].from = "me"
        /\ Theirs(m)' <=> \E i \in DOMAIN thread' : thread'[i].id = m /\ thread'[i].from = "peer"
    <3>1. PICK th : th = thread'
          OBVIOUS
    <3>2. \A i \in DOMAIN th : th[i].id = m => (CHOOSE j \in DOMAIN th : th[j].id = m) = i
          BY <1>5, <3>1, OneAuthor DEF OneLineEach
    <3>3. \A i \in DOMAIN thread' : thread'[i].id = m => Author(m)' = i
          BY <3>1, <3>2 DEF Author
    <3> QED BY <3>3 DEF Mine, Theirs, Known
  <2> QED BY <1>4, <2>1, Authors
<1> QED BY <1>4, <1>5, <1>6, <1>7

-----------------------------------------------------------------------------
(* What a step leaves of the two queues and of the authors *)

Grown == \A m \in Ids : (Mine(m) => Mine(m)') /\ (Theirs(m) => Theirs(m)')

\* The corrections of r are corrections of q.
Carried(r, q) ==
    \A i \in DOMAIN r : r[i].type = "correct" => \E j \in DOMAIN q : q[j] = r[i]

LEMMA Unmoved == ASSUME UNCHANGED thread PROVE Grown
BY DEF Grown, Mine, Theirs, Known, Author

\* A frame that is no correction, behind the others.
LEMMA OtherQueued ==
  ASSUME NEW q \in Seq(FrameType), Rising(q), NEW f \in FrameType, f.type # "correct"
  PROVE  Rising(Append(q, f)) /\ Carried(Append(q, f), q)
<1> DEFINE r == Append(q, f)
<1>1. \A i \in DOMAIN r : \/ i \in DOMAIN q /\ r[i] = q[i]
                          \/ i = Len(q) + 1 /\ r[i] = f
      BY Queued
<1> HIDE DEF r
<1>2. \A i \in DOMAIN r : r[i].type = "correct" => i \in DOMAIN q /\ r[i] = q[i]
      BY <1>1
<1>3. Rising(r) /\ Carried(r, q)
      BY <1>2 DEF Rising, Carried
<1> QED BY <1>3 DEF r

\* A correction that is newer than the others of its message.
LEMMA CorrectionQueued ==
  ASSUME NEW q \in Seq(FrameType), Rising(q), NEW f \in FrameType,
         \A i \in DOMAIN q : q[i].type = "correct" /\ q[i].id = f.id => q[i].version <= f.version
  PROVE  Rising(Append(q, f))
<1> DEFINE r == Append(q, f)
<1>1. \A i \in DOMAIN r : \/ i \in DOMAIN q /\ r[i] = q[i]
                          \/ i = Len(q) + 1 /\ r[i] = f
      BY Queued
<1>2. DOMAIN q = 1..Len(q) /\ Len(q) \in Nat /\ DOMAIN r = 1..Len(q) + 1
      OBVIOUS
<1> HIDE DEF r
<1>3. ASSUME NEW i \in DOMAIN r, NEW j \in DOMAIN r, i < j, r[i].type = "correct",
             r[j].type = "correct", r[i].id = r[j].id
      PROVE  r[i].version <= r[j].version
  <2>1. i \in DOMAIN q /\ r[i] = q[i]
        BY <1>1, <1>2, <1>3
  <2> QED BY <1>1, <1>3, <2>1 DEF Rising
<1>4. Rising(r)
      BY <1>3 DEF Rising
<1> QED BY <1>4 DEF r

\* The rest of a queue, after its first frame.
LEMMA FirstTaken ==
  ASSUME NEW q \in Seq(FrameType), Rising(q), q # <<>>
  PROVE  /\ Rising(Tail(q)) /\ Carried(Tail(q), q)
         /\ Head(q).type = "correct" =>
              \A i \in DOMAIN Tail(q) :
                  Tail(q)[i].type = "correct" /\ Tail(q)[i].id = Head(q).id =>
                      Head(q).version <= Tail(q)[i].version
<1> DEFINE r == Tail(q)
<1>1. /\ 1 \in DOMAIN q /\ Head(q) = q[1] /\ DOMAIN r \subseteq Nat \ {0}
      /\ \A i \in DOMAIN r : i + 1 \in DOMAIN q /\ r[i] = q[i + 1]
      BY Dequeued
<1> HIDE DEF r
<1>2. \A i, j \in DOMAIN r : i < j => i + 1 < j + 1
      BY <1>1
<1>3. Rising(r) /\ Carried(r, q)
      BY <1>1, <1>2 DEF Rising, Carried
<1>4. \A i \in DOMAIN r : 1 < i + 1
      BY <1>1
<1>5. Head(q).type = "correct" =>
        \A i \in DOMAIN r : r[i].type = "correct" /\ r[i].id = Head(q).id =>
            Head(q).version <= r[i].version
      BY <1>1, <1>4 DEF Rising
<1> QED BY <1>3, <1>5 DEF r

\* While nobody corrects, the versions shown stay and so does what is carried.
LEMMA VersionsStay ==
  ASSUME Grown, Submitted, CarriesOut, CarriesIn, UNCHANGED <<shown, versions, peerSees>>,
         Carried(out', out), Carried(in', in)
  PROVE  Submitted' /\ CarriesOut' /\ CarriesIn'
<1>1. Submitted'
      BY DEF Submitted, Grown
<1>2. CarriesOut'
      BY DEF CarriesOut, Carried, Grown
<1>3. CarriesIn'
      BY DEF CarriesIn, Carried, Grown
<1> QED BY <1>1, <1>2, <1>3

LEMMA NothingQueued == \A q : Carried(q, q)
BY DEF Carried

-----------------------------------------------------------------------------
(* The steps of the conversation *)

\* A frame of a known kind leaves a queue well formed.
LEMMA IdsQueued ==
  ASSUME NEW q \in Seq(FrameType), HaveIds(q)
  PROVE  /\ \A f \in FrameType :
              (f.type \in {"msg", "correct"} => f.id \in Ids) => HaveIds(Append(q, f))
         /\ q # <<>> => HaveIds(Tail(q)) /\ (Head(q).type \in {"msg", "correct"} => Head(q).id \in Ids)
<1>1. ASSUME NEW f \in FrameType, f.type \in {"msg", "correct"} => f.id \in Ids
      PROVE  HaveIds(Append(q, f))
  <2>1. \A i \in DOMAIN Append(q, f) : \/ i \in DOMAIN q /\ Append(q, f)[i] = q[i]
                                       \/ i = Len(q) + 1 /\ Append(q, f)[i] = f
        BY Queued
  <2> QED BY <1>1, <2>1 DEF HaveIds
<1>2. ASSUME q # <<>>
      PROVE  HaveIds(Tail(q)) /\ (Head(q).type \in {"msg", "correct"} => Head(q).id \in Ids)
  <2>1. /\ 1 \in DOMAIN q /\ Head(q) = q[1]
        /\ \A i \in DOMAIN Tail(q) : i + 1 \in DOMAIN q /\ Tail(q)[i] = q[i + 1]
        BY <1>2, Dequeued
  <2> QED BY <2>1 DEF HaveIds
<1> QED BY <1>1, <1>2

LEMMA Frames ==
  ASSUME NEW m \in 0..MaxIds, NEW v \in 0..MaxVersions,
         NEW t \in {"msg", "correct", "left", "error"}
  PROVE  /\ ThreadFrame(t, m, v) \in FrameType
         /\ ThreadFrame(t, m, v).type = t /\ ThreadFrame(t, m, v).id = m
         /\ ThreadFrame(t, m, v).version = v
BY DEF ThreadFrame, FrameType

\* The sheet, the link that edits a correction and the tab.
LEMMA AroundTheThread ==
  ASSUME ThreadInv, UNCHANGED <<thread, shown, versions, out, in, peerSees>>,
         TabOK', SheetOK', SheetOnTheirs'
  PROVE  ThreadInv'
<1>1. Grown
      BY Unmoved
<1>2. Submitted' /\ CarriesOut' /\ CarriesIn'
      BY <1>1, VersionsStay, NothingQueued DEF ThreadInv
<1>3. LinesOK' /\ VersionTypes' /\ WiresOK' /\ OneLineEach'
      BY DEF ThreadInv, LinesOK, VersionTypes, WiresOK, OneLineEach
<1>4. Rising(out)' /\ Rising(in)' /\ HaveIds(out)' /\ HaveIds(in)'
      BY DEF ThreadInv, Rising, HaveIds
<1> QED BY <1>2, <1>3, <1>4, Zenon DEF ThreadInv

LEMMA SheetSteps ==
  ASSUME ThreadInv, \/ CloseCorrection \/ HideTab \/ ShowTab
                    \/ \E m \in Ids : OpenCorrection(m) \/ EditOver(m)
  PROVE  ThreadInv'
<1>0. ThreadInv /\ TabOK /\ SheetOK /\ SheetOnTheirs /\ thread \in Seq(LineType)
      BY DEF ThreadInv, LinesOK
<1>1. CASE CloseCorrection
  <2>1. TabOK' /\ SheetOK'
        BY <1>0, <1>1, ThreadConstants DEF CloseCorrection, TabOK, SheetOK
  <2>2. SheetOnTheirs'
        BY <1>1, ThreadConstants DEF CloseCorrection, SheetOnTheirs
  <2> QED BY <1>1, <2>1, <2>2, AroundTheThread DEF CloseCorrection
<1>2. CASE HideTab
  <2>1. TabOK'
        BY <1>0, <1>2, Zenon DEF HideTab, TabOK
  <2>2. SheetOK' /\ SheetOnTheirs'
        BY <1>0, <1>2 DEF HideTab, SheetOK, SheetOnTheirs, Theirs, Known, Author
  <2> QED BY <1>2, <2>1, <2>2, AroundTheThread DEF HideTab
<1>3. CASE ShowTab
  <2>1. TabOK'
        BY <1>0, <1>3, FromPeerNat DEF ShowTab, TabOK
  <2>2. SheetOK' /\ SheetOnTheirs'
        BY <1>0, <1>3 DEF ShowTab, SheetOK, SheetOnTheirs, Theirs, Known, Author
  <2> QED BY <1>3, <2>1, <2>2, AroundTheThread DEF ShowTab
<1>4. ASSUME NEW m \in Ids, OpenCorrection(m) PROVE ThreadInv'
  <2>1. TabOK' /\ SheetOK'
        BY <1>0, <1>4, ThreadConstants DEF OpenCorrection, TabOK, SheetOK
  <2>2. SheetOnTheirs'
        BY <1>4 DEF OpenCorrection, CanCorrect, SheetOnTheirs, Theirs, Known, Author
  <2> QED BY <1>4, <2>1, <2>2, AroundTheThread DEF OpenCorrection
<1>5. ASSUME NEW m \in Ids, EditOver(m) PROVE ThreadInv'
  <2>1. TabOK' /\ SheetOK'
        BY <1>0, <1>5 DEF EditOver, TabOK, SheetOK
  <2>2. SheetOnTheirs'
        BY <1>0, <1>5 DEF EditOver, SheetOnTheirs, Theirs, Known, Author
  <2> QED BY <1>5, <2>1, <2>2, AroundTheThread DEF EditOver
<1> QED BY <1>1, <1>2, <1>3, <1>4, <1>5

\* A step that submits and shows no correction.
LEMMA NobodyCorrects ==
  ASSUME ThreadInv, Grown, LinesOK', OneLineEach', TabOK', SheetOK',
         UNCHANGED <<shown, versions, peerSees>>, target' \in {target, 0}, WiresOK',
         Carried(out', out), Carried(in', in), Rising(out)', Rising(in)',
         HaveIds(out)', HaveIds(in)'
  PROVE  ThreadInv'
<1>1. Submitted' /\ CarriesOut' /\ CarriesIn'
      BY VersionsStay DEF ThreadInv
<1>2. VersionTypes'
      BY DEF ThreadInv, VersionTypes
<1>3. SheetOnTheirs'
      BY ThreadConstants DEF ThreadInv, SheetOnTheirs, Grown
<1> QED BY <1>1, <1>2, <1>3, Zenon DEF ThreadInv

\* The first frame of a queue is taken, the thread and the sheet are left alone.
LEMMA OutTaken ==
  ASSUME ThreadInv, out # <<>>, out' = Tail(out)
  PROVE  /\ out' \in Seq(FrameType) /\ Len(out') <= WireCap
         /\ Rising(out)' /\ HaveIds(out)' /\ Carried(out', out)
<1>1. out \in Seq(FrameType) /\ Len(out) <= WireCap /\ Rising(out) /\ HaveIds(out)
      BY DEF ThreadInv, WiresOK
<1>2. Tail(out) \in Seq(FrameType) /\ Len(Tail(out)) = Len(out) - 1 /\ Len(out) \in Nat
      BY <1>1, Dequeued
<1>3. Rising(Tail(out)) /\ Carried(Tail(out), out) /\ HaveIds(Tail(out))
      BY <1>1, FirstTaken, IdsQueued
<1> QED BY <1>1, <1>2, <1>3, ThreadConstants

LEMMA InTaken ==
  ASSUME ThreadInv, in # <<>>, in' = Tail(in)
  PROVE  /\ in' \in Seq(FrameType) /\ Len(in') <= WireCap
         /\ Rising(in)' /\ HaveIds(in)' /\ Carried(in', in)
<1>1. in \in Seq(FrameType) /\ Len(in) <= WireCap /\ Rising(in) /\ HaveIds(in)
      BY DEF ThreadInv, WiresOK
<1>2. Tail(in) \in Seq(FrameType) /\ Len(Tail(in)) = Len(in) - 1 /\ Len(in) \in Nat
      BY <1>1, Dequeued
<1>3. Rising(Tail(in)) /\ Carried(Tail(in), in) /\ HaveIds(Tail(in))
      BY <1>1, FirstTaken, IdsQueued
<1> QED BY <1>1, <1>2, <1>3, ThreadConstants

\* A frame that is no correction follows the others.
LEMMA OtherArrives ==
  ASSUME NEW q \in Seq(FrameType), Rising(q), HaveIds(q), NEW m \in 0..MaxIds,
         NEW t \in {"msg", "left", "error"}, t = "msg" => m \in Ids
  PROVE  LET r == Append(q, ThreadFrame(t, m, 0))
         IN /\ r \in Seq(FrameType) /\ Len(r) = Len(q) + 1
            /\ Rising(r) /\ HaveIds(r) /\ Carried(r, q)
<1>1. /\ ThreadFrame(t, m, 0) \in FrameType /\ ThreadFrame(t, m, 0).type = t
      /\ ThreadFrame(t, m, 0).id = m
      BY Frames, ThreadConstants
<1> DEFINE f == ThreadFrame(t, m, 0)
<1> HIDE DEF f
<1>2. f \in FrameType /\ f.type # "correct" /\ (f.type \in {"msg", "correct"} => f.id \in Ids)
      BY <1>1 DEF f
<1>3. Append(q, f) \in Seq(FrameType) /\ Len(Append(q, f)) = Len(q) + 1
      BY <1>2, Queued
<1>4. Rising(Append(q, f)) /\ Carried(Append(q, f), q)
      BY <1>2, OtherQueued
<1>5. HaveIds(Append(q, f))
      BY <1>2, IdsQueued
<1> QED BY <1>3, <1>4, <1>5 DEF f

LEMMA SendMsgStep == ASSUME ThreadInv, NEW m \in Ids, SendMsg(m) PROVE ThreadInv'
<1>0. /\ TabOK /\ SheetOK /\ LinesOK /\ OneLineEach /\ WiresOK
      /\ Rising(out) /\ Rising(in) /\ HaveIds(out) /\ HaveIds(in)
      BY DEF ThreadInv
<1>1. /\ ~Known(m) /\ Len(out) < WireCap /\ out' = Append(out, ThreadFrame("msg", m, 0))
      /\ ThreadShown(Append(thread, Line(m, "me")))
      /\ UNCHANGED <<shown, editable, target, versions, in, peerSees, status>>
      BY DEF SendMsg, NewIds
<1>2. Line(m, "me") \in LineType /\ Line(m, "me").id = m
      BY ThreadConstants DEF Line, LineType, From
<1>3. LinesOK' /\ OneLineEach' /\ TabOK' /\ Grown
      BY <1>0, <1>1, <1>2, LineAdded DEF Grown
<1>4. /\ out' \in Seq(FrameType) /\ Len(out') = Len(out) + 1
      /\ Rising(out') /\ HaveIds(out') /\ Carried(out', out)
      BY <1>0, <1>1, OtherArrives, ThreadConstants DEF WiresOK
<1>5. /\ WiresOK' /\ Rising(out)' /\ HaveIds(out)' /\ Rising(in)' /\ HaveIds(in)'
      /\ Carried(in', in)
  <2>1. Len(out') <= WireCap
        BY <1>0, <1>1, <1>4, ThreadConstants DEF WiresOK
  <2> QED BY <1>0, <1>1, <1>4, <2>1, NothingQueued DEF WiresOK
<1>6. SheetOK' /\ target' \in {target, 0}
      BY <1>0, <1>1 DEF SheetOK
<1> QED BY <1>1, <1>3, <1>4, <1>5, <1>6, NobodyCorrects

LEMMA PeerSendsStep ==
  ASSUME ThreadInv, NEW m \in Ids, NEW twice \in BOOLEAN, PeerSends(m, twice)
  PROVE  ThreadInv'
<1> DEFINE f == ThreadFrame("msg", m, 0)
           once == Append(in, f)
<1>0. /\ TabOK /\ SheetOK /\ LinesOK /\ OneLineEach /\ WiresOK
      /\ Rising(out) /\ Rising(in) /\ HaveIds(out) /\ HaveIds(in) /\ in \in Seq(FrameType)
      /\ Len(in) \in Nat
      BY DEF ThreadInv, WiresOK
<1>1. /\ Len(in) + 1 < WireCap /\ in' = in \o (IF twice THEN <<f, f>> ELSE <<f>>)
      /\ UNCHANGED <<thread, shown, editable, target, versions, out, peerSees, status, tab>>
      BY DEF PeerSends
<1>2. /\ once \in Seq(FrameType) /\ Len(once) = Len(in) + 1
      /\ Rising(once) /\ HaveIds(once) /\ Carried(once, in)
      BY <1>0, OtherArrives, ThreadConstants
<1>3. f \in FrameType
      BY Frames, ThreadConstants
<1> HIDE DEF f
<1>4. in' = once \/ in' = Append(once, f)
      BY <1>0, <1>1, <1>3
<1>5. /\ Append(once, f) \in Seq(FrameType) /\ Len(Append(once, f)) = Len(once) + 1
      /\ Rising(Append(once, f)) /\ HaveIds(Append(once, f)) /\ Carried(Append(once, f), once)
      BY <1>2, OtherArrives, ThreadConstants DEF f
<1> HIDE DEF once
<1>6. Carried(Append(once, f), in)
      BY <1>2, <1>5 DEF Carried
<1>7. /\ in' \in Seq(FrameType) /\ Len(in') <= Len(in) + 2
      /\ Rising(in') /\ HaveIds(in') /\ Carried(in', in)
  <2>1. CASE in' = once
        BY <1>0, <1>2, <2>1
  <2>2. CASE in' = Append(once, f)
        BY <1>0, <1>2, <1>5, <1>6, <2>2
  <2> QED BY <1>4, <2>1, <2>2
<1>8. Len(in') <= WireCap
      BY <1>0, <1>1, <1>7, ThreadConstants
<1>9. Grown
      BY <1>1, Unmoved
<1>10. LinesOK' /\ OneLineEach' /\ TabOK'
      BY <1>0, <1>1 DEF LinesOK, OneLineEach, TabOK
<1>11. SheetOK' /\ WiresOK' /\ Rising(out)' /\ HaveIds(out)' /\ Carried(out', out)
      BY <1>0, <1>1, <1>7, <1>8, NothingQueued DEF SheetOK, WiresOK
<1> QED BY <1>1, <1>7, <1>9, <1>10, <1>11, NobodyCorrects

\* The frame that says something went wrong, or that the partner has left.
LEMMA GatewayRefusesStep == ASSUME ThreadInv, GatewayRefuses PROVE ThreadInv'
<1>0. /\ TabOK /\ SheetOK /\ LinesOK /\ OneLineEach /\ WiresOK
      /\ Rising(in) /\ HaveIds(in) /\ in \in Seq(FrameType) /\ Len(in) \in Nat
      BY DEF ThreadInv, WiresOK
<1>1. /\ out # <<>> /\ out' = Tail(out) /\ Len(in) < WireCap
      /\ in' = Append(in, ThreadFrame("error", 0, 0))
      /\ UNCHANGED <<thread, shown, editable, target, versions, peerSees, status, tab>>
      BY DEF GatewayRefuses
<1>2. /\ in' \in Seq(FrameType) /\ Len(in') = Len(in) + 1
      /\ Rising(in') /\ HaveIds(in') /\ Carried(in', in)
  <2>1. 0 \in 0..MaxIds
        BY ThreadConstants
  <2> QED BY <1>0, <1>1, <2>1, OtherArrives
<1>3. Len(in') <= WireCap
      BY <1>0, <1>1, <1>2, ThreadConstants
<1>4. /\ out' \in Seq(FrameType) /\ Len(out') <= WireCap
      /\ Rising(out)' /\ HaveIds(out)' /\ Carried(out', out)
      BY <1>1, OutTaken
<1>5. LinesOK' /\ OneLineEach' /\ TabOK' /\ SheetOK' /\ Grown
      BY <1>0, <1>1, Unmoved DEF LinesOK, OneLineEach, TabOK, SheetOK
<1>6. WiresOK'
      BY <1>2, <1>3, <1>4 DEF WiresOK
<1> QED BY <1>1, <1>2, <1>4, <1>5, <1>6, NobodyCorrects

LEMMA PartnerGoneStep == ASSUME ThreadInv, PartnerGone PROVE ThreadInv'
<1>0. /\ TabOK /\ SheetOK /\ LinesOK /\ OneLineEach /\ WiresOK
      /\ Rising(in) /\ HaveIds(in) /\ in \in Seq(FrameType) /\ Len(in) \in Nat
      /\ Rising(out) /\ HaveIds(out)
      BY DEF ThreadInv, WiresOK
<1>1. /\ Len(in) < WireCap /\ in' = Append(in, ThreadFrame("left", 0, 0))
      /\ UNCHANGED <<thread, shown, editable, target, versions, out, peerSees, status, tab>>
      BY DEF PartnerGone
<1>2. /\ in' \in Seq(FrameType) /\ Len(in') = Len(in) + 1
      /\ Rising(in') /\ HaveIds(in') /\ Carried(in', in)
  <2>1. 0 \in 0..MaxIds
        BY ThreadConstants
  <2> QED BY <1>0, <1>1, <2>1, OtherArrives
<1>3. Len(in') <= WireCap
      BY <1>0, <1>1, <1>2, ThreadConstants
<1>5. LinesOK' /\ OneLineEach' /\ TabOK' /\ SheetOK' /\ Grown
      BY <1>0, <1>1, Unmoved DEF LinesOK, OneLineEach, TabOK, SheetOK
<1>6. WiresOK' /\ Rising(out)' /\ HaveIds(out)' /\ Carried(out', out)
      BY <1>0, <1>1, <1>2, <1>3, NothingQueued DEF WiresOK
<1> QED BY <1>1, <1>2, <1>5, <1>6, NobodyCorrects

\* What one step does to the versions that both sides show.
LEMMA CorrectStep == ASSUME ThreadInv, Correct PROVE ThreadInv' /\ Forward
<1> DEFINE v == versions + 1
           f == ThreadFrame("correct", target, v)
<1>0. /\ TabOK /\ SheetOK /\ LinesOK /\ OneLineEach /\ WiresOK /\ VersionTypes /\ Submitted
      /\ Rising(in) /\ HaveIds(in) /\ Rising(out) /\ HaveIds(out) /\ CarriesOut /\ CarriesIn
      /\ SheetOnTheirs
      BY DEF ThreadInv
<1>1. /\ target # 0 /\ versions < MaxVersions /\ Len(out) < WireCap /\ versions' = v
      /\ target' = 0 /\ out' = Append(out, f) /\ shown' = ShowCorrection(target, v)
      /\ editable' = editable \cup {target}
      /\ UNCHANGED <<thread, in, peerSees, status, tab>>
      BY DEF Correct
<1>2. target \in Ids /\ Theirs(target) /\ Known(target) /\ ~Mine(target)
  <2>1. target \in Ids
        BY <1>0, <1>1, ThreadConstants DEF SheetOK, Ids
  <2> QED BY <1>0, <2>1, NotBoth DEF SheetOnTheirs
<1>3. v \in 1..MaxVersions /\ v > versions /\ versions \in Nat
      BY <1>0, <1>1, ThreadConstants DEF VersionTypes
<1>4. /\ shown \in [Ids -> 0..MaxVersions] /\ shown' = [shown EXCEPT ![target] = v]
      /\ peerSees \in [Ids -> 0..MaxVersions] /\ peerSees' = peerSees
      BY <1>0, <1>1, <1>2 DEF ShowCorrection, VersionTypes
<1>5. f \in FrameType /\ f.type = "correct" /\ f.id = target /\ f.version = v
      BY <1>2, <1>3, Frames, ThreadConstants
<1> HIDE DEF f, v
<1>6. /\ out \in Seq(FrameType) /\ Len(out) \in Nat
      /\ \A i \in DOMAIN Append(out, f) :
              \/ i \in DOMAIN out /\ Append(out, f)[i] = out[i]
              \/ i = Len(out) + 1 /\ Append(out, f)[i] = f
      /\ Append(out, f) \in Seq(FrameType) /\ Len(Append(out, f)) = Len(out) + 1
      BY <1>0, <1>5, Queued DEF WiresOK
<1>7. \A m \in Ids : /\ shown[m] \in Nat /\ peerSees[m] \in Nat /\ shown'[m] >= shown[m]
                     /\ shown'[m] = IF m = target THEN v ELSE shown[m]
                     /\ shown[m] <= versions /\ peerSees[m] <= versions
                     /\ shown'[m] <= v /\ peerSees[m] <= v
  <2>1. \A m \in Ids : shown[m] \in Nat /\ peerSees[m] \in Nat
        BY <1>4, ThreadConstants
  <2>2. \A m \in Ids : shown[m] <= versions /\ peerSees[m] <= versions
        BY <1>0 DEF Submitted
  <2>3. v \in Nat
        BY <1>3
  <2> QED BY <1>3, <1>4, <2>1, <2>2, <2>3
<1>8. \A i \in DOMAIN out : out[i].type = "correct" /\ out[i].id = f.id => out[i].version <= f.version
  <2>1. \A i \in DOMAIN out : out[i].type = "correct" /\ out[i].id = target => out[i].version <= shown[target]
        BY <1>0, <1>2 DEF CarriesOut
  <2>2. \A i \in DOMAIN out : out[i].version \in Nat
    <3>1. \A i \in DOMAIN out : out[i] \in FrameType
          BY <1>6
    <3> QED BY <3>1, ThreadConstants DEF FrameType
  <2>3. shown[target] \in Nat /\ shown[target] <= v /\ v \in Nat
        BY <1>2, <1>3, <1>7
  <2> QED BY <1>5, <2>1, <2>2, <2>3
<1>9. Rising(out)' /\ HaveIds(out)' /\ Rising(in)' /\ HaveIds(in)' /\ WiresOK'
  <2>1. Rising(Append(out, f))
        BY <1>0, <1>5, <1>6, <1>8, CorrectionQueued
  <2>2. HaveIds(Append(out, f))
        BY <1>0, <1>2, <1>5, <1>6, IdsQueued
  <2>3. Len(out') <= WireCap
        BY <1>1, <1>6, ThreadConstants
  <2> QED BY <1>0, <1>1, <1>6, <2>1, <2>2, <2>3 DEF WiresOK
<1>10. Grown /\ (\A m \in Ids : (Mine(m) <=> Mine(m)') /\ (Theirs(m) <=> Theirs(m)'))
      BY <1>1 DEF Grown, Mine, Theirs, Known, Author
<1>11. Submitted'
  <2>1. \A m \in Ids : ~Mine(m) => peerSees[m] <= shown[m]
        BY <1>0 DEF Submitted
  <2>2. \A m \in Ids : ~Mine(m) => peerSees'[m] <= shown'[m]
        BY <1>3, <1>4, <1>7, <2>1
  <2> QED BY <1>1, <1>4, <1>7, <1>10, <2>2 DEF Submitted
<1>12. CarriesOut'
  <2>1. ASSUME NEW m \in Ids, NEW i \in DOMAIN out', out'[i].type = "correct", out'[i].id = m
        PROVE  Theirs(m)' /\ peerSees'[m] <= out'[i].version /\ out'[i].version <= shown'[m]
    <3>1. CASE i \in DOMAIN out /\ out'[i] = out[i]
      <4>1. Theirs(m) /\ peerSees[m] <= out[i].version /\ out[i].version <= shown[m]
            BY <1>0, <2>1, <3>1 DEF CarriesOut
      <4>2. out[i].version \in Nat
        <5>1. out[i] \in FrameType
              BY <1>6, <3>1
        <5> QED BY <5>1, ThreadConstants DEF FrameType
      <4>3. shown[m] \in Nat /\ shown'[m] \in Nat /\ shown'[m] >= shown[m]
            BY <1>3, <1>7
      <4>4. out[i].version <= shown'[m]
            BY <4>1, <4>2, <4>3
      <4> QED BY <1>4, <1>10, <3>1, <4>1, <4>4
    <3>2. CASE out'[i] = f
      <4>1. m = target
            BY <1>5, <2>1, <3>2
      <4>2. f.version = v /\ peerSees[m] <= v /\ shown'[m] = v /\ v <= v
            BY <1>3, <1>5, <1>7, <4>1
      <4> QED BY <1>2, <1>4, <1>10, <3>2, <4>1, <4>2
    <3> QED BY <1>1, <1>6, <2>1, <3>1, <3>2
  <2> QED BY <2>1 DEF CarriesOut
<1>13. CarriesIn'
  <2>1. ASSUME NEW m \in Ids, NEW i \in DOMAIN in, in[i].type = "correct", in[i].id = m
        PROVE  Mine(m)' /\ shown'[m] <= in[i].version /\ in[i].version <= v
    <3>1. Mine(m) /\ shown[m] <= in[i].version /\ in[i].version <= versions
          BY <1>0, <2>1 DEF CarriesIn
    <3>2. shown'[m] = shown[m]
          BY <1>2, <1>7, <3>1
    <3>3. in[i].version \in Nat
      <4>1. in[i] \in FrameType
            BY <1>0 DEF WiresOK
      <4> QED BY <4>1, ThreadConstants DEF FrameType
    <3>4. in[i].version <= v
          BY <1>3, <3>1, <3>3
    <3> QED BY <1>10, <3>1, <3>2, <3>4
  <2> QED BY <1>1, <2>1 DEF CarriesIn
<1>14. LinesOK' /\ OneLineEach' /\ TabOK' /\ SheetOK'
      BY <1>0, <1>1, <1>2, ThreadConstants DEF LinesOK, OneLineEach, TabOK, SheetOK
<1>15. VersionTypes'
  <2>1. v \in 0..MaxVersions
        BY <1>3, ThreadConstants
  <2>2. [shown EXCEPT ![target] = v] \in [Ids -> 0..MaxVersions]
        BY <1>2, <1>4, <2>1
  <2> QED BY <1>1, <1>4, <2>1, <2>2 DEF VersionTypes
<1>16. SheetOnTheirs'
      BY <1>1, ThreadConstants DEF SheetOnTheirs
<1>17. ThreadInv'
      BY <1>9, <1>11, <1>12, <1>13, <1>14, <1>15, <1>16, Zenon DEF ThreadInv
<1>18. Forward
  <2>1. \A m \in Ids : Theirs(m) => peerSees[m] <= shown'[m]
    <3>1. \A m \in Ids : Theirs(m) => peerSees'[m] <= shown'[m]
          BY <1>10, <1>11, NotBoth DEF Submitted
    <3> QED BY <1>4, <3>1
  <2> QED BY <1>4, <1>7, <2>1 DEF Forward
<1> QED BY <1>17, <1>18

\* While the versions submitted, the thread and the sheet are left alone.
LEMMA SameLines ==
  ASSUME ThreadInv, UNCHANGED <<thread, editable, target, status, tab>>
  PROVE  /\ LinesOK' /\ OneLineEach' /\ TabOK' /\ SheetOK' /\ SheetOnTheirs'
         /\ \A m \in Ids : (Mine(m) <=> Mine(m)') /\ (Theirs(m) <=> Theirs(m)')
<1>1. LinesOK' /\ OneLineEach' /\ TabOK' /\ SheetOK'
      BY DEF ThreadInv, LinesOK, OneLineEach, TabOK, SheetOK
<1>2. \A m \in Ids : (Mine(m) <=> Mine(m)') /\ (Theirs(m) <=> Theirs(m)')
      BY DEF Mine, Theirs, Known, Author
<1>3. SheetOnTheirs'
      BY <1>2 DEF ThreadInv, SheetOnTheirs
<1> QED BY <1>1, <1>2, <1>3

LEMMA RelayStep == ASSUME ThreadInv, Relay PROVE ThreadInv' /\ Forward
<1> DEFINE f == Head(out)
           k == f.id
<1>0. /\ WiresOK /\ VersionTypes /\ Submitted /\ CarriesOut /\ CarriesIn
      /\ Rising(in) /\ HaveIds(in) /\ Rising(out) /\ HaveIds(out)
      /\ out \in Seq(FrameType) /\ in \in Seq(FrameType)
      BY DEF ThreadInv, WiresOK
<1>1. /\ out # <<>> /\ out' = Tail(out)
      /\ \/ f.type = "correct" /\ peerSees' = [peerSees EXCEPT ![k] = f.version]
         \/ UNCHANGED peerSees
      /\ UNCHANGED <<thread, shown, editable, target, versions, in, status, tab>>
      BY DEF Relay
<1>2. /\ LinesOK' /\ OneLineEach' /\ TabOK' /\ SheetOK' /\ SheetOnTheirs'
      /\ \A m \in Ids : (Mine(m) <=> Mine(m)') /\ (Theirs(m) <=> Theirs(m)')
      BY <1>1, SameLines
<1>3. /\ out' \in Seq(FrameType) /\ Len(out') <= WireCap
      /\ Rising(out)' /\ HaveIds(out)' /\ Carried(out', out)
      BY <1>1, OutTaken
<1>4. WiresOK' /\ Rising(in)' /\ HaveIds(in)' /\ Carried(in', in)
      BY <1>0, <1>1, <1>3, NothingQueued DEF WiresOK
<1>5. \A m \in Ids : shown[m] \in Nat /\ peerSees[m] \in Nat
      BY <1>0, ThreadConstants DEF VersionTypes
<1>6. CASE UNCHANGED peerSees
  <2>1. Submitted' /\ CarriesOut' /\ CarriesIn'
        BY <1>0, <1>1, <1>2, <1>3, <1>4, <1>6, VersionsStay DEF Grown
  <2>2. VersionTypes'
        BY <1>0, <1>1, <1>6 DEF VersionTypes
  <2>3. ThreadInv'
        BY <1>2, <1>3, <1>4, <2>1, <2>2, Zenon DEF ThreadInv
  <2>4. \A m \in Ids : Theirs(m) => peerSees[m] <= shown[m]
        BY <1>0, NotBoth DEF Submitted
  <2> QED BY <1>1, <1>5, <1>6, <2>3, <2>4 DEF Forward
<1>7. CASE f.type = "correct" /\ peerSees' = [peerSees EXCEPT ![k] = f.version]
  <2>1. /\ 1 \in DOMAIN out /\ f = out[1] /\ f \in FrameType
        /\ \A i \in DOMAIN Tail(out) : i + 1 \in DOMAIN out /\ Tail(out)[i] = out[i + 1]
        BY <1>0, <1>1, Dequeued
  <2>2. k \in Ids /\ f.version \in 0..MaxVersions
        BY <1>0, <1>7, <2>1 DEF HaveIds, FrameType
  <2>3. Theirs(k) /\ ~Mine(k) /\ peerSees[k] <= f.version /\ f.version <= shown[k]
        BY <1>0, <1>7, <2>1, <2>2, NotBoth DEF CarriesOut
  <2>4. \A i \in DOMAIN out' :
            out'[i].type = "correct" /\ out'[i].id = k => f.version <= out'[i].version
        BY <1>0, <1>1, <1>7, FirstTaken
  <2> HIDE DEF f, k
  <2>5. \A m \in Ids : peerSees'[m] = IF m = k THEN f.version ELSE peerSees[m]
        BY <1>0, <1>7, <2>2 DEF VersionTypes
  <2>6. \A m \in Ids : peerSees[m] <= peerSees'[m]
        BY <1>5, <2>3, <2>5
  <2>7. Submitted'
    <3>1. \A m \in Ids : shown[m] <= versions /\ peerSees[m] <= versions
                         /\ (~Mine(m) => peerSees[m] <= shown[m])
          BY <1>0 DEF Submitted
    <3>2. f.version <= versions
      <4>1. shown[k] <= versions /\ shown[k] \in Nat /\ versions \in Nat /\ f.version \in Nat
            BY <1>0, <1>5, <2>2, <3>1, ThreadConstants DEF VersionTypes
      <4> QED BY <2>3, <4>1
    <3>3. \A m \in Ids : /\ shown[m] <= versions /\ peerSees'[m] <= versions
                         /\ ~Mine(m) => peerSees'[m] <= shown[m]
          BY <2>3, <2>5, <3>1, <3>2
    <3> QED BY <1>1, <1>2, <3>3 DEF Submitted
  <2>8. CarriesOut'
    <3>1. ASSUME NEW m \in Ids, NEW i \in DOMAIN out', out'[i].type = "correct", out'[i].id = m
          PROVE  Theirs(m) /\ peerSees'[m] <= out'[i].version /\ out'[i].version <= shown[m]
      <4>1. PICK j \in DOMAIN out : out[j] = out'[i]
            BY <1>3, <3>1 DEF Carried
      <4>2. Theirs(m) /\ peerSees[m] <= out[j].version /\ out[j].version <= shown[m]
            BY <1>0, <3>1, <4>1 DEF CarriesOut
      <4>3. m = k => f.version <= out'[i].version
            BY <2>4, <3>1
      <4> QED BY <2>5, <4>1, <4>2, <4>3
    <3> QED BY <1>1, <1>2, <3>1 DEF CarriesOut
  <2>9. CarriesIn'
        BY <1>0, <1>1, <1>2 DEF CarriesIn
  <2>10. VersionTypes'
        BY <1>0, <1>1, <1>7, <2>2 DEF VersionTypes
  <2>11. ThreadInv'
        BY <1>2, <1>3, <1>4, <2>7, <2>8, <2>9, <2>10, Zenon DEF ThreadInv
  <2>12. \A m \in Ids : Theirs(m) => peerSees'[m] <= shown[m]
    <3>1. \A m \in Ids : ~Mine(m)' => peerSees'[m] <= shown'[m]
          BY <2>7 DEF Submitted
    <3> QED BY <1>1, <1>2, <3>1, NotBoth
  <2>13. \A m \in Ids : shown'[m] >= shown[m] /\ peerSees'[m] >= peerSees[m]
    <3>1. \A m \in Ids : peerSees'[m] \in Nat
          BY <2>10, ThreadConstants DEF VersionTypes
    <3> QED BY <1>1, <1>5, <2>6, <3>1
  <2> QED BY <1>1, <2>11, <2>12, <2>13 DEF Forward
<1> QED BY <1>1, <1>6, <1>7

LEMMA PeerCorrectsStep == ASSUME ThreadInv, NEW n \in Ids, PeerCorrects(n) PROVE ThreadInv' /\ Forward
<1> DEFINE v == versions + 1
           f == ThreadFrame("correct", n, v)
<1>0. /\ WiresOK /\ VersionTypes /\ Submitted /\ CarriesOut /\ CarriesIn
      /\ Rising(in) /\ HaveIds(in) /\ Rising(out) /\ HaveIds(out)
      /\ out \in Seq(FrameType) /\ in \in Seq(FrameType) /\ Len(in) \in Nat
      BY DEF ThreadInv, WiresOK
<1>1. /\ Mine(n) /\ versions < MaxVersions /\ Len(in) < WireCap /\ versions' = v
      /\ peerSees' = [peerSees EXCEPT ![n] = v] /\ in' = Append(in, f)
      /\ UNCHANGED <<thread, shown, editable, target, out, status, tab>>
      BY DEF PeerCorrects
<1>2. /\ LinesOK' /\ OneLineEach' /\ TabOK' /\ SheetOK' /\ SheetOnTheirs'
      /\ \A m \in Ids : (Mine(m) <=> Mine(m)') /\ (Theirs(m) <=> Theirs(m)')
      BY <1>1, SameLines
<1>3. v \in 0..MaxVersions /\ v \in Nat /\ v > versions /\ versions \in Nat
      BY <1>0, <1>1, ThreadConstants DEF VersionTypes
<1>4. f \in FrameType /\ f.type = "correct" /\ f.id = n /\ f.version = v
      BY <1>3, Frames, ThreadConstants
<1> HIDE DEF f, v
<1>5. /\ \A i \in DOMAIN Append(in, f) :
              \/ i \in DOMAIN in /\ Append(in, f)[i] = in[i]
              \/ i = Len(in) + 1 /\ Append(in, f)[i] = f
      /\ Append(in, f) \in Seq(FrameType) /\ Len(Append(in, f)) = Len(in) + 1
      BY <1>0, <1>4, Queued
<1>6. \A m \in Ids : /\ shown[m] \in Nat /\ peerSees[m] \in Nat
                     /\ shown[m] <= versions /\ peerSees[m] <= versions
                     /\ ~Mine(m) => peerSees[m] <= shown[m]
  <2>1. \A m \in Ids : shown[m] \in Nat /\ peerSees[m] \in Nat
        BY <1>0, ThreadConstants DEF VersionTypes
  <2> QED BY <1>0, <2>1 DEF Submitted
<1>7. \A m \in Ids : peerSees'[m] = IF m = n THEN v ELSE peerSees[m]
      BY <1>0, <1>1 DEF VersionTypes
<1>8. \A i \in DOMAIN in : /\ in[i].version \in Nat
                           /\ in[i].type = "correct" => in[i].version <= versions /\ in[i].version <= v
  <2>1. \A i \in DOMAIN in : in[i] \in FrameType /\ in[i].version \in Nat
    <3>1. \A i \in DOMAIN in : in[i] \in FrameType
          BY <1>0
    <3> QED BY <3>1, ThreadConstants DEF FrameType
  <2>2. \A i \in DOMAIN in : in[i].type = "correct" => in[i].version <= versions
        BY <1>0 DEF CarriesIn, HaveIds
  <2> QED BY <1>3, <2>1, <2>2
<1>9. Rising(out)' /\ HaveIds(out)' /\ Rising(in)' /\ HaveIds(in)' /\ WiresOK'
  <2>1. Rising(Append(in, f))
        BY <1>0, <1>4, <1>8, CorrectionQueued
  <2>2. HaveIds(Append(in, f))
        BY <1>0, <1>4, IdsQueued
  <2>3. Len(in') <= WireCap
        BY <1>0, <1>1, <1>5, ThreadConstants
  <2> QED BY <1>0, <1>1, <1>5, <2>1, <2>2, <2>3 DEF WiresOK
<1>10. \A m \in Ids : /\ shown[m] <= v /\ peerSees'[m] <= v /\ peerSees'[m] >= peerSees[m]
                      /\ ~Mine(m) => peerSees'[m] <= shown[m]
      BY <1>1, <1>3, <1>6, <1>7
<1>11. Submitted'
      BY <1>1, <1>2, <1>10 DEF Submitted
<1>12. CarriesOut'
  <2>1. ASSUME NEW m \in Ids, NEW i \in DOMAIN out, out[i].type = "correct", out[i].id = m
        PROVE  Theirs(m) /\ peerSees'[m] <= out[i].version /\ out[i].version <= shown[m]
    <3>1. Theirs(m) /\ peerSees[m] <= out[i].version /\ out[i].version <= shown[m]
          BY <1>0, <2>1 DEF CarriesOut
    <3> QED BY <1>1, <1>7, <3>1, NotBoth
  <2> QED BY <1>1, <1>2, <2>1 DEF CarriesOut
<1>13. CarriesIn'
  <2>1. ASSUME NEW m \in Ids, NEW i \in DOMAIN in', in'[i].type = "correct", in'[i].id = m
        PROVE  Mine(m) /\ shown[m] <= in'[i].version /\ in'[i].version <= v
    <3>1. CASE i \in DOMAIN in /\ in'[i] = in[i]
          BY <1>0, <1>8, <2>1, <3>1 DEF CarriesIn
    <3>2. CASE in'[i] = f
      <4>1. m = n
            BY <1>4, <2>1, <3>2
      <4>2. v <= v
            BY <1>3
      <4> QED BY <1>1, <1>4, <1>10, <3>2, <4>1, <4>2
    <3> QED BY <1>1, <1>5, <2>1, <3>1, <3>2
  <2> QED BY <1>1, <1>2, <2>1 DEF CarriesIn
<1>14. VersionTypes'
      BY <1>0, <1>1, <1>3 DEF VersionTypes
<1>15. ThreadInv'
      BY <1>2, <1>9, <1>11, <1>12, <1>13, <1>14, Zenon DEF ThreadInv
<1>16. Forward
  <2>1. \A m \in Ids : shown[m] >= shown[m]
        BY <1>6
  <2> QED BY <1>1, <1>10, <2>1, NotBoth DEF Forward
<1> QED BY <1>15, <1>16

\* A frame that shows no correction.
LEMMA LineArrives ==
  ASSUME ThreadInv, in # <<>>, in' = Tail(in), TabOK', LinesOK', OneLineEach', Grown,
         target' \in {target, 0}, status' \in {status, "post_chat", "error"},
         UNCHANGED <<shown, editable, versions, out, peerSees>>
  PROVE  ThreadInv'
<1>1. /\ in' \in Seq(FrameType) /\ Len(in') <= WireCap
      /\ Rising(in)' /\ HaveIds(in)' /\ Carried(in', in)
      BY InTaken
<1>2. WiresOK' /\ Rising(out)' /\ HaveIds(out)' /\ Carried(out', out)
      BY <1>1, NothingQueued DEF ThreadInv, WiresOK
<1>3. SheetOK'
      BY ThreadConstants DEF ThreadInv, SheetOK
<1> QED BY <1>1, <1>2, <1>3, NobodyCorrects

\* A correction of one of my messages.
LEMMA CorrectionArrives ==
  ASSUME ThreadInv, in # <<>>, in' = Tail(in), Head(in).type = "correct",
         shown' = ShowCorrection(Head(in).id, Head(in).version),
         UNCHANGED <<thread, editable, target, versions, out, peerSees, status, tab>>
  PROVE  ThreadInv' /\ \A m \in Ids : shown'[m] >= shown[m]
<1> DEFINE f == Head(in)
           k == f.id
<1>0. /\ WiresOK /\ VersionTypes /\ Submitted /\ CarriesOut /\ CarriesIn
      /\ Rising(in) /\ HaveIds(in) /\ Rising(out) /\ HaveIds(out)
      /\ out \in Seq(FrameType) /\ in \in Seq(FrameType)
      BY DEF ThreadInv, WiresOK
<1>1. /\ LinesOK' /\ OneLineEach' /\ TabOK' /\ SheetOK' /\ SheetOnTheirs'
      /\ \A m \in Ids : (Mine(m) <=> Mine(m)') /\ (Theirs(m) <=> Theirs(m)')
      BY SameLines
<1>2. /\ in' \in Seq(FrameType) /\ Len(in') <= WireCap
      /\ Rising(in)' /\ HaveIds(in)' /\ Carried(in', in)
      BY InTaken
<1>3. WiresOK' /\ Rising(out)' /\ HaveIds(out)'
      BY <1>0, <1>2 DEF WiresOK
<1>4. 1 \in DOMAIN in /\ f = in[1] /\ f \in FrameType
      BY <1>0, Dequeued
<1>5. k \in Ids /\ f.version \in 0..MaxVersions
      BY <1>0, <1>4 DEF HaveIds, FrameType
<1>6. Mine(k) /\ ~Theirs(k) /\ shown[k] <= f.version /\ f.version <= versions
      BY <1>0, <1>4, <1>5, NotBoth DEF CarriesIn
<1>7. shown' = [shown EXCEPT ![k] = f.version]
      BY <1>6 DEF ShowCorrection, Mine
<1>8. \A i \in DOMAIN in' : in'[i].type = "correct" /\ in'[i].id = k => f.version <= in'[i].version
      BY <1>0, FirstTaken
<1> HIDE DEF f, k
<1>9. \A m \in Ids : shown[m] \in Nat /\ shown'[m] = IF m = k THEN f.version ELSE shown[m]
      BY <1>0, <1>5, <1>7, ThreadConstants DEF VersionTypes
<1>10. \A m \in Ids : shown'[m] >= shown[m]
  <2>1. f.version \in Nat
        BY <1>5, ThreadConstants
  <2> QED BY <1>5, <1>6, <1>9, <2>1
<1>11. Submitted'
  <2>1. \A m \in Ids : shown[m] <= versions /\ peerSees[m] <= versions
                       /\ (~Mine(m) => peerSees[m] <= shown[m])
        BY <1>0 DEF Submitted
  <2>2. \A m \in Ids : shown'[m] <= versions /\ (~Mine(m) => peerSees[m] <= shown'[m])
        BY <1>6, <1>9, <2>1
  <2> QED BY <1>1, <2>1, <2>2 DEF Submitted
<1>12. CarriesOut'
  <2>1. ASSUME NEW m \in Ids, NEW i \in DOMAIN out, out[i].type = "correct", out[i].id = m
        PROVE  Theirs(m) /\ peerSees[m] <= out[i].version /\ out[i].version <= shown'[m]
    <3>1. Theirs(m) /\ peerSees[m] <= out[i].version /\ out[i].version <= shown[m]
          BY <1>0, <2>1 DEF CarriesOut
    <3> QED BY <1>6, <1>9, <3>1
  <2> QED BY <1>1, <2>1 DEF CarriesOut
<1>13. CarriesIn'
  <2>1. ASSUME NEW m \in Ids, NEW i \in DOMAIN in', in'[i].type = "correct", in'[i].id = m
        PROVE  Mine(m) /\ shown'[m] <= in'[i].version /\ in'[i].version <= versions
    <3>1. PICK j \in DOMAIN in : in[j] = in'[i]
          BY <1>2, <2>1 DEF Carried
    <3>2. Mine(m) /\ shown[m] <= in'[i].version /\ in'[i].version <= versions
          BY <1>0, <2>1, <3>1 DEF CarriesIn
    <3>3. m = k => f.version <= in'[i].version
          BY <1>8, <2>1
    <3> QED BY <1>9, <3>2, <3>3
  <2> QED BY <1>1, <2>1 DEF CarriesIn
<1>14. VersionTypes'
      BY <1>0, <1>5, <1>7 DEF VersionTypes
<1>15. ThreadInv'
      BY <1>1, <1>2, <1>3, <1>11, <1>12, <1>13, <1>14, Zenon DEF ThreadInv
<1> QED BY <1>10, <1>15

LEMMA OnThreadFrameStep == ASSUME ThreadInv, OnThreadFrame PROVE ThreadInv' /\ \A m \in Ids : shown'[m] >= shown[m]
<1> DEFINE f == Head(in)
<1>0. /\ TabOK /\ SheetOK /\ LinesOK /\ OneLineEach /\ VersionTypes /\ HaveIds(in)
      /\ in \in Seq(FrameType)
      BY DEF ThreadInv, WiresOK
<1>1. /\ in # <<>> /\ in' = Tail(in) /\ UNCHANGED <<editable, versions, out, peerSees>>
      /\ \/ /\ f.type = "msg" /\ ThreadShown(Pushed(f.id)) /\ UNCHANGED <<shown, status, target>>
         \/ /\ f.type = "correct" /\ shown' = ShowCorrection(f.id, f.version)
            /\ UNCHANGED <<thread, status, target, tab>>
         \/ /\ f.type = "left" /\ ThreadShown(Append(thread, Line(0, "system")))
            /\ status' = "post_chat" /\ UNCHANGED <<shown, target>>
         \/ /\ f.type = "error" /\ status' = "error" /\ target' = 0
            /\ tab' = [tab EXCEPT !.unread = 0] /\ UNCHANGED <<thread, shown>>
      BY DEF OnThreadFrame
<1>2. \A m \in Ids : shown[m] \in Nat /\ shown[m] >= shown[m]
      BY <1>0, ThreadConstants DEF VersionTypes
<1>3. CASE f.type = "msg" /\ ThreadShown(Pushed(f.id)) /\ UNCHANGED <<shown, status, target>>
  <2>1. f.id \in Ids
    <3>1. 1 \in DOMAIN in /\ f = in[1]
          BY <1>0, <1>1, Dequeued
    <3> QED BY <1>0, <1>3, <3>1 DEF HaveIds
  <2>2. CASE Known(f.id)
    <3>1. thread' = thread /\ tab' = Noticed(thread)
          BY <1>3, <2>2 DEF ThreadShown, Pushed
    <3>2. FromPeer(thread) \in Nat
          BY <1>0, FromPeerNat DEF LinesOK
    <3>3. TabOK'
      <4> DEFINE n == FromPeer(thread)
                 u == IF tab.hidden THEN tab.unread + n - tab.seen ELSE tab.unread
      <4>1. n > tab.seen => u \in Nat
            BY <1>0, <3>2 DEF TabOK
      <4>2. tab' = IF n > tab.seen THEN [tab EXCEPT !.seen = n, !.unread = u] ELSE tab
            BY <3>1 DEF Noticed
      <4> HIDE DEF n, u
      <4> QED BY <1>0, <3>2, <4>1, <4>2, Zenon DEF TabOK, n
    <3>4. LinesOK' /\ OneLineEach' /\ Grown
          BY <1>0, <3>1, Unmoved DEF LinesOK, OneLineEach
    <3>5. ThreadInv'
          BY <1>1, <1>3, <3>3, <3>4, LineArrives
    <3> QED BY <1>2, <1>3, <3>5
  <2>3. CASE ~Known(f.id)
    <3>1. Line(f.id, "peer") \in LineType /\ Line(f.id, "peer").id = f.id
          BY <2>1, ThreadConstants DEF Line, LineType, From
    <3>2. ThreadShown(Append(thread, Line(f.id, "peer")))
          BY <1>3, <2>3 DEF Pushed
    <3>3. LinesOK' /\ OneLineEach' /\ TabOK' /\ Grown
          BY <1>0, <2>3, <3>1, <3>2, LineAdded DEF Grown
    <3>4. ThreadInv'
          BY <1>1, <1>3, <3>3, LineArrives
    <3> QED BY <1>2, <1>3, <3>4
  <2> QED BY <2>2, <2>3
<1>4. CASE f.type = "correct" /\ shown' = ShowCorrection(f.id, f.version)
           /\ UNCHANGED <<thread, status, target, tab>>
      BY <1>1, <1>4, CorrectionArrives
<1>5. CASE f.type = "left" /\ ThreadShown(Append(thread, Line(0, "system")))
           /\ status' = "post_chat" /\ UNCHANGED <<shown, target>>
  <2>1. Line(0, "system") \in LineType /\ Line(0, "system").id = 0
        BY ThreadConstants DEF Line, LineType, From
  <2>2. LinesOK' /\ OneLineEach' /\ TabOK' /\ Grown
        BY <1>0, <1>5, <2>1, LineAdded DEF Grown
  <2>3. ThreadInv'
        BY <1>1, <1>5, <2>2, LineArrives
  <2> QED BY <1>2, <1>5, <2>3
<1>6. CASE f.type = "error" /\ status' = "error" /\ target' = 0
           /\ tab' = [tab EXCEPT !.unread = 0] /\ UNCHANGED <<thread, shown>>
  <2>1. TabOK'
        BY <1>0, <1>6 DEF TabOK
  <2>2. LinesOK' /\ OneLineEach' /\ Grown
        BY <1>0, <1>6, Unmoved DEF LinesOK, OneLineEach
  <2>3. ThreadInv'
        BY <1>1, <1>6, <2>1, <2>2, LineArrives
  <2> QED BY <1>2, <1>6, <2>3
<1> QED BY <1>1, <1>3, <1>4, <1>5, <1>6

-----------------------------------------------------------------------------
(* The theorems about the thread *)

\* Where nothing is shown or corrected, nothing moves back.
LEMMA StillForward ==
  ASSUME ThreadInv, UNCHANGED <<shown, peerSees>>
  PROVE  Forward
<1>1. \A m \in Ids : shown[m] \in Nat /\ peerSees[m] \in Nat
      BY ThreadConstants DEF ThreadInv, VersionTypes
<1>2. \A m \in Ids : Theirs(m) => peerSees[m] <= shown[m]
      BY NotBoth DEF ThreadInv, Submitted
<1> QED BY <1>1, <1>2 DEF Forward

LEMMA ThreadStart == ThreadInit => ThreadInv
<1> SUFFICES ASSUME ThreadInit PROVE ThreadInv
    OBVIOUS
<1>1. TabOK /\ SheetOK /\ SheetOnTheirs
      BY ThreadConstants DEF ThreadInit, TabOK, SheetOK, SheetOnTheirs
<1>2. LinesOK /\ OneLineEach
      BY DEF ThreadInit, LinesOK, OneLineEach
<1>3. VersionTypes /\ Submitted
      BY ThreadConstants DEF ThreadInit, VersionTypes, Submitted
<1>4. WiresOK /\ Rising(out) /\ Rising(in) /\ HaveIds(out) /\ HaveIds(in)
      BY ThreadConstants DEF ThreadInit, WiresOK, Rising, HaveIds
<1>5. CarriesOut /\ CarriesIn
      BY DEF ThreadInit, CarriesOut, CarriesIn
<1> QED BY <1>1, <1>2, <1>3, <1>4, <1>5 DEF ThreadInv

LEMMA ThreadKeeps == ThreadInv /\ [ThreadNext]_threadVars => ThreadInv' /\ Forward
<1> SUFFICES ASSUME ThreadInv, [ThreadNext]_threadVars PROVE ThreadInv' /\ Forward
    OBVIOUS
<1>1. ASSUME \/ CloseCorrection \/ HideTab \/ ShowTab
             \/ \E m \in Ids : OpenCorrection(m) \/ EditOver(m)
      PROVE  ThreadInv' /\ Forward
      BY <1>1, SheetSteps, StillForward
         DEF CloseCorrection, HideTab, ShowTab, OpenCorrection, EditOver
<1>2. ASSUME NEW m \in Ids, SendMsg(m) PROVE ThreadInv' /\ Forward
      BY <1>2, SendMsgStep, StillForward DEF SendMsg
<1>3. ASSUME NEW m \in Ids, NEW twice \in BOOLEAN, PeerSends(m, twice) PROVE ThreadInv' /\ Forward
      BY <1>3, PeerSendsStep, StillForward DEF PeerSends
<1>4. ASSUME GatewayRefuses \/ PartnerGone PROVE ThreadInv' /\ Forward
      BY <1>4, GatewayRefusesStep, PartnerGoneStep, StillForward DEF GatewayRefuses, PartnerGone
<1>5. ASSUME Correct PROVE ThreadInv' /\ Forward
      BY <1>5, CorrectStep
<1>6. ASSUME Relay PROVE ThreadInv' /\ Forward
      BY <1>6, RelayStep
<1>7. ASSUME NEW m \in Ids, PeerCorrects(m) PROVE ThreadInv' /\ Forward
      BY <1>7, PeerCorrectsStep
<1>8. ASSUME OnThreadFrame PROVE ThreadInv' /\ Forward
  <2>1. ThreadInv' /\ \A m \in Ids : shown'[m] >= shown[m]
        BY <1>8, OnThreadFrameStep
  <2>2. \A m \in Ids : peerSees[m] \in Nat /\ peerSees' = peerSees
        BY <1>8, ThreadConstants DEF OnThreadFrame, ThreadInv, VersionTypes
  <2>3. \A m \in Ids : Theirs(m) => peerSees'[m] <= shown'[m]
    <3>1. \A m \in Ids : shown'[m] \in Nat /\ shown[m] \in Nat
          BY <2>1, ThreadConstants DEF ThreadInv, VersionTypes
    <3>2. \A m \in Ids : Theirs(m) => peerSees[m] <= shown[m]
          BY NotBoth DEF ThreadInv, Submitted
    <3> QED BY <2>1, <2>2, <3>1, <3>2
  <2> QED BY <2>1, <2>2, <2>3 DEF Forward
<1>9. CASE UNCHANGED threadVars
  <2>1. TabOK' /\ SheetOK' /\ SheetOnTheirs'
        BY <1>9 DEF threadVars, ThreadInv, TabOK, SheetOK, SheetOnTheirs, Theirs, Known, Author
  <2>2. ThreadInv'
        BY <1>9, <2>1, AroundTheThread DEF threadVars
  <2> QED BY <1>9, <2>2, StillForward DEF threadVars
<1> QED BY <1>1, <1>2, <1>3, <1>4, <1>5, <1>6, <1>7, <1>8, <1>9 DEF ThreadNext

\* Every variable of the thread keeps its type, and the two wires their bound.
THEOREM ThreadTypes == ThreadSpec => []ThreadTypeOK
BY ThreadStart, ThreadKeeps, ThreadInvGives, PTL DEF ThreadSpec

\* ws/chat.go and chatStore.ts: neither side ever goes back to an older correction of a
\* message, and the partner never shows one of theirs that I do not, for any number of
\* messages and corrections and whatever the gateway dropped.
THEOREM CorrectionsMoveForwardHolds == ThreadSpec => CorrectionsMoveForward
<1>1. ThreadInv /\ [ThreadNext]_threadVars => [Forward]_threadVars
      BY ThreadKeeps
<1> QED BY ThreadStart, ThreadKeeps, <1>1, PTL DEF ThreadSpec, CorrectionsMoveForward

-----------------------------------------------------------------------------
(* Two partners become friends *)

SideType == [user : BOOLEAN, prompted : BOOLEAN, window : {"no", "open", "over"},
             mine : BOOLEAN, peers : BOOLEAN, done : BOOLEAN,
             peerGone : BOOLEAN, here : BOOLEAN]
Announcements == {"friend_made", "made_pending"}
CardFrames == Announcements \cup {"friend_prompt", "friend_skipped"}
Befriended == {"made", "made_pending"}

\* What each variable holds.
CardsOK == /\ card \in [FriendSides -> Cards]
           /\ friendLink \in [FriendSides -> {"none", "peer", "another"}]
           /\ loggedIn \in [FriendSides -> BOOLEAN] /\ wire \in [FriendSides -> BOOLEAN]

LoopsOK == /\ side \in [FriendSides -> SideType]
           /\ cardRoom \in [FriendSides -> Seq({"accept", "left"})]
           /\ cardDown \in [FriendSides -> Seq(CardFrames)]

TableOK == /\ stored \in BOOLEAN /\ fails \in 0..MaxFails
           /\ pending \in [FriendSides -> SUBSET {"uid", "fp"}]
           /\ resolving \in [FriendSides -> SUBSET {"uid", "fp"}]
           /\ hand \in [FriendSides -> {"none", "uid", "fp", "adding"}] /\ burned \in BOOLEAN

\* What a login has in hand has been written, unless the write failed.
InTime(h, t) == h = "uid" \/ (h = "fp" /\ "uid" \notin t) => stored \/ burned
InHand == \A u \in FriendSides : InTime(hand[u], pending[Peer(u)])

\* An acceptance is on its way to the partner's loop or has reached it.
Bears(q) == \E i \in DOMAIN q : q[i] = "accept"

AcceptSent ==
    \A u \in FriendSides : side[u].mine <=> side[Peer(u)].peers \/ Bears(cardRoom[Peer(u)])

\* A loop is done once both have accepted and it was prompted; while no write fails, it
\* is done as soon as it knows.
DoneWhenBoth ==
    \A u \in FriendSides :
        /\ side[u].mine => side[u].prompted
        /\ side[u].done => side[u].mine /\ side[u].peers
        /\ fails = 0 /\ side[u].mine /\ side[u].peers => side[u].done

\* What a loop has announced is the last thing that its card reads.
Reads(c, q, done) ==
    IF done THEN /\ q = <<>> => c \in Befriended
                 /\ q # <<>> => q[Len(q)] \in Announcements
    ELSE c \notin Befriended /\ \A i \in DOMAIN q : q[i] \notin Announcements

LastWord == \A u \in FriendSides : Reads(card[u], cardDown[u], side[u].done)

FriendInv ==
    CardsOK /\ LoopsOK /\ TableOK /\ AcceptSent /\ DoneWhenBoth /\ LastWord /\ MadeIsKept
    /\ InHand

LEMMA FriendInvGives == FriendInv => FriendTypeOK
BY DEF FriendInv, CardsOK, LoopsOK, TableOK, FriendTypeOK, SideType

LEMMA Peers ==
  /\ \A u \in FriendSides : Peer(u) \in FriendSides /\ Peer(u) # u /\ Peer(Peer(u)) = u
  /\ \A u, v \in FriendSides : v = u \/ v = Peer(u)
BY DEF FriendSides, Peer

\* While nobody is befriended the announcements agree because the loops do.
LEMMA FriendInvAgrees == FriendInv => FriendsAgree
<1> SUFFICES ASSUME FriendInv, Delivered, fails = 0
             PROVE  (card["a"] \in Befriended) <=> (card["b"] \in Befriended)
    BY DEF FriendsAgree, Befriended
<1>1. ASSUME NEW u \in FriendSides PROVE card[u] \in Befriended <=> side[u].done
      BY <1>1 DEF FriendInv, LastWord, Reads, Delivered
<1>2. ASSUME NEW u \in FriendSides PROVE side[u].mine <=> side[Peer(u)].peers
  <2>1. cardRoom[Peer(u)] = <<>>
        BY Peers DEF Delivered
  <2>2. DOMAIN cardRoom[Peer(u)] = {}
        BY <2>1
  <2> QED BY <2>2 DEF FriendInv, AcceptSent, Bears
<1>3. ASSUME NEW u \in FriendSides PROVE side[u].done <=> side[u].mine /\ side[u].peers
      BY DEF FriendInv, DoneWhenBoth
<1>4. "a" \in FriendSides /\ "b" \in FriendSides /\ Peer("a") = "b" /\ Peer("b") = "a"
      BY DEF FriendSides, Peer
<1> QED BY <1>1, <1>2, <1>3, <1>4

LEMMA FriendStart == FriendInit => FriendInv
<1> SUFFICES ASSUME FriendInit PROVE FriendInv
    OBVIOUS
<1>1. CardsOK /\ TableOK
  <2>1. CardsOK
        BY DEF FriendInit, CardsOK, Cards
  <2>2. fails \in 0..MaxFails
    <3>1. fails = 0 /\ MaxFails \in Nat
          BY FriendPromptAssumption DEF FriendInit, FriendPromptAssumption
    <3> QED BY <3>1
  <2>3. TableOK
        BY <2>2 DEF FriendInit, TableOK
  <2> QED BY <2>1, <2>3
<1>2. LoopsOK
      BY DEF FriendInit, LoopsOK, SideType
<1>3. AcceptSent /\ DoneWhenBoth /\ LastWord
      BY Peers DEF FriendInit, AcceptSent, Bears, DoneWhenBoth, LastWord, Reads, Befriended
<1>4. MadeIsKept /\ InHand
      BY DEF FriendInit, MadeIsKept, InHand, InTime
<1> QED BY <1>1, <1>2, <1>3, <1>4 DEF FriendInv

\* The queues of a loop and of its card.
LEMMA RoomQueue ==
  ASSUME NEW q \in Seq({"accept", "left"})
  PROVE  /\ \A x \in {"accept", "left"} : /\ Append(q, x) \in Seq({"accept", "left"})
                                          /\ Bears(Append(q, x)) <=> Bears(q) \/ x = "accept"
         /\ q # <<>> => /\ Tail(q) \in Seq({"accept", "left"}) /\ Head(q) \in {"accept", "left"}
                        /\ Bears(q) <=> Head(q) = "accept" \/ Bears(Tail(q))
<1>1. ASSUME NEW x \in {"accept", "left"}
      PROVE  /\ Append(q, x) \in Seq({"accept", "left"})
             /\ Bears(Append(q, x)) <=> Bears(q) \/ x = "accept"
  <2>1. /\ Append(q, x) \in Seq({"accept", "left"})
        /\ \A i \in DOMAIN q : i \in DOMAIN Append(q, x) /\ Append(q, x)[i] = q[i]
        /\ Len(q) + 1 \in DOMAIN Append(q, x) /\ Append(q, x)[Len(q) + 1] = x
        /\ \A i \in DOMAIN Append(q, x) : i \in DOMAIN q \/ i = Len(q) + 1
        OBVIOUS
  <2> QED BY <2>1 DEF Bears
<1>2. ASSUME q # <<>>
      PROVE  /\ Tail(q) \in Seq({"accept", "left"}) /\ Head(q) \in {"accept", "left"}
             /\ Bears(q) <=> Head(q) = "accept" \/ Bears(Tail(q))
  <2>1. /\ Tail(q) \in Seq({"accept", "left"}) /\ Head(q) \in {"accept", "left"}
        /\ 1 \in DOMAIN q /\ Head(q) = q[1]
        /\ \A i \in DOMAIN Tail(q) : i + 1 \in DOMAIN q /\ Tail(q)[i] = q[i + 1]
        BY <1>2, Dequeued
  <2>2. \A i \in DOMAIN q : i = 1 \/ (i - 1 \in DOMAIN Tail(q) /\ Tail(q)[i - 1] = q[i])
        BY <1>2
  <2> QED BY <2>1, <2>2 DEF Bears
<1> QED BY <1>1, <1>2

LEMMA CardQueue ==
  ASSUME NEW q \in Seq(CardFrames), NEW c \in Cards
  PROVE  /\ \A f \in CardFrames :
              /\ Append(q, f) \in Seq(CardFrames)
              /\ f \in Announcements => Reads(c, Append(q, f), TRUE)
              /\ f \notin Announcements /\ Reads(c, q, FALSE) => Reads(c, Append(q, f), FALSE)
         /\ \A d \in BOOLEAN, e \in Cards :
              /\ q # <<>> /\ Reads(c, q, d)
              /\ Head(q) \in Announcements <=> e \in Befriended
              => Reads(e, Tail(q), d)
<1>1. ASSUME NEW f \in CardFrames
      PROVE  /\ Append(q, f) \in Seq(CardFrames)
             /\ f \in Announcements => Reads(c, Append(q, f), TRUE)
             /\ f \notin Announcements /\ Reads(c, q, FALSE) => Reads(c, Append(q, f), FALSE)
  <2>1. /\ Append(q, f) \in Seq(CardFrames) /\ Append(q, f) # <<>>
        /\ Append(q, f)[Len(Append(q, f))] = f
        /\ \A i \in DOMAIN Append(q, f) : \/ i \in DOMAIN q /\ Append(q, f)[i] = q[i]
                                          \/ Append(q, f)[i] = f
        OBVIOUS
  <2> QED BY <2>1 DEF Reads
<1>2. ASSUME NEW d \in BOOLEAN, NEW e \in Cards, q # <<>>, Reads(c, q, d),
             Head(q) \in Announcements <=> e \in Befriended
      PROVE  Reads(e, Tail(q), d)
  <2>1. /\ 1 \in DOMAIN q /\ Head(q) = q[1] /\ Tail(q) \in Seq(CardFrames)
        /\ \A i \in DOMAIN Tail(q) : i + 1 \in DOMAIN q /\ Tail(q)[i] = q[i + 1]
        BY <1>2, Dequeued
  <2>2. Tail(q) = <<>> => Len(q) = 1
    <3>1. Len(Tail(q)) = Len(q) - 1 /\ Len(q) \in Nat
          BY <1>2, Dequeued
    <3>2. Tail(q) = <<>> => Len(Tail(q)) = 0
          BY <2>1, EmptySeq
    <3> QED BY <3>1, <3>2
  <2>3. Tail(q) # <<>> => Tail(q)[Len(Tail(q))] = q[Len(q)]
        BY <1>2
  <2>4. CASE d
        BY <1>2, <2>1, <2>2, <2>3, <2>4 DEF Reads
  <2>5. CASE ~d
        BY <1>2, <2>1, <2>5 DEF Reads
  <2> QED BY <2>4, <2>5
<1> QED BY <1>1, <1>2

\* One side of a pair changes.
LEMMA OneSide ==
  ASSUME NEW S, NEW f \in [FriendSides -> S], NEW u \in FriendSides, NEW x \in S
  PROVE  /\ [f EXCEPT ![u] = x] \in [FriendSides -> S]
         /\ \A v \in FriendSides : [f EXCEPT ![u] = x][v] = IF v = u THEN x ELSE f[v]
OBVIOUS

\* A step that changes nothing of what both loops have accepted and announced.
LEMMA AgreementRests ==
  ASSUME FriendInv, CardsOK', LoopsOK', TableOK', LastWord',
         UNCHANGED <<stored, fails, pending, hand, burned>>,
         \A v \in FriendSides :
            /\ side'[v].mine = side[v].mine /\ side'[v].peers = side[v].peers
            /\ side'[v].done = side[v].done /\ (side[v].prompted => side'[v].prompted)
            /\ Bears(cardRoom[v])' <=> Bears(cardRoom[v])
  PROVE  FriendInv'
<1>1. AcceptSent'
      BY Peers DEF FriendInv, AcceptSent
<1>2. DoneWhenBoth'
      BY DEF FriendInv, DoneWhenBoth
<1>3. MadeIsKept' /\ InHand'
      BY DEF FriendInv, MadeIsKept, InHand, InTime
<1> QED BY <1>1, <1>2, <1>3 DEF FriendInv

\* What a loop remembers, after one of its flags has changed.
LEMMA LoopSets ==
  ASSUME LoopsOK, NEW u \in FriendSides
  PROVE  LET l == side[u]
             over == [l EXCEPT !.window = "over"]
             open == [l EXCEPT !.prompted = TRUE, !.window = "open"]
             yes == [l EXCEPT !.mine = TRUE]
             told == [l EXCEPT !.peers = TRUE]
             alone == [l EXCEPT !.peerGone = TRUE]
             gone == [l EXCEPT !.here = FALSE]
         IN /\ l \in SideType
            /\ \A r \in {over, open, yes, told, alone, gone} : r \in SideType /\ r.done = l.done
            /\ \A r \in {over, open, told, alone, gone} : r.mine = l.mine
            /\ \A r \in {over, open, yes, alone, gone} : r.peers = l.peers
            /\ \A r \in {over, yes, told, alone, gone} : r.prompted = l.prompted
            /\ open.prompted /\ yes.mine /\ told.peers
<1> DEFINE l == side[u]
<1>0. l \in SideType
      BY DEF LoopsOK
<1> HIDE DEF l
<1>1. LET r == [l EXCEPT !.window = "over"]
      IN  r \in SideType /\ r.done = l.done /\ r.mine = l.mine /\ r.peers = l.peers
          /\ r.prompted = l.prompted
      BY <1>0 DEF SideType
<1>2. LET r == [l EXCEPT !.prompted = TRUE, !.window = "open"]
      IN  r \in SideType /\ r.done = l.done /\ r.mine = l.mine /\ r.peers = l.peers
          /\ r.prompted
      BY <1>0 DEF SideType
<1>3. LET r == [l EXCEPT !.mine = TRUE]
      IN  r \in SideType /\ r.done = l.done /\ r.mine /\ r.peers = l.peers
          /\ r.prompted = l.prompted
      BY <1>0 DEF SideType
<1>4. LET r == [l EXCEPT !.peers = TRUE]
      IN  r \in SideType /\ r.done = l.done /\ r.mine = l.mine /\ r.peers
          /\ r.prompted = l.prompted
      BY <1>0 DEF SideType
<1>5. LET r == [l EXCEPT !.peerGone = TRUE]
      IN  r \in SideType /\ r.done = l.done /\ r.mine = l.mine /\ r.peers = l.peers
          /\ r.prompted = l.prompted
      BY <1>0 DEF SideType
<1>6. LET r == [l EXCEPT !.here = FALSE]
      IN  r \in SideType /\ r.done = l.done /\ r.mine = l.mine /\ r.peers = l.peers
          /\ r.prompted = l.prompted
      BY <1>0 DEF SideType
<1>7. QED
      BY <1>0, <1>1, <1>2, <1>3, <1>4, <1>5, <1>6 DEF l

LEMMA PromptTimerStep == ASSUME FriendInv, NEW u \in FriendSides, PromptTimer(u) PROVE FriendInv'
<1>0. /\ CardsOK /\ LoopsOK /\ TableOK /\ LastWord /\ DoneWhenBoth
      /\ side \in [FriendSides -> SideType] /\ cardDown \in [FriendSides -> Seq(CardFrames)]
      /\ card \in [FriendSides -> Cards]
      BY DEF FriendInv, LoopsOK, CardsOK
<1>1. UNCHANGED <<cardRoom, wire, Browser, Database>> /\ ~side[u].prompted
      BY DEF PromptTimer
<1>2. CardsOK' /\ TableOK'
      BY <1>0, <1>1, Zenon DEF Browser, Database, LoginRun, CardsOK, TableOK
<1>3. ~side[u].done
      BY <1>0, <1>1 DEF DoneWhenBoth
<1>4. CASE side[u].peerGone
  <2> DEFINE r == [side[u] EXCEPT !.window = "over"]
  <2>1. side' = [side EXCEPT ![u] = r] /\ cardDown' = cardDown
        BY <1>4 DEF PromptTimer
  <2>2. /\ r \in SideType /\ r.mine = side[u].mine /\ r.peers = side[u].peers
        /\ r.done = side[u].done /\ r.prompted = side[u].prompted
        BY <1>0, LoopSets
  <2> HIDE DEF r
  <2>3. /\ side' \in [FriendSides -> SideType]
        /\ \A v \in FriendSides : side'[v] = IF v = u THEN r ELSE side[v]
        BY <1>0, <2>1, <2>2, OneSide
  <2>4. LoopsOK' /\ LastWord'
    <3>1. LoopsOK'
          BY <1>0, <1>1, <2>1, <2>3 DEF LoopsOK
    <3>2. \A v \in FriendSides : Reads(card[v], cardDown[v], side'[v].done)
          BY <1>0, <2>2, <2>3 DEF LastWord
    <3> QED BY <1>1, <2>1, <3>1, <3>2 DEF LastWord, Browser
  <2>5. \A v \in FriendSides :
            /\ side'[v].mine = side[v].mine /\ side'[v].peers = side[v].peers
            /\ side'[v].done = side[v].done /\ (side[v].prompted => side'[v].prompted)
            /\ Bears(cardRoom[v])' <=> Bears(cardRoom[v])
        BY <1>1, <2>2, <2>3 DEF Bears
  <2> QED BY <1>1, <1>2, <2>4, <2>5, AgreementRests DEF Database, LoginRun
<1>5. CASE ~side[u].peerGone
  <2> DEFINE r == [side[u] EXCEPT !.prompted = TRUE, !.window = "open"]
             q == Append(cardDown[u], "friend_prompt")
  <2>1. side' = [side EXCEPT ![u] = r] /\ cardDown' = [cardDown EXCEPT ![u] = q]
        BY <1>5 DEF PromptTimer, Tell
  <2>2. /\ r \in SideType /\ r.mine = side[u].mine /\ r.peers = side[u].peers
        /\ r.done = side[u].done /\ r.prompted
        BY <1>0, LoopSets
  <2>3. q \in Seq(CardFrames) /\ Reads(card[u], q, FALSE)
    <3>1. Reads(card[u], cardDown[u], side[u].done)
          BY <1>0 DEF LastWord
    <3>2. Reads(card[u], cardDown[u], FALSE)
          BY <1>3, <3>1 DEF Reads
    <3>3. "friend_prompt" \in CardFrames /\ "friend_prompt" \notin Announcements
          BY DEF CardFrames, Announcements
    <3> QED BY <1>0, <3>2, <3>3, CardQueue
  <2> HIDE DEF r, q
  <2>4. /\ side' \in [FriendSides -> SideType]
        /\ \A v \in FriendSides : side'[v] = IF v = u THEN r ELSE side[v]
        BY <1>0, <2>1, <2>2, OneSide
  <2>5. /\ cardDown' \in [FriendSides -> Seq(CardFrames)]
        /\ \A v \in FriendSides : cardDown'[v] = IF v = u THEN q ELSE cardDown[v]
        BY <1>0, <2>1, <2>3, OneSide
  <2>6. LoopsOK'
        BY <1>0, <1>1, <2>4, <2>5 DEF LoopsOK
  <2>7. LastWord'
    <3>1. \A v \in FriendSides : Reads(card[v], cardDown[v], side[v].done)
          BY <1>0 DEF LastWord
    <3>2. Reads(card[u], q, r.done)
          BY <1>3, <2>2, <2>3 DEF Reads
    <3>3. \A v \in FriendSides : Reads(card[v], cardDown'[v], side'[v].done)
          BY <2>4, <2>5, <3>1, <3>2
    <3> QED BY <1>1, <3>3 DEF LastWord, Browser
  <2>8. \A v \in FriendSides :
            /\ side'[v].mine = side[v].mine /\ side'[v].peers = side[v].peers
            /\ side'[v].done = side[v].done /\ (side[v].prompted => side'[v].prompted)
            /\ Bears(cardRoom[v])' <=> Bears(cardRoom[v])
        BY <1>1, <2>2, <2>4 DEF Bears
  <2> QED BY <1>1, <1>2, <2>6, <2>7, <2>8, AgreementRests DEF Database, LoginRun
<1> QED BY <1>4, <1>5

LEMMA WindowOverStep == ASSUME FriendInv, NEW u \in FriendSides, WindowOver(u) PROVE FriendInv'
<1> DEFINE r == [side[u] EXCEPT !.window = "over"]
           q == IF side[u].done THEN cardDown[u] ELSE Append(cardDown[u], "friend_skipped")
<1>0. /\ CardsOK /\ LoopsOK /\ TableOK /\ LastWord
      /\ side \in [FriendSides -> SideType] /\ cardDown \in [FriendSides -> Seq(CardFrames)]
      /\ card \in [FriendSides -> Cards]
      BY DEF FriendInv, LoopsOK, CardsOK
<1>1. UNCHANGED <<cardRoom, wire, Browser, Database>>
      BY DEF WindowOver
<1>2. CardsOK' /\ TableOK'
      BY <1>0, <1>1, Zenon DEF Browser, Database, LoginRun, CardsOK, TableOK
<1>3. side' = [side EXCEPT ![u] = r] /\ cardDown' = [cardDown EXCEPT ![u] = q]
      BY <1>0 DEF WindowOver, Tell
<1>4. /\ r \in SideType /\ r.mine = side[u].mine /\ r.peers = side[u].peers
      /\ r.done = side[u].done /\ r.prompted = side[u].prompted
      BY <1>0, LoopSets
<1>5. q \in Seq(CardFrames) /\ Reads(card[u], q, side[u].done)
  <2>1. Reads(card[u], cardDown[u], side[u].done)
        BY <1>0 DEF LastWord
  <2>2. CASE side[u].done
        BY <1>0, <2>1, <2>2
  <2>3. CASE ~side[u].done
    <3>1. Reads(card[u], cardDown[u], FALSE)
          BY <2>1, <2>3 DEF Reads
    <3>2. "friend_skipped" \in CardFrames /\ "friend_skipped" \notin Announcements
          BY DEF CardFrames, Announcements
    <3>3. q \in Seq(CardFrames) /\ Reads(card[u], q, FALSE)
          BY <1>0, <2>3, <3>1, <3>2, CardQueue
    <3> HIDE DEF q
    <3> QED BY <2>3, <3>3 DEF Reads
  <2> QED BY <2>2, <2>3
<1> HIDE DEF r, q
<1>6. /\ side' \in [FriendSides -> SideType]
      /\ \A v \in FriendSides : side'[v] = IF v = u THEN r ELSE side[v]
      BY <1>0, <1>3, <1>4, OneSide
<1>7. /\ cardDown' \in [FriendSides -> Seq(CardFrames)]
      /\ \A v \in FriendSides : cardDown'[v] = IF v = u THEN q ELSE cardDown[v]
      BY <1>0, <1>3, <1>5, OneSide
<1>8. LoopsOK'
      BY <1>0, <1>1, <1>6, <1>7 DEF LoopsOK
<1>9. LastWord'
  <2>1. \A v \in FriendSides : Reads(card[v], cardDown[v], side[v].done)
        BY <1>0 DEF LastWord
  <2>2. \A v \in FriendSides : Reads(card[v], cardDown'[v], side'[v].done)
        BY <1>4, <1>5, <1>6, <1>7, <2>1
  <2> QED BY <1>1, <2>2 DEF LastWord, Browser
<1>10. \A v \in FriendSides :
            /\ side'[v].mine = side[v].mine /\ side'[v].peers = side[v].peers
            /\ side'[v].done = side[v].done /\ (side[v].prompted => side'[v].prompted)
            /\ Bears(cardRoom[v])' <=> Bears(cardRoom[v])
      BY <1>1, <1>4, <1>6 DEF Bears
<1> QED BY <1>1, <1>2, <1>8, <1>9, <1>10, AgreementRests DEF Database, LoginRun

\* Both have accepted: the friendship is written, or kept for a login, or the write fails.
LEMMA MadeStep ==
  ASSUME FriendInv, NEW u \in FriendSides, NEW l \in SideType, Made(u, l), ~side[u].done,
         l.mine, l.peers, ~l.done, l.prompted, UNCHANGED <<card, LoginRun>>
  PROVE  /\ side' \in [FriendSides -> SideType] /\ cardDown' \in [FriendSides -> Seq(CardFrames)]
         /\ side'[u].mine /\ side'[u].peers
         /\ \A v \in FriendSides : v # u => side'[v] = side[v]
         /\ TableOK' /\ DoneWhenBoth' /\ LastWord' /\ MadeIsKept' /\ InHand'
<1> DEFINE d == [l EXCEPT !.done = TRUE]
<1>0. /\ TableOK /\ LastWord /\ DoneWhenBoth /\ MadeIsKept /\ InHand
      /\ side \in [FriendSides -> SideType] /\ cardDown \in [FriendSides -> Seq(CardFrames)]
      /\ card \in [FriendSides -> Cards]
      BY DEF FriendInv, LoopsOK, CardsOK
<1>1. d \in SideType /\ d.mine /\ d.peers /\ d.prompted /\ d.done
      BY DEF SideType
<1> HIDE DEF d
<1>2. \A v \in FriendSides : Reads(card[v], cardDown[v], side[v].done)
      BY <1>0 DEF LastWord
\* It is announced.
<1>3. ASSUME NEW f \in Announcements, side' = [side EXCEPT ![u] = d], Tell(u, f)
      PROVE  /\ side' \in [FriendSides -> SideType] /\ cardDown' \in [FriendSides -> Seq(CardFrames)]
             /\ \A v \in FriendSides : side'[v] = IF v = u THEN d ELSE side[v]
             /\ LastWord'
  <2> DEFINE q == Append(cardDown[u], f)
  <2>1. q \in Seq(CardFrames) /\ Reads(card[u], q, TRUE)
        BY <1>0, CardQueue DEF CardFrames
  <2>2. cardDown' = [cardDown EXCEPT ![u] = q]
        BY <1>3 DEF Tell
  <2> HIDE DEF q
  <2>3. /\ side' \in [FriendSides -> SideType]
        /\ \A v \in FriendSides : side'[v] = IF v = u THEN d ELSE side[v]
        BY <1>0, <1>1, <1>3, OneSide
  <2>4. /\ cardDown' \in [FriendSides -> Seq(CardFrames)]
        /\ \A v \in FriendSides : cardDown'[v] = IF v = u THEN q ELSE cardDown[v]
        BY <1>0, <2>1, <2>2, OneSide
  <2>5. Reads(card[u], q, d.done)
        BY <1>1, <2>1 DEF Reads
  <2>6. \A v \in FriendSides : Reads(card[v], cardDown'[v], side'[v].done)
        BY <1>2, <2>3, <2>4, <2>5
  <2>7. LastWord'
        BY <2>6 DEF LastWord
  <2> QED BY <2>3, <2>4, <2>7
<1>4. ASSUME side' \in [FriendSides -> SideType], fails' = fails,
             \A v \in FriendSides : side'[v] = IF v = u THEN d ELSE side[v]
      PROVE  DoneWhenBoth'
      BY <1>0, <1>1, <1>4 DEF DoneWhenBoth
<1>5. CASE /\ stored' = TRUE /\ side' = [side EXCEPT ![u] = d] /\ Tell(u, "friend_made")
           /\ UNCHANGED <<pending, fails>>
  <2>1. "friend_made" \in Announcements
        BY DEF Announcements
  <2>2. TableOK'
        BY <1>0, <1>5, Zenon DEF TableOK, LoginRun
  <2>3. MadeIsKept' /\ InHand'
        BY <1>5 DEF MadeIsKept, InHand, InTime
  <2> QED BY <1>1, <1>3, <1>4, <1>5, <2>1, <2>2, <2>3
<1>6. CASE /\ \E v \in FriendSides : ~side[v].user
           /\ pending' = [v \in FriendSides |-> pending[v] \cup Entries(u)[v]]
           /\ side' = [side EXCEPT ![u] = d] /\ Tell(u, "made_pending")
           /\ UNCHANGED <<stored, fails>>
  <2>1. "made_pending" \in Announcements
        BY DEF Announcements
  <2>2. \A v \in FriendSides : Entries(u)[v] \in SUBSET {"uid", "fp"}
        BY DEF Entries
  <2>3. TableOK'
        BY <1>0, <1>6, <2>2 DEF TableOK, LoginRun
  <2>4. PICK v \in FriendSides : ~side[v].user
        BY <1>6
  <2>5. Entries(u)[v] # {}
        BY <2>4 DEF Entries
  <2>6. pending'[v] # {}
        BY <1>6, <2>5
  <2>7. MadeIsKept'
        BY <2>6 DEF MadeIsKept
  <2>8. InHand'
    <3>1. \A w \in FriendSides : pending[w] \subseteq pending'[w]
          BY <1>6
    <3> QED BY <1>0, <1>6, <3>1, Peers DEF InHand, InTime, LoginRun
  <2> QED BY <1>1, <1>3, <1>4, <1>6, <2>1, <2>3, <2>7, <2>8
<1>7. CASE /\ Fails /\ side' = [side EXCEPT ![u] = l]
           /\ \/ UNCHANGED pending
              \/ pending' = [pending EXCEPT ![u] = @ \cup Entries(u)[u]]
           /\ UNCHANGED <<stored, cardDown>>
  <2>1. /\ side' \in [FriendSides -> SideType]
        /\ \A v \in FriendSides : side'[v] = IF v = u THEN l ELSE side[v]
        BY <1>0, <1>7, OneSide
  <2>2. fails' \in 0..MaxFails /\ fails' # 0
    <3>1. fails \in 0..MaxFails /\ MaxFails \in Nat
          BY <1>0, FriendPromptAssumption DEF TableOK, FriendPromptAssumption
    <3> QED BY <1>7, <3>1 DEF Fails
  <2>6. /\ pending' \in [FriendSides -> SUBSET {"uid", "fp"}]
        /\ \A w \in FriendSides : pending[w] \subseteq pending'[w]
    <3>1. Entries(u)[u] \in SUBSET {"uid", "fp"}
          BY DEF Entries
    <3> QED BY <1>0, <1>7, <3>1 DEF TableOK
  <2>3. TableOK'
        BY <1>0, <1>7, <2>2, <2>6 DEF TableOK, LoginRun
  <2>4. DoneWhenBoth'
        BY <1>0, <2>1, <2>2 DEF DoneWhenBoth
  <2>7. MadeIsKept' /\ InHand'
    <3>1. \A w \in FriendSides : side'[w].done => \E x \in FriendSides : side[x].done
          BY <2>1
    <3>2. MadeIsKept'
          BY <1>0, <1>7, <2>6, <3>1 DEF MadeIsKept, LoginRun
    <3> QED BY <1>0, <1>7, <2>6, <3>2, Peers DEF InHand, InTime, LoginRun
  <2>5. LastWord'
    <3>1. Reads(card[u], cardDown[u], l.done)
          BY <1>2 DEF Reads
    <3>2. \A v \in FriendSides : Reads(card[v], cardDown[v], side'[v].done)
          BY <1>2, <2>1, <3>1
    <3> QED BY <1>7, <3>2 DEF LastWord
  <2> QED BY <1>0, <1>7, <2>1, <2>3, <2>4, <2>5, <2>7
<1> QED BY <1>5, <1>6, <1>7 DEF Made, d

\* An acceptance or an envelope after which it is not yet agreed.
LEMMA NotYet ==
  ASSUME FriendInv, NEW u \in FriendSides, NEW l \in SideType, side' = [side EXCEPT ![u] = l],
         l.done = side[u].done, l.prompted = side[u].prompted, l.mine => l.prompted,
         side[u].mine => l.mine, side[u].peers => l.peers, ~Agreed(l),
         UNCHANGED <<card, cardDown, stored, pending, fails, LoginRun>>
  PROVE  /\ side' \in [FriendSides -> SideType]
         /\ \A v \in FriendSides : side'[v] = IF v = u THEN l ELSE side[v]
         /\ TableOK' /\ DoneWhenBoth' /\ LastWord' /\ MadeIsKept' /\ InHand'
<1>0. /\ TableOK /\ LastWord /\ DoneWhenBoth /\ MadeIsKept /\ InHand
      /\ side \in [FriendSides -> SideType]
      BY DEF FriendInv, LoopsOK
<1>1. /\ side' \in [FriendSides -> SideType]
      /\ \A v \in FriendSides : side'[v] = IF v = u THEN l ELSE side[v]
      BY <1>0, OneSide
<1>2. TableOK'
      BY <1>0 DEF TableOK, LoginRun
<1>3. DoneWhenBoth'
      BY <1>0, <1>1 DEF DoneWhenBoth, Agreed
<1>4. LastWord'
      BY <1>0, <1>1 DEF LastWord
<1>5. MadeIsKept' /\ InHand'
      BY <1>0, <1>1 DEF MadeIsKept, InHand, InTime, LoginRun
<1> QED BY <1>1, <1>2, <1>3, <1>4, <1>5

LEMMA OnAcceptStep == ASSUME FriendInv, NEW u \in FriendSides, OnAccept(u) PROVE FriendInv'
<1> DEFINE l == [side[u] EXCEPT !.mine = TRUE]
<1>0. /\ CardsOK /\ LoopsOK /\ TableOK /\ LastWord /\ DoneWhenBoth /\ AcceptSent
      /\ side \in [FriendSides -> SideType] /\ cardDown \in [FriendSides -> Seq(CardFrames)]
      /\ card \in [FriendSides -> Cards] /\ cardRoom \in [FriendSides -> Seq({"accept", "left"})]
      BY DEF FriendInv, LoopsOK, CardsOK
<1>1. UNCHANGED <<card, friendLink, loggedIn, LoginRun>> /\ wire' = [wire EXCEPT ![u] = FALSE]
      BY DEF OnAccept, Browser
<1>2. CardsOK'
      BY <1>0, <1>1 DEF CardsOK
<1>3. CASE UNCHANGED <<side, cardRoom, cardDown, stored, pending, fails>>
  <2>1. LoopsOK' /\ TableOK' /\ LastWord'
        BY <1>0, <1>1, <1>3, Zenon DEF LoopsOK, TableOK, LastWord, LoginRun
  <2>2. UNCHANGED <<stored, fails, pending, hand, burned>>
        BY <1>1, <1>3 DEF LoginRun
  <2>3. \A v \in FriendSides :
            /\ side'[v].mine = side[v].mine /\ side'[v].peers = side[v].peers
            /\ side'[v].done = side[v].done /\ (side[v].prompted => side'[v].prompted)
            /\ Bears(cardRoom[v])' <=> Bears(cardRoom[v])
        BY <1>3 DEF Bears
  <2> QED BY <1>2, <2>1, <2>2, <2>3, AgreementRests
<1>4. CASE /\ side[u].prompted /\ ~side[u].done /\ ~side[u].peerGone /\ ~side[u].mine
           /\ cardRoom' = [cardRoom EXCEPT ![Peer(u)] = Append(@, "accept")]
           /\ IF Agreed(l) THEN Made(u, l)
              ELSE side' = [side EXCEPT ![u] = l] /\ UNCHANGED <<cardDown, stored, pending, fails>>
  <2>1. /\ l \in SideType /\ l.mine /\ l.peers = side[u].peers /\ l.done = side[u].done
        /\ l.prompted = side[u].prompted
        BY <1>0, LoopSets
  <2> HIDE DEF l
  <2>2. /\ side' \in [FriendSides -> SideType] /\ cardDown' \in [FriendSides -> Seq(CardFrames)]
        /\ side'[u].mine /\ side'[u].peers = side[u].peers
        /\ \A v \in FriendSides : v # u => side'[v] = side[v]
        /\ TableOK' /\ DoneWhenBoth' /\ LastWord' /\ MadeIsKept' /\ InHand'
    <3>1. CASE Agreed(l)
      <4>1. side'[u].peers /\ l.peers /\ side'[u] \in SideType /\ side[u] \in SideType
            BY <1>0, <1>1, <1>4, <2>1, <3>1, MadeStep DEF Agreed
      <4>2. side'[u].peers = TRUE /\ side[u].peers = TRUE
            BY <2>1, <4>1 DEF SideType
      <4> QED BY <1>1, <1>4, <2>1, <3>1, <4>2, MadeStep DEF Agreed
    <3>2. CASE ~Agreed(l)
          BY <1>0, <1>1, <1>4, <2>1, <3>2, NotYet
    <3> QED BY <3>1, <3>2
  <2> DEFINE q == Append(cardRoom[Peer(u)], "accept")
  <2>3. q \in Seq({"accept", "left"}) /\ Bears(q)
        BY <1>0, Peers, RoomQueue
  <2>4. cardRoom' = [cardRoom EXCEPT ![Peer(u)] = q]
        BY <1>4
  <2> HIDE DEF q
  <2>5. /\ cardRoom' \in [FriendSides -> Seq({"accept", "left"})]
        /\ \A v \in FriendSides : cardRoom'[v] = IF v = Peer(u) THEN q ELSE cardRoom[v]
        BY <1>0, <2>3, <2>4, Peers, OneSide
  <2>6. AcceptSent'
    <3>1. \A v \in FriendSides : Bears(cardRoom'[v]) <=> v = Peer(u) \/ Bears(cardRoom[v])
          BY <2>3, <2>5
    <3>2. \A v \in FriendSides : side[v].mine <=> side[Peer(v)].peers \/ Bears(cardRoom[Peer(v)])
          BY <1>0 DEF AcceptSent
    <3>3. ASSUME NEW v \in FriendSides
          PROVE  side'[v].mine <=> side'[Peer(v)].peers \/ Bears(cardRoom'[Peer(v)])
      <4>1. CASE v = u
            BY <2>2, <3>1, <4>1, Peers
      <4>2. CASE v = Peer(u)
        <5>1. Peer(v) = u /\ u # v
              BY <4>2, Peers
        <5> QED BY <2>2, <3>1, <3>2, <4>2, <5>1
      <4> QED BY <4>1, <4>2, Peers
    <3> QED BY <3>3 DEF AcceptSent
  <2>7. LoopsOK'
        BY <2>2, <2>5 DEF LoopsOK
  <2> QED BY <1>2, <2>2, <2>6, <2>7 DEF FriendInv
<1> QED BY <1>3, <1>4 DEF OnAccept

LEMMA OnRoomStep == ASSUME FriendInv, NEW u \in FriendSides, OnRoom(u) PROVE FriendInv'
<1> DEFINE l == [side[u] EXCEPT !.peers = TRUE]
           g == [side[u] EXCEPT !.peerGone = TRUE]
           h == Head(cardRoom[u])
           q == Tail(cardRoom[u])
<1>0. /\ CardsOK /\ LoopsOK /\ TableOK /\ LastWord /\ DoneWhenBoth /\ AcceptSent
      /\ side \in [FriendSides -> SideType] /\ cardDown \in [FriendSides -> Seq(CardFrames)]
      /\ card \in [FriendSides -> Cards] /\ cardRoom \in [FriendSides -> Seq({"accept", "left"})]
      BY DEF FriendInv, LoopsOK, CardsOK
<1>1. /\ UNCHANGED <<card, friendLink, loggedIn, LoginRun, wire>> /\ cardRoom[u] # <<>>
      /\ cardRoom' = [cardRoom EXCEPT ![u] = q]
      /\ \/ /\ h = "accept"
            /\ IF Agreed(l) THEN Made(u, l)
               ELSE side' = [side EXCEPT ![u] = l] /\ UNCHANGED <<cardDown, stored, pending, fails>>
         \/ /\ h = "left" /\ side' = [side EXCEPT ![u] = g]
            /\ UNCHANGED <<cardDown, stored, pending, fails>>
      BY DEF OnRoom, Browser
<1>2. CardsOK'
      BY <1>0, <1>1 DEF CardsOK
<1>3. q \in Seq({"accept", "left"}) /\ (Bears(cardRoom[u]) <=> h = "accept" \/ Bears(q))
      BY <1>0, <1>1, RoomQueue
<1>4. /\ l \in SideType /\ l.mine = side[u].mine /\ l.peers /\ l.done = side[u].done
      /\ l.prompted = side[u].prompted
      /\ g \in SideType /\ g.mine = side[u].mine /\ g.peers = side[u].peers
      /\ g.done = side[u].done /\ g.prompted = side[u].prompted
      BY <1>0, LoopSets
<1> HIDE DEF l, g, h, q
<1>5. /\ cardRoom' \in [FriendSides -> Seq({"accept", "left"})]
      /\ \A v \in FriendSides : cardRoom'[v] = IF v = u THEN q ELSE cardRoom[v]
      BY <1>0, <1>1, <1>3, OneSide
<1>6. CASE /\ h = "left" /\ side' = [side EXCEPT ![u] = g]
           /\ UNCHANGED <<cardDown, stored, pending, fails>>
  <2>1. /\ side' \in [FriendSides -> SideType]
        /\ \A v \in FriendSides : side'[v] = IF v = u THEN g ELSE side[v]
        BY <1>0, <1>4, <1>6, OneSide
  <2>2. LoopsOK' /\ TableOK'
        BY <1>0, <1>1, <1>5, <1>6, <2>1 DEF LoopsOK, TableOK, LoginRun
  <2>3. LastWord'
        BY <1>0, <1>1, <1>4, <1>6, <2>1 DEF LastWord
  <2>4. \A v \in FriendSides : Bears(cardRoom'[v]) <=> Bears(cardRoom[v])
        BY <1>3, <1>5, <1>6
  <2>5. \A v \in FriendSides :
            /\ side'[v].mine = side[v].mine /\ side'[v].peers = side[v].peers
            /\ side'[v].done = side[v].done /\ (side[v].prompted => side'[v].prompted)
            /\ Bears(cardRoom[v])' <=> Bears(cardRoom[v])
        BY <1>4, <2>1, <2>4 DEF Bears
  <2>6. UNCHANGED <<stored, fails, pending, hand, burned>>
        BY <1>1, <1>6 DEF LoginRun
  <2> QED BY <1>2, <2>2, <2>3, <2>5, <2>6, AgreementRests
<1>7. CASE /\ h = "accept"
           /\ IF Agreed(l) THEN Made(u, l)
              ELSE side' = [side EXCEPT ![u] = l] /\ UNCHANGED <<cardDown, stored, pending, fails>>
  <2>1. l.mine => l.prompted
        BY <1>0, <1>4 DEF DoneWhenBoth
  <2>2. /\ side' \in [FriendSides -> SideType] /\ cardDown' \in [FriendSides -> Seq(CardFrames)]
        /\ side'[u].peers /\ side'[u].mine = side[u].mine
        /\ \A v \in FriendSides : v # u => side'[v] = side[v]
        /\ TableOK' /\ DoneWhenBoth' /\ LastWord' /\ MadeIsKept' /\ InHand'
    <3>1. CASE Agreed(l)
      <4>1. side'[u].mine /\ l.mine /\ side'[u] \in SideType /\ side[u] \in SideType
            BY <1>0, <1>1, <1>4, <1>7, <2>1, <3>1, MadeStep DEF Agreed
      <4>2. side'[u].mine = TRUE /\ side[u].mine = TRUE
            BY <1>4, <4>1 DEF SideType
      <4> QED BY <1>1, <1>4, <1>7, <2>1, <3>1, <4>2, MadeStep DEF Agreed
    <3>2. CASE ~Agreed(l)
          BY <1>0, <1>1, <1>4, <1>7, <2>1, <3>2, NotYet
    <3> QED BY <3>1, <3>2
  <2>3. AcceptSent'
    <3>1. \A v \in FriendSides : side[v].mine <=> side[Peer(v)].peers \/ Bears(cardRoom[Peer(v)])
          BY <1>0 DEF AcceptSent
    <3>2. ASSUME NEW v \in FriendSides
          PROVE  side'[v].mine <=> side'[Peer(v)].peers \/ Bears(cardRoom'[Peer(v)])
      <4>1. CASE v = u
        <5>1. Peer(v) # u /\ Peer(v) \in FriendSides
              BY <4>1, Peers
        <5> QED BY <1>5, <2>2, <3>1, <4>1, <5>1
      <4>2. CASE v = Peer(u)
        <5>1. Peer(v) = u /\ u # v
              BY <4>2, Peers
        <5>2. side[v].mine
              BY <1>3, <1>7, <3>1, <5>1
        <5> QED BY <2>2, <5>1, <5>2
      <4> QED BY <4>1, <4>2, Peers
    <3> QED BY <3>2 DEF AcceptSent
  <2>4. LoopsOK'
        BY <1>5, <2>2 DEF LoopsOK
  <2> QED BY <1>2, <2>2, <2>3, <2>4 DEF FriendInv
<1> QED BY <1>1, <1>6, <1>7

LEMMA LeaveLoopStep == ASSUME FriendInv, NEW u \in FriendSides, LeaveLoop(u) PROVE FriendInv'
<1> DEFINE r == [side[u] EXCEPT !.here = FALSE]
           q == Append(cardRoom[Peer(u)], "left")
<1>0. /\ CardsOK /\ LoopsOK /\ TableOK /\ LastWord
      /\ side \in [FriendSides -> SideType] /\ cardRoom \in [FriendSides -> Seq({"accept", "left"})]
      BY DEF FriendInv, LoopsOK
<1>1. /\ UNCHANGED <<wire, cardDown, Browser, Database>>
      /\ side' = [side EXCEPT ![u] = r] /\ cardRoom' = [cardRoom EXCEPT ![Peer(u)] = q]
      BY DEF LeaveLoop
<1>2. /\ r \in SideType /\ r.mine = side[u].mine /\ r.peers = side[u].peers
      /\ r.done = side[u].done /\ r.prompted = side[u].prompted
      BY <1>0, LoopSets
<1>3. q \in Seq({"accept", "left"}) /\ (Bears(q) <=> Bears(cardRoom[Peer(u)]))
      BY <1>0, Peers, RoomQueue
<1> HIDE DEF r, q
<1>4. /\ side' \in [FriendSides -> SideType]
      /\ \A v \in FriendSides : side'[v] = IF v = u THEN r ELSE side[v]
      BY <1>0, <1>1, <1>2, OneSide
<1>5. /\ cardRoom' \in [FriendSides -> Seq({"accept", "left"})]
      /\ \A v \in FriendSides : cardRoom'[v] = IF v = Peer(u) THEN q ELSE cardRoom[v]
      BY <1>0, <1>1, <1>3, OneSide, Peers
<1>6. CardsOK' /\ TableOK'
      BY <1>0, <1>1, Zenon DEF Browser, Database, LoginRun, CardsOK, TableOK
<1>7. LoopsOK'
      BY <1>0, <1>1, <1>4, <1>5 DEF LoopsOK
<1>8. LastWord'
      BY <1>0, <1>1, <1>2, <1>4 DEF LastWord, Browser
<1>9. \A v \in FriendSides : Bears(cardRoom'[v]) <=> Bears(cardRoom[v])
      BY <1>3, <1>5
<1>10. \A v \in FriendSides :
            /\ side'[v].mine = side[v].mine /\ side'[v].peers = side[v].peers
            /\ side'[v].done = side[v].done /\ (side[v].prompted => side'[v].prompted)
            /\ Bears(cardRoom[v])' <=> Bears(cardRoom[v])
      BY <1>2, <1>4, <1>9 DEF Bears
<1> QED BY <1>1, <1>6, <1>7, <1>8, <1>10, AgreementRests DEF Database, LoginRun

\* The card: what the browser does with what it is told.
LEMMA CardSteps ==
  ASSUME FriendInv, NEW u \in FriendSides, AcceptFriend(u) \/ OnFriendFrame(u) \/ PollFriends(u)
  PROVE  FriendInv'
<1>0. /\ CardsOK /\ LoopsOK /\ TableOK /\ LastWord
      /\ card \in [FriendSides -> Cards] /\ cardDown \in [FriendSides -> Seq(CardFrames)]
      /\ side \in [FriendSides -> SideType]
      /\ friendLink \in [FriendSides -> {"none", "peer", "another"}]
      BY DEF FriendInv, LoopsOK, CardsOK
<1>1. UNCHANGED <<loggedIn, side, cardRoom, Database>>
      BY DEF AcceptFriend, OnFriendFrame, PollFriends
<1>2. TableOK'
      BY <1>0, <1>1, Zenon DEF Database, LoginRun, TableOK
<1>3. \A v \in FriendSides :
            /\ side'[v].mine = side[v].mine /\ side'[v].peers = side[v].peers
            /\ side'[v].done = side[v].done /\ (side[v].prompted => side'[v].prompted)
            /\ Bears(cardRoom[v])' <=> Bears(cardRoom[v])
      BY <1>1 DEF Bears
<1>4. SUFFICES CardsOK' /\ LoopsOK' /\ LastWord'
      BY <1>1, <1>2, <1>3, AgreementRests DEF Database, LoginRun
<1>5. \A v \in FriendSides : Reads(card[v], cardDown[v], side[v].done)
      BY <1>0 DEF LastWord
<1>6. CASE AcceptFriend(u)
  <2>1. /\ UNCHANGED <<friendLink, cardDown>> /\ card[u] = "shown"
        /\ card' = [card EXCEPT ![u] = "self_accepted"] /\ wire' = [wire EXCEPT ![u] = TRUE]
        BY <1>6 DEF AcceptFriend, Offered
  <2>2. CardsOK' /\ LoopsOK'
        BY <1>0, <1>1, <2>1 DEF CardsOK, LoopsOK, Cards
  <2>3. Reads("self_accepted", cardDown[u], side[u].done)
        BY <1>5, <2>1 DEF Reads, Befriended
  <2>4. \A v \in FriendSides : card'[v] = IF v = u THEN "self_accepted" ELSE card[v]
        BY <1>0, <2>1
  <2>5. \A v \in FriendSides : Reads(card'[v], cardDown[v], side[v].done)
        BY <1>5, <2>3, <2>4
  <2> QED BY <1>1, <2>1, <2>2, <2>5 DEF LastWord
<1>7. CASE OnFriendFrame(u)
  <2> DEFINE h == Head(cardDown[u])
             q == Tail(cardDown[u])
             c == CASE h = "friend_prompt"  -> "shown"
                    [] h = "friend_made"    -> "made"
                    [] h = "made_pending"   -> "made_pending"
                    [] h = "friend_skipped" -> "skipped"
             k == IF h = "friend_made" THEN "peer" ELSE friendLink[u]
  <2>1. /\ cardDown[u] # <<>> /\ card' = [card EXCEPT ![u] = c] /\ wire' = wire
        /\ friendLink' = [friendLink EXCEPT ![u] = k]
        /\ cardDown' = [cardDown EXCEPT ![u] = q]
        BY <1>7 DEF OnFriendFrame
  <2>2. h \in CardFrames /\ q \in Seq(CardFrames)
        BY <1>0, <2>1, Dequeued
  <2>3. c \in Cards /\ (h \in Announcements <=> c \in Befriended)
        BY <2>2 DEF CardFrames, Announcements, Befriended, Cards
  <2>4. k \in {"none", "peer", "another"}
        BY <1>0
  <2>5. Reads(c, q, side[u].done)
    <3>1. side[u].done \in BOOLEAN /\ card[u] \in Cards /\ cardDown[u] \in Seq(CardFrames)
          BY <1>0 DEF SideType
    <3>2. Reads(card[u], cardDown[u], side[u].done)
          BY <1>5
    <3> HIDE DEF c
    <3> QED BY <2>1, <2>3, <3>1, <3>2, CardQueue
  <2> HIDE DEF h, q, c, k
  <2>6. /\ card' \in [FriendSides -> Cards]
        /\ \A v \in FriendSides : card'[v] = IF v = u THEN c ELSE card[v]
        BY <1>0, <2>1, <2>3, OneSide
  <2>7. /\ cardDown' \in [FriendSides -> Seq(CardFrames)]
        /\ \A v \in FriendSides : cardDown'[v] = IF v = u THEN q ELSE cardDown[v]
        BY <1>0, <2>1, <2>2, OneSide
  <2>8. CardsOK' /\ LoopsOK'
        BY <1>0, <1>1, <2>1, <2>4, <2>6, <2>7 DEF CardsOK, LoopsOK
  <2>9. \A v \in FriendSides : Reads(card'[v], cardDown'[v], side[v].done)
        BY <1>5, <2>5, <2>6, <2>7
  <2> QED BY <1>1, <2>8, <2>9 DEF LastWord
<1>8. CASE PollFriends(u)
  <2>1. /\ UNCHANGED <<card, wire, cardDown>>
        /\ friendLink' = [friendLink EXCEPT ![u] = NewestFriend]
        BY <1>8 DEF PollFriends
  <2>2. CardsOK' /\ LoopsOK' /\ LastWord'
        BY <1>0, <1>1, <2>1 DEF CardsOK, LoopsOK, LastWord, NewestFriend
  <2> QED BY <2>2
<1> QED BY <1>6, <1>7, <1>8

\* A step of a login leaves the conversation as it is.
LEMMA LoginApart ==
  ASSUME FriendInv, UNCHANGED <<Browser, side, cardRoom, wire, cardDown>>,
         fails' = fails \/ Fails
  PROVE  /\ CardsOK' /\ LoopsOK' /\ LastWord' /\ AcceptSent' /\ DoneWhenBoth'
         /\ fails' \in 0..MaxFails
         /\ pending \in [FriendSides -> SUBSET {"uid", "fp"}]
         /\ resolving \in [FriendSides -> SUBSET {"uid", "fp"}]
         /\ hand \in [FriendSides -> {"none", "uid", "fp", "adding"}]
         /\ burned \in BOOLEAN /\ stored \in BOOLEAN
<1>0. CardsOK /\ LoopsOK /\ TableOK /\ LastWord /\ AcceptSent /\ DoneWhenBoth
      BY DEF FriendInv
<1>1. CardsOK' /\ LoopsOK' /\ LastWord' /\ AcceptSent'
      BY <1>0 DEF Browser, CardsOK, LoopsOK, LastWord, AcceptSent, Bears
<1>2. fails' \in 0..MaxFails /\ (fails' = 0 => fails = 0)
      BY <1>0, FriendPromptAssumption DEF TableOK, FriendPromptAssumption, Fails
<1>3. DoneWhenBoth'
      BY <1>0, <1>2 DEF DoneWhenBoth
<1> QED BY <1>0, <1>1, <1>2, <1>3 DEF TableOK

LEMMA LoginStep == ASSUME FriendInv, NEW u \in FriendSides, Login(u) PROVE FriendInv'
<1>0. CardsOK /\ LoopsOK /\ TableOK /\ LastWord
      BY DEF FriendInv
<1>1. /\ loggedIn' = [loggedIn EXCEPT ![u] = TRUE]
      /\ resolving' = [resolving EXCEPT ![u] = pending[u]]
      /\ UNCHANGED <<card, friendLink, side, cardRoom, wire, cardDown, stored, pending, hand,
                     burned, fails>>
      BY DEF Login
<1>2. CardsOK' /\ LoopsOK' /\ LastWord'
      BY <1>0, <1>1 DEF CardsOK, LoopsOK, LastWord
<1>3. TableOK'
  <2>1. resolving' \in [FriendSides -> SUBSET {"uid", "fp"}]
        BY <1>0, <1>1 DEF TableOK
  <2> QED BY <1>0, <1>1, <2>1, Zenon DEF TableOK
<1> QED BY <1>1, <1>2, <1>3, AgreementRests DEF Bears

LEMMA BefriendStep == ASSUME FriendInv, NEW u \in FriendSides, Befriend(u) PROVE FriendInv'
<1>1. /\ hand' = [hand EXCEPT ![u] = "uid"] /\ UNCHANGED <<resolving, pending, side>>
      /\ hand[u] = "none"
      /\ \/ stored' = TRUE /\ UNCHANGED <<fails, burned>>
         \/ Fails /\ burned' = TRUE /\ UNCHANGED stored
      /\ UNCHANGED <<Browser, side, cardRoom, wire, cardDown>>
      BY DEF Befriend, Handled
<1>2. /\ CardsOK' /\ LoopsOK' /\ LastWord' /\ AcceptSent' /\ DoneWhenBoth'
      /\ fails' \in 0..MaxFails
      /\ pending \in [FriendSides -> SUBSET {"uid", "fp"}]
      /\ resolving \in [FriendSides -> SUBSET {"uid", "fp"}]
      /\ hand \in [FriendSides -> {"none", "uid", "fp", "adding"}]
      /\ burned \in BOOLEAN /\ stored \in BOOLEAN
      BY <1>1, LoginApart
<1>3. stored' \/ burned'
      BY <1>1
<1>4. stored' \in BOOLEAN /\ burned' \in BOOLEAN
      BY <1>1, <1>2, Zenon
<1>5. TableOK'
      BY <1>1, <1>2, <1>4 DEF TableOK
<1>6. MadeIsKept' /\ InHand'
      BY <1>3 DEF MadeIsKept, InHand, InTime
<1> QED BY <1>2, <1>5, <1>6 DEF FriendInv

LEMMA UnlinkStep == ASSUME FriendInv, NEW u \in FriendSides, Unlink(u) PROVE FriendInv'
<1>1. /\ hand' = [hand EXCEPT ![u] = "adding"] /\ UNCHANGED <<resolving, stored, burned, side>>
      /\ \/ pending' = [pending EXCEPT ![Peer(u)] = @ \ {"fp"}] /\ UNCHANGED fails
         \/ Fails /\ UNCHANGED pending
      /\ UNCHANGED <<Browser, side, cardRoom, wire, cardDown>>
      BY DEF Unlink, Handled
<1>2. /\ CardsOK' /\ LoopsOK' /\ LastWord' /\ AcceptSent' /\ DoneWhenBoth'
      /\ fails' \in 0..MaxFails
      /\ pending \in [FriendSides -> SUBSET {"uid", "fp"}]
      /\ resolving \in [FriendSides -> SUBSET {"uid", "fp"}]
      /\ hand \in [FriendSides -> {"none", "uid", "fp", "adding"}]
      /\ burned \in BOOLEAN /\ stored \in BOOLEAN
      BY <1>1, LoginApart
<1>3. /\ pending' \in [FriendSides -> SUBSET {"uid", "fp"}]
      /\ \A v \in FriendSides : "uid" \in pending[v] <=> "uid" \in pending'[v]
      BY <1>1, <1>2, Peers
<1>4. /\ hand' \in [FriendSides -> {"none", "uid", "fp", "adding"}] /\ hand'[u] = "adding"
      /\ \A v \in FriendSides : v # u => hand'[v] = hand[v]
      BY <1>1, <1>2
<1>5. TableOK'
      BY <1>1, <1>2, <1>3, <1>4 DEF TableOK
<1>6. MadeIsKept'
      BY <1>4 DEF MadeIsKept
<1>7. InHand'
  <2> SUFFICES ASSUME NEW v \in FriendSides PROVE InTime(hand[v], pending[Peer(v)])'
      BY DEF InHand
  <2>1. CASE v = u
        BY <1>4, <2>1 DEF InTime
  <2>2. CASE v # u
        BY <1>1, <1>3, <1>4, <2>2, Peers DEF FriendInv, InHand, InTime
  <2> QED BY <2>1, <2>2
<1> QED BY <1>2, <1>5, <1>6, <1>7 DEF FriendInv

LEMMA RelinkStep == ASSUME FriendInv, NEW u \in FriendSides, Relink(u) PROVE FriendInv'
<1>1. /\ hand[u] = "adding" /\ hand' = [hand EXCEPT ![u] = "fp"]
      /\ UNCHANGED <<resolving, stored, side>>
      /\ \/ /\ pending' = [pending EXCEPT ![Peer(u)] = @ \cup {"uid"}]
            /\ UNCHANGED <<fails, burned>>
         \/ Fails /\ burned' = TRUE /\ UNCHANGED pending
      /\ UNCHANGED <<Browser, side, cardRoom, wire, cardDown>>
      BY DEF Relink
<1>2. /\ CardsOK' /\ LoopsOK' /\ LastWord' /\ AcceptSent' /\ DoneWhenBoth'
      /\ fails' \in 0..MaxFails
      /\ pending \in [FriendSides -> SUBSET {"uid", "fp"}]
      /\ resolving \in [FriendSides -> SUBSET {"uid", "fp"}]
      /\ hand \in [FriendSides -> {"none", "uid", "fp", "adding"}]
      /\ burned \in BOOLEAN /\ stored \in BOOLEAN
      BY <1>1, LoginApart
<1>3. /\ pending' \in [FriendSides -> SUBSET {"uid", "fp"}]
      /\ \A v \in FriendSides : pending[v] \subseteq pending'[v]
      /\ "uid" \in pending'[Peer(u)] \/ burned'
      BY <1>1, <1>2, Peers
<1>4. /\ hand' \in [FriendSides -> {"none", "uid", "fp", "adding"}] /\ hand'[u] = "fp"
      /\ \A v \in FriendSides : v # u => hand'[v] = hand[v]
      BY <1>1, <1>2
<1>5. burned' \in BOOLEAN /\ (burned => burned')
      BY <1>1, <1>2, Zenon
<1>6. TableOK'
      BY <1>1, <1>2, <1>3, <1>4, <1>5 DEF TableOK
<1>7. MadeIsKept'
      BY <1>3, Peers DEF MadeIsKept
<1>8. InHand'
  <2> SUFFICES ASSUME NEW v \in FriendSides PROVE InTime(hand[v], pending[Peer(v)])'
      BY DEF InHand
  <2>1. CASE v = u
        BY <1>3, <1>4, <2>1 DEF InTime
  <2>2. CASE v # u
        BY <1>1, <1>3, <1>4, <1>5, <2>2, Peers DEF FriendInv, InHand, InTime
  <2> QED BY <2>1, <2>2
<1> QED BY <1>2, <1>6, <1>7, <1>8 DEF FriendInv

LEMMA CleanUpStep == ASSUME FriendInv, NEW u \in FriendSides, CleanUp(u) PROVE FriendInv'
<1> DEFINE e == hand[u]
<1>1. /\ e \in {"uid", "fp"} /\ hand' = [hand EXCEPT ![u] = "none"]
      /\ resolving' = [resolving EXCEPT ![u] = @ \ {e}]
      /\ \/ pending' = [pending EXCEPT ![u] = @ \ {e}] /\ UNCHANGED fails
         \/ Fails /\ UNCHANGED pending
      /\ UNCHANGED <<Browser, side, cardRoom, wire, cardDown, stored, burned>>
      BY DEF CleanUp
<1>2. /\ CardsOK' /\ LoopsOK' /\ LastWord' /\ AcceptSent' /\ DoneWhenBoth'
      /\ fails' \in 0..MaxFails
      /\ pending \in [FriendSides -> SUBSET {"uid", "fp"}]
      /\ resolving \in [FriendSides -> SUBSET {"uid", "fp"}]
      /\ hand \in [FriendSides -> {"none", "uid", "fp", "adding"}]
      /\ burned \in BOOLEAN /\ stored \in BOOLEAN
      BY <1>1, LoginApart
<1>3. /\ hand' \in [FriendSides -> {"none", "uid", "fp", "adding"}] /\ hand'[u] = "none"
      /\ \A v \in FriendSides : v # u => hand'[v] = hand[v]
      /\ resolving' \in [FriendSides -> SUBSET {"uid", "fp"}]
      BY <1>1, <1>2
<1>4. /\ pending' \in [FriendSides -> SUBSET {"uid", "fp"}]
      /\ \A v \in FriendSides : v # u => pending'[v] = pending[v]
      /\ e # "uid" /\ "uid" \in pending[u] => "uid" \in pending'[u]
      BY <1>1, <1>2
<1>5. TableOK'
      BY <1>1, <1>2, <1>3, <1>4 DEF TableOK
<1>6. InTime(e, pending[Peer(u)])
      BY DEF FriendInv, InHand
<1>7. MadeIsKept'
  <2>1. stored \/ burned \/ (e = "fp" /\ "uid" \in pending[Peer(u)])
        BY <1>1, <1>6 DEF InTime
  <2>2. stored \/ burned \/ pending'[Peer(u)] # {}
        BY <1>4, <2>1, Peers
  <2> QED BY <1>1, <2>2, Peers DEF MadeIsKept
<1>8. InHand'
  <2> SUFFICES ASSUME NEW v \in FriendSides PROVE InTime(hand[v], pending[Peer(v)])'
      BY DEF InHand
  <2>1. CASE v = u
        BY <1>3, <2>1 DEF InTime
  <2>2. CASE v # u
    <3>1. Peer(v) = u /\ hand'[v] = hand[v] /\ InTime(hand[v], pending[u])
          BY <1>3, <2>2, Peers DEF FriendInv, InHand
    <3>2. CASE e = "uid"
          BY <1>1, <1>6, <3>2 DEF InTime
    <3>3. CASE e # "uid"
          BY <1>1, <1>4, <3>1, <3>3 DEF InTime
    <3> QED BY <3>2, <3>3
  <2> QED BY <2>1, <2>2
<1> QED BY <1>2, <1>5, <1>7, <1>8 DEF FriendInv

LEMMA CutLoginStep == ASSUME FriendInv, NEW u \in FriendSides, CutLogin(u) PROVE FriendInv'
<1>1. /\ resolving' = [resolving EXCEPT ![u] = {}] /\ hand' = [hand EXCEPT ![u] = "none"]
      /\ burned' = (burned \/ hand[u] = "adding")
      /\ UNCHANGED <<Browser, side, cardRoom, wire, cardDown, stored, pending, fails>>
      BY DEF CutLogin
<1>2. /\ CardsOK' /\ LoopsOK' /\ LastWord' /\ AcceptSent' /\ DoneWhenBoth'
      /\ fails' \in 0..MaxFails
      /\ pending \in [FriendSides -> SUBSET {"uid", "fp"}]
      /\ resolving \in [FriendSides -> SUBSET {"uid", "fp"}]
      /\ hand \in [FriendSides -> {"none", "uid", "fp", "adding"}]
      /\ burned \in BOOLEAN /\ stored \in BOOLEAN
      BY <1>1, LoginApart
<1>3. /\ hand' \in [FriendSides -> {"none", "uid", "fp", "adding"}] /\ hand'[u] = "none"
      /\ \A v \in FriendSides : v # u => hand'[v] = hand[v]
      /\ resolving' \in [FriendSides -> SUBSET {"uid", "fp"}]
      BY <1>1, <1>2
<1>4. burned' \in BOOLEAN
      BY <1>1
<1>5. TableOK'
      BY <1>1, <1>2, <1>3, <1>4 DEF TableOK
<1>6. MadeIsKept'
      BY <1>1, <1>3 DEF FriendInv, MadeIsKept
<1>7. InHand'
      BY <1>1, <1>3, Peers DEF FriendInv, InHand, InTime
<1> QED BY <1>2, <1>5, <1>6, <1>7 DEF FriendInv

LEMMA FriendKeeps == FriendInv /\ [FriendNext]_friendVars => FriendInv'
<1> SUFFICES ASSUME FriendInv, [FriendNext]_friendVars PROVE FriendInv'
    OBVIOUS
<1>1. CASE UNCHANGED friendVars
  <2>1. CardsOK' /\ LoopsOK' /\ TableOK' /\ LastWord'
        BY <1>1 DEF FriendInv, friendVars, CardsOK, LoopsOK, TableOK, LastWord
  <2> QED BY <1>1, <2>1, AgreementRests DEF friendVars, Bears
<1>2. ASSUME NEW u \in FriendSides,
             \/ PromptTimer(u) \/ WindowOver(u) \/ OnAccept(u) \/ OnRoom(u) \/ LeaveLoop(u)
             \/ AcceptFriend(u) \/ OnFriendFrame(u) \/ PollFriends(u) \/ Login(u)
             \/ Befriend(u) \/ Unlink(u) \/ Relink(u) \/ CleanUp(u) \/ CutLogin(u)
      PROVE  FriendInv'
      BY <1>2, PromptTimerStep, WindowOverStep, OnAcceptStep, OnRoomStep, LeaveLoopStep,
         CardSteps, LoginStep, BefriendStep, UnlinkStep, RelinkStep, CleanUpStep, CutLoginStep
<1> QED BY <1>1, <1>2 DEF FriendNext

\* Every variable of the friendship between two partners keeps its type.
THEOREM FriendTypes == FriendSpec => []FriendTypeOK
BY FriendStart, FriendKeeps, FriendInvGives, PTL DEF FriendSpec

\* ws/chat.go:300-304: once everything is delivered and no write failed, the two partners
\* read the same outcome, however their acceptances and the ends of their windows crossed.
THEOREM FriendsAgreeHolds == FriendSpec => []FriendsAgree
BY FriendStart, FriendKeeps, FriendInvAgrees, PTL DEF FriendSpec

\* friends/pending.go:65-114: a friendship that was announced is in the table, under a
\* fingerprint, or about to be written by a login, at every step of logins that cross,
\* unless the write that an entry asked of a login was not done.
THEOREM MadeIsKeptHolds == FriendSpec => []MadeIsKept
<1>1. FriendInv => MadeIsKept
      BY DEF FriendInv
<1> QED BY FriendStart, FriendKeeps, <1>1, PTL DEF FriendSpec

-----------------------------------------------------------------------------
(* The messages of two friends *)

BusFrame == [type : {"msg"}, m : State]
LogFrame == [type : {"history"}, log : Seq(State)] \cup BusFrame \cup [type : {"error"}]

\* What each variable holds.
LogOK == log \in Seq(State) /\ Len(log) <= MaxLog /\ msgs \in Seq(State)

SayOK == /\ toSay \subseteq State /\ missed \subseteq LogIds
         /\ \A m \in toSay : m.id \in DOMAIN log /\ log[m.id] = m /\ m.by = "peer"

LinkOK == /\ ftSession \in {"none", "subscribed", "live"} /\ ftDrops \in 0..MaxSocketDrops
          /\ bus \in Seq(BusFrame) /\ Len(bus) <= BusCap /\ ftDown \in Seq(LogFrame)

AsksOK == /\ \E S : ftUp \in Seq(S) /\ \A f \in S : f.type \in {"send", "edit", "delete"}
          /\ Len(ftUp) <= BusCap

BubbleOK == bubble \in [kind : {"none", "menu", "edit", "select", "delete", "bulk"},
                        on : SUBSET LogIds]

Numbered(l) == \A i \in DOMAIN l : l[i].id = i
OneEach(ms) == \A n, k \in DOMAIN ms : ms[n].id = ms[k].id => n = k
FromLog(ms, top) == OneEach(ms) /\ \A n \in DOMAIN ms : ms[n].id <= top

\* What is shown or under way is in the log; what others sessions publish is the partner's,
\* the answers to this one are mine.
Recorded ==
    /\ Numbered(log) /\ FromLog(msgs, Len(log))
    /\ \A k \in DOMAIN bus : bus[k].m.id <= Len(log) /\ log[bus[k].m.id].by = "peer"
    /\ \A k \in DOMAIN ftDown :
          /\ ftDown[k].type = "msg" => ftDown[k].m.id <= Len(log)
          /\ ftDown[k].type = "history" => FromLog(ftDown[k].log, Len(log))

\* Message i is shown in state s; or what is shown begins after it.
Has(ms, i, s) == \E n \in DOMAIN ms : ms[n].id = i /\ ms[n] = s
Before(ms, i) == ms # <<>> /\ i < ms[1].id /\ \A n \in DOMAIN ms : ms[n].id # i
Fits(ms, i, s) == Has(ms, i, s) \/ Before(ms, i)

\* A frame replaces what is shown of message i, and shows it in state s.
About(f, i) == f.type = "history" \/ (f.type = "msg" /\ f.m.id = i)
Tells(f, i, s) == \/ f.type = "msg" /\ f.m.id = i /\ f.m = s
                  \/ f.type = "history" /\ Fits(f.log, i, s)

\* The queue has nothing on message i; or the last it has shows s.
Silent(q, i) == \A k \in DOMAIN q : ~About(q[k], i)
News(q, i, s) == \E k \in DOMAIN q : /\ Tells(q[k], i, s)
                                     /\ \A j \in DOMAIN q : k < j => ~About(q[j], i)

\* A message whose last publication failed or is to come.
Away == missed \cup {m.id : m \in toSay}

\* The last that is known of a message, published, sent or shown, is its state in the log.
UpToDate ==
    /\ ftSession = "none" => bus = <<>> /\ ftDown = <<>>
    /\ ftSession = "subscribed" => ftDown = <<>>
    /\ ftSession # "none" =>
          \A i \in DOMAIN log \ Away : News(bus, i, log[i]) \/ Silent(bus, i)
    /\ ftSession = "live" =>
          \A i \in DOMAIN log \ Away :
             Silent(bus, i) => \/ News(ftDown, i, log[i])
                               \/ Silent(ftDown, i) /\ Fits(msgs, i, log[i])

LogInv == LogOK /\ SayOK /\ LinkOK /\ AsksOK /\ BubbleOK /\ Recorded /\ UpToDate

LEMMA LogConstants ==
  /\ HistMax \in Nat /\ HistMax > 0 /\ MaxLog \in Nat /\ MaxLog > 0 /\ BusCap \in Nat /\ BusCap > 0
  /\ MaxEdits \in Nat /\ MaxSocketDrops \in Nat
BY FriendThreadAssumption DEF FriendThreadAssumption

LEMMA LogInvGives == LogInv => FriendThreadTypeOK
<1> SUFFICES ASSUME LogInv PROVE FriendThreadTypeOK
    OBVIOUS
<1>1. /\ \A i \in DOMAIN log : log[i] \in State
      /\ \A n \in DOMAIN msgs : msgs[n] \in State
      BY DEF LogInv, LogOK
<1>2. SayOK /\ LinkOK /\ AsksOK /\ BubbleOK
      BY DEF LogInv
<1>3. /\ ftSession \in {"none", "subscribed", "live"} /\ ftDrops \in 0..MaxSocketDrops
      /\ Len(bus) <= BusCap /\ Len(ftUp) <= BusCap
      BY <1>2 DEF LinkOK, AsksOK
<1>4. /\ bubble.kind \in {"none", "menu", "edit", "select", "delete", "bulk"}
      /\ bubble.on \subseteq LogIds
      BY <1>2 DEF BubbleOK
<1>5. toSay \subseteq State /\ missed \subseteq LogIds
      BY <1>2 DEF SayOK
<1> QED BY <1>1, <1>3, <1>4, <1>5, Zenon DEF FriendThreadTypeOK

\* A frame more, and the first one taken.
LEMMA NewsAdded ==
  ASSUME NEW S, NEW q \in Seq(S), NEW f \in S, NEW i, NEW s
  PROVE  /\ Tells(f, i, s) => News(Append(q, f), i, s)
         /\ ~About(f, i) /\ News(q, i, s) => News(Append(q, f), i, s)
         /\ ~About(f, i) /\ Silent(q, i) => Silent(Append(q, f), i)
<1> DEFINE r == Append(q, f)
<1>1. /\ Len(q) \in Nat /\ DOMAIN q = 1..Len(q) /\ DOMAIN r = 1..Len(q) + 1
      /\ r[Len(q) + 1] = f /\ \A k \in 1..Len(q) : r[k] = q[k]
      OBVIOUS
<1> HIDE DEF r
<1>2. Tells(f, i, s) => News(r, i, s)
  <2>1. Len(q) + 1 \in DOMAIN r /\ \A j \in DOMAIN r : ~(Len(q) + 1 < j)
        BY <1>1
  <2> QED BY <1>1, <2>1, Zenon DEF News
<1>3. ASSUME ~About(f, i), News(q, i, s)
      PROVE  News(r, i, s)
  <2>1. PICK k \in DOMAIN q : /\ Tells(q[k], i, s)
                              /\ \A j \in DOMAIN q : k < j => ~About(q[j], i)
        BY <1>3 DEF News
  <2>2. k \in DOMAIN r /\ r[k] = q[k] /\ \A j \in DOMAIN r : j \in DOMAIN q \/ r[j] = f
        BY <1>1
  <2>3. \A j \in DOMAIN r : k < j => ~About(r[j], i)
        BY <1>1, <1>3, <2>1, <2>2
  <2> QED BY <2>1, <2>2, <2>3, Zenon DEF News
<1>4. ~About(f, i) /\ Silent(q, i) => Silent(r, i)
      BY <1>1 DEF Silent
<1> QED BY <1>2, <1>3, <1>4 DEF r

LEMMA NewsTaken ==
  ASSUME NEW S, NEW q \in Seq(S), q # <<>>, NEW i, NEW s
  PROVE  /\ News(q, i, s) => \/ News(Tail(q), i, s)
                             \/ Tells(Head(q), i, s) /\ Silent(Tail(q), i)
         /\ Silent(q, i) => ~About(Head(q), i) /\ Silent(Tail(q), i)
<1> DEFINE r == Tail(q)
           h == Head(q)
<1>1. /\ Len(q) \in Nat /\ Len(q) > 0 /\ DOMAIN q = 1..Len(q) /\ DOMAIN r = 1..Len(q) - 1
      /\ h = q[1] /\ \A k \in 1..Len(q) - 1 : r[k] = q[k + 1]
      OBVIOUS
<1> HIDE DEF r, h
<1>2. ASSUME News(q, i, s)
      PROVE  News(r, i, s) \/ (Tells(h, i, s) /\ Silent(r, i))
  <2>1. PICK k \in DOMAIN q : /\ Tells(q[k], i, s)
                              /\ \A j \in DOMAIN q : k < j => ~About(q[j], i)
        BY <1>2 DEF News
  <2>2. \A j \in DOMAIN r : j + 1 \in DOMAIN q /\ r[j] = q[j + 1] /\ j \in Nat /\ j > 0
        BY <1>1
  <2>3. CASE k = 1
    <3>1. \A j \in DOMAIN r : ~About(r[j], i)
          BY <2>1, <2>2, <2>3
    <3> QED BY <1>1, <2>1, <2>3, <3>1 DEF Silent
  <2>4. CASE k # 1
    <3>1. k - 1 \in DOMAIN r /\ r[k - 1] = q[k]
          BY <1>1, <2>4
    <3>2. \A j \in DOMAIN r : k - 1 < j => ~About(r[j], i)
          BY <1>1, <2>1, <2>2
    <3>3. \E n \in DOMAIN r : /\ Tells(r[n], i, s)
                              /\ \A j \in DOMAIN r : n < j => ~About(r[j], i)
          BY <2>1, <3>1, <3>2, Zenon
    <3> QED BY <3>3 DEF News
  <2> QED BY <2>3, <2>4
<1>3. Silent(q, i) => ~About(h, i) /\ Silent(r, i)
      BY <1>1 DEF Silent
<1> QED BY <1>2, <1>3 DEF r, h

\* One message of the log is new or in a new state, and its author is u.
Change(l, i, u) ==
    /\ l \in Seq(State) /\ Len(l) <= MaxLog /\ Numbered(l) /\ Len(log) <= Len(l)
    /\ i \in DOMAIN l /\ l[i].id = i /\ l[i].by = u
    /\ i \in DOMAIN log => log[i].by = u
    /\ \A j \in DOMAIN l : j # i => j \in DOMAIN log /\ l[j] = log[j]

LEMMA WrittenChanges ==
  ASSUME LogOK, Numbered(log), NEW u \in {"me", "peer"}, NEW l \in Written(u)
  PROVE  Len(l) = Len(log) + 1 /\ Change(l, Len(l), u)
<1> DEFINE x == [id |-> Len(log) + 1, by |-> u, v |-> 0, del |-> FALSE]
<1>1. log \in Seq(State) /\ Len(log) \in Nat /\ Len(log) < MaxLog /\ l = Append(log, x)
  <2>1. Len(log) # MaxLog /\ l = Append(log, x)
        BY DEF Written
  <2> QED BY <2>1, LogConstants DEF LogOK
<1>2. x \in State /\ x.id = Len(log) + 1 /\ x.by = u
      BY <1>1, LogConstants DEF State, LogIds
<1> HIDE DEF x
<1>3. /\ l \in Seq(State) /\ Len(l) = Len(log) + 1 /\ l[Len(log) + 1] = x
      /\ DOMAIN l = 1..Len(log) + 1 /\ DOMAIN log = 1..Len(log)
      /\ \A j \in 1..Len(log) : l[j] = log[j]
      BY <1>1, <1>2
<1>4. Numbered(l)
      BY <1>1, <1>2, <1>3 DEF Numbered
<1>5. \A j \in DOMAIN l : j # Len(l) => j \in DOMAIN log /\ l[j] = log[j]
      BY <1>1, <1>3
<1> QED BY <1>1, <1>2, <1>3, <1>4, <1>5, LogConstants DEF Change

LEMMA TouchedChanges ==
  ASSUME LogOK, Numbered(log), NEW u \in {"me", "peer"}, NEW i,
         NEW l \in Edited(u, i) \cup DeletedBy(u, i)
  PROVE  Len(l) = Len(log) /\ Change(l, i, u)
<1>1. There(u, i)
      BY DEF Edited, DeletedBy
<1>2. /\ log \in Seq(State) /\ Len(log) \in Nat /\ i \in DOMAIN log /\ log[i] \in State
      /\ log[i].by = u /\ log[i].id = i
      BY <1>1 DEF LogOK, There, Numbered
<1>3. PICK x \in State : l = [log EXCEPT ![i] = x] /\ x.id = i /\ x.by = u
  <2>1. CASE l \in Edited(u, i)
    <3> DEFINE x == [log[i] EXCEPT !.v = @ + 1]
    <3>1. log[i].v < MaxEdits /\ l = [log EXCEPT ![i] = x]
          BY <2>1, <1>2 DEF Edited
    <3>2. log[i].v + 1 \in 0..MaxEdits
          BY <1>2, <3>1, LogConstants DEF State
    <3>3. x \in State /\ x.id = i /\ x.by = u
          BY <1>2, <3>2 DEF State
    <3> QED BY <3>1, <3>3
  <2>2. CASE l \in DeletedBy(u, i)
    <3> DEFINE x == [log[i] EXCEPT !.del = TRUE]
    <3>1. l = [log EXCEPT ![i] = x]
          BY <2>2, <1>2 DEF DeletedBy
    <3>2. x \in State /\ x.id = i /\ x.by = u
          BY <1>2 DEF State
    <3> QED BY <3>1, <3>2
  <2> QED BY <2>1, <2>2
<1>4. /\ l \in Seq(State) /\ Len(l) = Len(log) /\ l[i] = x /\ DOMAIN l = DOMAIN log
      /\ \A j \in DOMAIN l : j # i => l[j] = log[j]
      BY <1>2, <1>3
<1>5. Numbered(l)
      BY <1>3, <1>4 DEF Numbered
<1> QED BY <1>2, <1>3, <1>4, <1>5 DEF Change, LogOK

\* Whatever was recorded still is, and the messages not touched are up to date as before.
LEMMA RecordedStill ==
  ASSUME LogOK, LinkOK, Recorded, NEW i, NEW u, Change(log', i, u)
  PROVE  /\ Numbered(log') /\ FromLog(msgs, Len(log'))
         /\ \A k \in DOMAIN bus : /\ bus[k].m.id <= Len(log')
                                  /\ log'[bus[k].m.id].by = "peer"
         /\ \A k \in DOMAIN ftDown :
              /\ ftDown[k].type = "msg" => ftDown[k].m.id <= Len(log')
              /\ ftDown[k].type = "history" => FromLog(ftDown[k].log, Len(log'))
<1>1. /\ Len(log) \in Nat /\ Len(log') \in Nat /\ Len(log) <= Len(log') /\ Numbered(log')
      /\ DOMAIN log = 1..Len(log) /\ DOMAIN log' = 1..Len(log')
      BY DEF LogOK, Change
<1>2. ASSUME NEW ms \in Seq(State), FromLog(ms, Len(log))
      PROVE  FromLog(ms, Len(log'))
  <2>1. \A n \in DOMAIN ms : ms[n] \in State /\ ms[n].id \in Nat
    <3>1. \A x \in State : x.id \in Nat
          BY DEF State, LogIds
    <3>2. \A n \in DOMAIN ms : ms[n] \in State
          BY <1>2
    <3> QED BY <3>1, <3>2
  <2> QED BY <1>1, <1>2, <2>1 DEF FromLog
<1>9. FromLog(msgs, Len(log'))
      BY <1>2 DEF LogOK, Recorded
<1>3. \A k \in DOMAIN bus : /\ bus[k].m.id \in Nat /\ bus[k].m.id > 0
                            /\ bus[k].m.id <= Len(log)
                            /\ log[bus[k].m.id].by = "peer"
  <2>1. \A k \in DOMAIN bus : bus[k] \in BusFrame
        BY DEF LinkOK
  <2> QED BY <2>1 DEF BusFrame, State, LogIds, Recorded
<1>4. \A j \in Nat : j > 0 /\ j <= Len(log) /\ log[j].by = "peer" =>
         j <= Len(log') /\ log'[j].by = "peer"
  <2> SUFFICES ASSUME NEW j \in Nat, j > 0, j <= Len(log), log[j].by = "peer"
               PROVE  j <= Len(log') /\ log'[j].by = "peer"
      OBVIOUS
  <2>1. j \in DOMAIN log /\ j \in DOMAIN log' /\ j <= Len(log')
        BY <1>1
  <2>2. CASE j = i
        BY <2>1, <2>2 DEF Change
  <2>3. CASE j # i
        BY <2>1, <2>3 DEF Change
  <2> QED BY <2>1, <2>2, <2>3
<1>5. \A k \in DOMAIN ftDown :
         /\ ftDown[k].type = "msg" => ftDown[k].m.id \in Nat
         /\ ftDown[k].type = "history" => ftDown[k].log \in Seq(State)
  <2>1. \A k \in DOMAIN ftDown : ftDown[k] \in LogFrame
        BY DEF LinkOK
  <2>2. \A x \in State : x.id \in Nat
        BY DEF State, LogIds
  <2>3. \A f \in LogFrame : /\ f.type = "msg" => f.m \in State
                            /\ f.type = "history" => f.log \in Seq(State)
        BY DEF LogFrame, BusFrame
  <2> QED BY <2>1, <2>2, <2>3
<1> HIDE DEF Change
<1>6. \A k \in DOMAIN ftDown :
         /\ ftDown[k].type = "msg" => ftDown[k].m.id <= Len(log)
         /\ ftDown[k].type = "history" => FromLog(ftDown[k].log, Len(log))
      BY DEF Recorded
<1>7. \A k \in DOMAIN ftDown :
         /\ ftDown[k].type = "msg" => ftDown[k].m.id <= Len(log')
         /\ ftDown[k].type = "history" => FromLog(ftDown[k].log, Len(log'))
      BY <1>1, <1>2, <1>5, <1>6
<1> QED BY <1>1, <1>3, <1>4, <1>7, <1>9

-----------------------------------------------------------------------------
(* The page of the two friends: its menus, and what it asks *)

LEMMA SentAsks ==
  ASSUME AsksOK, NEW T, NEW frames \in Seq(T),
         \A f \in T : f.type \in {"send", "edit", "delete"}, Sent(frames)
  PROVE  AsksOK'
<1>1. PICK S : ftUp \in Seq(S) /\ \A f \in S : f.type \in {"send", "edit", "delete"}
      BY DEF AsksOK
<1>2. CASE ftUp' = ftUp
      BY <1>2 DEF AsksOK
<1>3. CASE ftUp' = ftUp \o frames
  <2>1. Len(ftUp') <= BusCap
        BY <1>3 DEF Sent
  <2>2. ftUp \in Seq(S \cup T) /\ frames \in Seq(S \cup T)
        BY <1>1
  <2>3. ftUp' \in Seq(S \cup T)
        BY <1>3, <2>2
  <2>4. \A f \in S \cup T : f.type \in {"send", "edit", "delete"}
        BY <1>1
  <2> QED BY <2>1, <2>3, <2>4 DEF AsksOK
<1> QED BY <1>2, <1>3 DEF Sent

LEMMA BubbleKeeps ==
  ASSUME LogInv, AsksOK', BubbleOK',
         UNCHANGED <<log, toSay, missed, ftSession, bus, ftDown, ftDrops, msgs>>
  PROVE  LogInv'
BY DEF LogInv, LogOK, SayOK, LinkOK, Recorded, UpToDate, Away

LEMMA PageKeeps ==
  ASSUME LogInv,
         \/ Send \/ StartEdit \/ AskDelete \/ CloseBubble \/ SaveEdit \/ ConfirmDelete
         \/ \E i \in LogIds : OpenBubbleMenu(i) \/ SelectMessage(i)
  PROVE  LogInv'
<1>1. AsksOK /\ BubbleOK
      BY DEF LogInv
<1>2. /\ bubble.kind \in {"none", "menu", "edit", "select", "delete", "bulk"}
      /\ bubble.on \subseteq LogIds
      BY <1>1 DEF BubbleOK
<1>3. NoBubble \in [kind : {"none", "menu", "edit", "select", "delete", "bulk"},
                    on : SUBSET LogIds]
      BY DEF NoBubble
<1>4. ASSUME NEW b \in [kind : {"none", "menu", "edit", "select", "delete", "bulk"},
                        on : SUBSET LogIds],
             TurnBubble(b)
      PROVE  LogInv'
  <2>1. bubble' = b /\ UNCHANGED <<ftUp, ftDown, log, toSay, missed, ftSession, bus, ftDrops, msgs>>
        BY <1>4 DEF TurnBubble
  <2>2. AsksOK' /\ BubbleOK'
        BY <1>1, <2>1 DEF AsksOK, BubbleOK
  <2> QED BY <2>1, <2>2, BubbleKeeps
<1>5. ASSUME NEW T, NEW frames \in Seq(T),
             \A f \in T : f.type \in {"send", "edit", "delete"}, Sent(frames),
             bubble' \in {bubble, NoBubble}
      PROVE  LogInv'
  <2>1. AsksOK'
        BY <1>1, <1>5, SentAsks
  <2>2. BubbleOK'
        BY <1>1, <1>3, <1>5 DEF BubbleOK
  <2>3. UNCHANGED <<log, toSay, missed, ftSession, bus, ftDown, ftDrops, msgs>>
        BY <1>5 DEF Sent
  <2> QED BY <2>1, <2>2, <2>3, BubbleKeeps
<1>6. ASSUME NEW i \in LogIds, OpenBubbleMenu(i) \/ SelectMessage(i)
      PROVE  LogInv'
  <2> DEFINE on == (bubble.on \ {i}) \cup ({i} \ bubble.on)
             b == IF OpenBubbleMenu(i) THEN [kind |-> "menu", on |-> {i}]
                  ELSE IF on = {} THEN NoBubble ELSE [kind |-> "select", on |-> on]
  <2>1. TurnBubble(b)
        BY <1>6 DEF OpenBubbleMenu, SelectMessage
  <2>2. b \in [kind : {"none", "menu", "edit", "select", "delete", "bulk"},
               on : SUBSET LogIds]
    <3>1. {i} \in SUBSET LogIds /\ on \in SUBSET LogIds
          BY <1>2
    <3> HIDE DEF on
    <3> QED BY <1>3, <3>1
  <2> HIDE DEF b
  <2> QED BY <1>4, <2>1, <2>2
<1>7. CASE StartEdit \/ AskDelete \/ CloseBubble
  <2>1. PICK b : /\ TurnBubble(b)
                 /\ b = NoBubble \/ \E k \in {"edit", "delete", "bulk", "select"} :
                                       b = [bubble EXCEPT !.kind = k]
        BY <1>7 DEF StartEdit, AskDelete, CloseBubble
  <2>2. b \in [kind : {"none", "menu", "edit", "select", "delete", "bulk"},
               on : SUBSET LogIds]
        BY <1>1, <1>3, <2>1 DEF BubbleOK
  <2> QED BY <1>4, <2>1, <2>2
<1>8. CASE Send
  <2> DEFINE f == [type |-> "send"]
             frames == <<f>>
             T == {f}
  <2>1. frames \in Seq(T) /\ f.type = "send" /\ Sent(frames) /\ bubble' = bubble
        BY <1>8 DEF Send
  <2>2. \A g \in T : g.type \in {"send", "edit", "delete"}
        BY <2>1
  <2>3. bubble' \in {bubble, NoBubble}
        BY <2>1
  <2> HIDE DEF f, frames, T
  <2> QED BY <1>5, <2>1, <2>2, <2>3
<1>9. CASE SaveEdit
  <2> DEFINE f == [type |-> "edit", id |-> CHOOSE i \in bubble.on : TRUE]
             frames == <<f>>
             T == {f}
  <2>1. frames \in Seq(T) /\ f.type = "edit" /\ Sent(frames) /\ bubble' = NoBubble
        BY <1>9 DEF SaveEdit
  <2>2. \A g \in T : g.type \in {"send", "edit", "delete"}
        BY <2>1
  <2>3. bubble' \in {bubble, NoBubble}
        BY <2>1
  <2> HIDE DEF f, frames, T
  <2> QED BY <1>5, <2>1, <2>2, <2>3
<1>10. CASE ConfirmDelete
  <2> DEFINE N == Cardinality(bubble.on)
             frames == [n \in 1..N |->
                          [type |-> "delete", id |-> CHOOSE i \in bubble.on :
                             Cardinality({j \in bubble.on : j < i}) = n - 1]]
             T == {frames[n] : n \in 1..N}
  <2>1. Sent(frames) /\ bubble' = NoBubble
        BY <1>10 DEF ConfirmDelete
  <2>2. N \in Nat
    <3>1. bubble.on \subseteq 1..MaxLog
          BY <1>2 DEF LogIds
    <3>2. IsFiniteSet(1..MaxLog)
          BY LogConstants, FS_Interval
    <3> QED BY <3>1, <3>2, FS_Subset, FS_CardinalityType
  <2>3. \A n \in 1..N : frames[n].type = "delete"
        OBVIOUS
  <2>4. \A f \in T : f.type = "delete"
    <3>1. TAKE f \in T
    <3>2. PICK n \in 1..N : f = frames[n]
          OBVIOUS
    <3> HIDE DEF frames
    <3> QED BY <2>3, <3>2
  <2>5. frames \in Seq(T)
    <3>1. frames \in [1..N -> T]
          OBVIOUS
    <3> HIDE DEF frames, T, N
    <3> QED BY <2>2, <3>1
  <2> HIDE DEF frames, T, N
  <2> QED BY <1>5, <2>1, <2>4, <2>5
<1> QED BY <1>6, <1>7, <1>8, <1>9, <1>10

-----------------------------------------------------------------------------
(* The socket *)

LEMMA OpenKeeps == ASSUME LogInv, OpenSocket \/ DropSocket PROVE LogInv'
<1>1. LogOK /\ SayOK /\ LinkOK /\ AsksOK /\ BubbleOK /\ Recorded /\ UpToDate
      BY DEF LogInv
<1>2. UNCHANGED <<log, msgs, bubble>>
      BY DEF OpenSocket, DropSocket
<1>3. \A i \in DOMAIN log : Silent(<<>>, i)
      BY DEF Silent
<1>4. CASE OpenSocket
  <2>1. /\ ftSession = "none" /\ ftSession' = "subscribed"
        /\ missed' = {} /\ UNCHANGED <<toSay, bus, ftUp, ftDown, ftDrops>>
        BY <1>4 DEF OpenSocket
  <2>2. LogOK' /\ SayOK' /\ LinkOK' /\ AsksOK' /\ BubbleOK' /\ Recorded'
        BY <1>1, <1>2, <2>1 DEF LogOK, SayOK, LinkOK, AsksOK, BubbleOK, Recorded
  <2>3. bus = <<>> /\ ftDown = <<>>
        BY <1>1, <2>1 DEF UpToDate
  <2>4. UpToDate'
        BY <1>2, <1>3, <2>1, <2>3 DEF UpToDate
  <2> QED BY <2>2, <2>4 DEF LogInv
<1>5. CASE DropSocket
  <2>1. /\ ftSession' = "none" /\ bus' = <<>> /\ ftUp' = <<>> /\ ftDown' = <<>>
        /\ ftDrops < MaxSocketDrops /\ ftDrops' = ftDrops + 1 /\ UNCHANGED <<toSay, missed>>
        BY <1>5 DEF DropSocket
  <2>2. ftDrops' \in 0..MaxSocketDrops
        BY <1>1, <2>1, LogConstants DEF LinkOK
  <2>3. LinkOK'
        BY <2>1, <2>2, LogConstants DEF LinkOK
  <2>4. AsksOK'
    <3>1. ftUp' \in Seq({}) /\ Len(ftUp') <= BusCap
          BY <2>1, LogConstants
    <3>2. \A f \in {} : f.type \in {"send", "edit", "delete"}
          OBVIOUS
    <3>3. \E S : ftUp' \in Seq(S) /\ \A f \in S : f.type \in {"send", "edit", "delete"}
          BY <3>1, <3>2
    <3> QED BY <3>1, <3>3 DEF AsksOK
  <2>5. Recorded'
        BY <1>1, <1>2, <2>1 DEF Recorded
  <2>6. LogOK' /\ SayOK' /\ BubbleOK' /\ UpToDate'
        BY <1>1, <1>2, <2>1 DEF LogOK, SayOK, BubbleOK, UpToDate
  <2> QED BY <2>3, <2>4, <2>5, <2>6 DEF LogInv
<1> QED BY <1>4, <1>5

\* Where the last h messages of L begin, and how many they are.
LEMMA LastPlaces ==
  ASSUME NEW L \in Nat, NEW h \in Nat, NEW b \in Nat, h > 0, b + h = L
  PROVE  b + 1 \in 1..L /\ L \in 1..L /\ b + 1 <= L + 1 /\ L - (b + 1) + 1 = h
OBVIOUS

\* The end of a sequence.
LEMMA LastPart ==
  ASSUME NEW S, NEW l \in Seq(S), NEW a \in 1..Len(l)
  PROVE  LET q == SubSeq(l, a, Len(l))
         IN /\ q \in Seq(S) /\ Len(q) = Len(l) - a + 1
            /\ \A n \in 1..Len(q) : q[n] = l[a + n - 1]
OBVIOUS

\* The last messages of a log show every message of it, or begin after it.
LEMMA LastFits ==
  ASSUME LogOK, Numbered(log)
  PROVE  /\ LastOf(log) \in Seq(State) /\ FromLog(LastOf(log), Len(log))
         /\ \A i \in DOMAIN log : Fits(LastOf(log), i, log[i])
<1> DEFINE r == LastOf(log)
<1>1. /\ log \in Seq(State) /\ Len(log) \in Nat /\ DOMAIN log = 1..Len(log)
      /\ \A i \in DOMAIN log : log[i].id = i /\ log[i] \in State
      BY DEF LogOK, Numbered
<1>2. CASE Len(log) <= HistMax
  <2>1. r = log
        BY <1>2 DEF LastOf
  <2>2. FromLog(log, Len(log)) /\ \A i \in DOMAIN log : Has(log, i, log[i])
        BY <1>1 DEF FromLog, OneEach, Has
  <2> QED BY <1>1, <2>1, <2>2 DEF Fits
<1>3. CASE ~(Len(log) <= HistMax)
  <2> DEFINE b == Len(log) - HistMax
  <2>1. b \in Nat /\ b + HistMax = Len(log) /\ b > 0
        BY <1>1, <1>3, LogConstants
  <2>2. r = SubSeq(log, b + 1, Len(log))
        BY <1>3 DEF LastOf
  <2> HIDE DEF b, r
  <2>3. /\ r \in Seq(State) /\ DOMAIN r = 1..HistMax /\ Len(r) = HistMax
        /\ \A n \in 1..HistMax : r[n] = log[b + n]
    <3>1. b + 1 \in 1..Len(log) /\ Len(log) - (b + 1) + 1 = HistMax
      <4>1. Len(log) \in Nat /\ HistMax \in Nat /\ HistMax > 0
            BY <1>1, LogConstants
      <4> QED BY <2>1, <4>1, LastPlaces, SMT
    <3>2. r \in Seq(State) /\ Len(r) = Len(log) - (b + 1) + 1
          BY <1>1, <2>2, <3>1, LastPart
    <3>3. Len(r) = HistMax
          BY <3>1, <3>2
    <3>4. \A n \in 1..HistMax : r[n] = log[b + 1 + n - 1]
          BY <1>1, <2>2, <3>1, <3>3, LastPart
    <3>5. \A n \in 1..HistMax : b + 1 + n - 1 = b + n
          BY <2>1, LogConstants
    <3> QED BY <3>2, <3>3, <3>4, <3>5
  <2>4. \A n \in 1..HistMax : b + n \in DOMAIN log /\ r[n].id = b + n
        BY <1>1, <2>1, <2>3, LogConstants
  <2>5. FromLog(r, Len(log))
        BY <1>1, <2>1, <2>3, <2>4, LogConstants DEF FromLog, OneEach
  <2>6. ASSUME NEW i \in DOMAIN log PROVE Fits(r, i, log[i])
    <3>1. CASE i > b
      <4>1. i - b \in 1..HistMax /\ b + (i - b) = i
            BY <1>1, <2>1, <3>1, LogConstants
      <4> QED BY <2>3, <2>4, <4>1 DEF Fits, Has
    <3>2. CASE ~(i > b)
      <4>1. 1 \in 1..HistMax /\ r # <<>>
            BY <2>3, LogConstants
      <4>2. i < r[1].id /\ \A n \in 1..HistMax : r[n].id # i
            BY <1>1, <2>1, <2>4, <3>2, <4>1, LogConstants
      <4> QED BY <2>3, <4>1, <4>2 DEF Fits, Before
    <3> QED BY <3>1, <3>2
  <2> QED BY <2>3, <2>5, <2>6 DEF r
<1> QED BY <1>2, <1>3 DEF r

LEMMA HistoryKeeps == ASSUME LogInv, SendHistory PROVE LogInv'
<1> DEFINE h == [type |-> "history", log |-> LastOf(log)]
<1>1. LogOK /\ SayOK /\ LinkOK /\ AsksOK /\ BubbleOK /\ Recorded /\ UpToDate
      BY DEF LogInv
<1>2. /\ ftSession = "subscribed" /\ ftSession' = "live" /\ ftDown' = Append(ftDown, h)
      /\ UNCHANGED <<log, toSay, missed, bus, ftUp, ftDrops, msgs, bubble>>
      BY DEF SendHistory
<1>3. /\ LastOf(log) \in Seq(State) /\ FromLog(LastOf(log), Len(log))
      /\ \A i \in DOMAIN log : Fits(LastOf(log), i, log[i])
      BY <1>1, LastFits DEF Recorded
<1>4. h \in LogFrame /\ h.type = "history" /\ h.log = LastOf(log)
      BY <1>3 DEF LogFrame
<1> HIDE DEF h
<1>5. ftDown = <<>> /\ ftDown \in Seq(LogFrame)
      BY <1>1, <1>2 DEF UpToDate, LinkOK
<1>6. ftDown' \in Seq(LogFrame) /\ \A k \in DOMAIN ftDown' : ftDown'[k] = h
      BY <1>2, <1>4, <1>5
<1>7. LogOK' /\ SayOK' /\ LinkOK' /\ AsksOK' /\ BubbleOK'
      BY <1>1, <1>2, <1>6 DEF LogOK, SayOK, LinkOK, AsksOK, BubbleOK
<1>8. Recorded'
  <2>1. \A k \in DOMAIN ftDown' :
           /\ ftDown'[k].type = "msg" => ftDown'[k].m.id <= Len(log)
           /\ ftDown'[k].type = "history" => FromLog(ftDown'[k].log, Len(log))
        BY <1>3, <1>4, <1>6
  <2> QED BY <1>1, <1>2, <2>1 DEF Recorded
<1>9. \A i \in DOMAIN log : News(ftDown', i, log[i])
  <2>1. \A i \in DOMAIN log : Tells(h, i, log[i])
        BY <1>3, <1>4 DEF Tells
  <2> QED BY <1>2, <1>4, <1>5, <2>1, NewsAdded
<1>10. UpToDate'
      BY <1>1, <1>2, <1>9 DEF UpToDate, Away
<1> QED BY <1>7, <1>8, <1>10 DEF LogInv

LEMMA RelayKeeps == ASSUME LogInv, RelayBus PROVE LogInv'
<1> DEFINE f == Head(bus)
<1>1. LogOK /\ SayOK /\ LinkOK /\ AsksOK /\ BubbleOK /\ Recorded /\ UpToDate
      BY DEF LogInv
<1>2. /\ ftSession = "live" /\ bus # <<>> /\ bus' = Tail(bus) /\ ftDown' = Append(ftDown, f)
      /\ UNCHANGED <<log, toSay, missed, ftSession, ftUp, ftDrops, msgs, bubble>>
      BY DEF RelayBus
<1>3. /\ bus \in Seq(BusFrame) /\ ftDown \in Seq(LogFrame) /\ Len(bus) <= BusCap
      /\ BusFrame \subseteq LogFrame
      BY <1>1 DEF LinkOK, LogFrame
<1>4. /\ f \in BusFrame /\ f \in LogFrame /\ f = bus[1] /\ 1 \in DOMAIN bus
      /\ Tail(bus) \in Seq(BusFrame) /\ Len(Tail(bus)) = Len(bus) - 1 /\ Len(bus) \in Nat
      /\ \A k \in DOMAIN Tail(bus) : k + 1 \in DOMAIN bus /\ Tail(bus)[k] = bus[k + 1]
      BY <1>2, <1>3, Dequeued
<1>5. /\ Append(ftDown, f) \in Seq(LogFrame)
      /\ \A k \in DOMAIN Append(ftDown, f) :
            \/ k \in DOMAIN ftDown /\ Append(ftDown, f)[k] = ftDown[k]
            \/ Append(ftDown, f)[k] = f
      BY <1>3, <1>4, Queued
<1> HIDE DEF f
<1>6. LogOK' /\ SayOK' /\ AsksOK' /\ BubbleOK'
      BY <1>1, <1>2 DEF LogOK, SayOK, AsksOK, BubbleOK
<1>7. LinkOK'
  <2>1. Len(bus') <= BusCap
        BY <1>2, <1>3, <1>4, LogConstants
  <2> QED BY <1>1, <1>2, <1>4, <1>5, <2>1 DEF LinkOK
<1>8. Recorded'
  <2>1. f.type = "msg" /\ f.m.id <= Len(log)
        BY <1>1, <1>4 DEF Recorded, BusFrame
  <2>2. \A k \in DOMAIN ftDown' :
           /\ ftDown'[k].type = "msg" => ftDown'[k].m.id <= Len(log)
           /\ ftDown'[k].type = "history" => FromLog(ftDown'[k].log, Len(log))
    <3> SUFFICES ASSUME NEW k \in DOMAIN ftDown'
                 PROVE  /\ ftDown'[k].type = "msg" => ftDown'[k].m.id <= Len(log)
                        /\ ftDown'[k].type = "history" => FromLog(ftDown'[k].log, Len(log))
        OBVIOUS
    <3>1. CASE k \in DOMAIN ftDown /\ ftDown'[k] = ftDown[k]
          BY <1>1, <3>1 DEF Recorded
    <3>2. CASE ftDown'[k] = f
          BY <2>1, <3>2
    <3> QED BY <1>2, <1>5, <3>1, <3>2
  <2>3. \A k \in DOMAIN bus' : bus'[k].m.id <= Len(log) /\ log[bus'[k].m.id].by = "peer"
        BY <1>1, <1>2, <1>4 DEF Recorded
  <2> QED BY <1>1, <1>2, <2>2, <2>3 DEF Recorded
<1>9. UpToDate'
  <2> SUFFICES ASSUME NEW i \in DOMAIN log \ Away
               PROVE  /\ News(bus', i, log[i]) \/ Silent(bus', i)
                      /\ Silent(bus', i) => \/ News(ftDown', i, log[i])
                                            \/ Silent(ftDown', i) /\ Fits(msgs, i, log[i])
      BY <1>2 DEF UpToDate, Away
  <2>1. CASE News(bus, i, log[i])
    <3>1. News(Tail(bus), i, log[i]) \/ (Tells(f, i, log[i]) /\ Silent(Tail(bus), i))
          BY <1>2, <1>3, <2>1, NewsTaken DEF f
    <3>2. CASE News(Tail(bus), i, log[i])
      <4>1. ~Silent(Tail(bus), i)
            BY <3>2 DEF News, Silent, Tells, About
      <4> QED BY <1>2, <3>2, <4>1
    <3>3. CASE Tells(f, i, log[i]) /\ Silent(Tail(bus), i)
          BY <1>2, <1>3, <1>4, <3>3, NewsAdded
    <3> QED BY <3>1, <3>2, <3>3
  <2>2. CASE Silent(bus, i)
    <3>1. ~About(f, i) /\ Silent(Tail(bus), i)
          BY <1>2, <1>3, <2>2, NewsTaken DEF f
    <3>2. \/ News(ftDown, i, log[i])
          \/ Silent(ftDown, i) /\ Fits(msgs, i, log[i])
          BY <1>1, <1>2, <2>2 DEF UpToDate
    <3> QED BY <1>2, <1>3, <1>4, <3>1, <3>2, NewsAdded
  <2> QED BY <1>1, <1>2, <2>1, <2>2 DEF UpToDate
<1> QED BY <1>6, <1>7, <1>8, <1>9 DEF LogInv

-----------------------------------------------------------------------------
(* Messages written, edited and deleted *)

LEMMA NewsNotSilent == ASSUME NEW q, NEW i, NEW s, News(q, i, s) PROVE ~Silent(q, i)
BY DEF News, Silent, Tells, About

\* The frame of a message in a new state.
LEMMA LogMsgIs ==
  ASSUME NEW m \in State
  PROVE  /\ LogMsg(m) \in BusFrame /\ LogMsg(m) \in LogFrame /\ LogMsg(m).type = "msg"
         /\ LogMsg(m).m = m /\ Tells(LogMsg(m), m.id, m)
         /\ \A j : j # m.id => ~About(LogMsg(m), j)
BY DEF LogMsg, BusFrame, LogFrame, Tells, About

LEMMA PeerWritesKeeps ==
  ASSUME LogInv, NEW i \in LogIds, PeerWrites(i) PROVE LogInv'
<1>1. LogOK /\ SayOK /\ LinkOK /\ AsksOK /\ BubbleOK /\ Recorded /\ UpToDate /\ Numbered(log)
      BY DEF LogInv, Recorded
<1>2. /\ toSay = {} /\ toSay' = {log'[i]}
      /\ log' \in (IF i = Len(log) + 1 THEN Written("peer")
                   ELSE Edited("peer", i) \cup DeletedBy("peer", i))
      /\ UNCHANGED <<missed, ftSession, bus, ftUp, ftDown, ftDrops, msgs, bubble>>
      BY DEF PeerWrites
<1>3. Change(log', i, "peer")
      BY <1>1, <1>2, WrittenChanges, TouchedChanges
<1>4. /\ log' \in Seq(State) /\ Len(log') <= MaxLog /\ i \in DOMAIN log' /\ log'[i].id = i
      /\ log'[i] \in State /\ log'[i].by = "peer"
      /\ \A j \in DOMAIN log' : j # i => j \in DOMAIN log /\ log'[j] = log[j]
      BY <1>3 DEF Change
<1>5. LogOK' /\ LinkOK' /\ AsksOK' /\ BubbleOK'
      BY <1>1, <1>2, <1>4 DEF LogOK, LinkOK, AsksOK, BubbleOK
<1>6. SayOK'
      BY <1>1, <1>2, <1>4 DEF SayOK
<1>7. Recorded'
  <2>1. /\ Numbered(log') /\ FromLog(msgs, Len(log'))
        /\ \A k \in DOMAIN bus : bus[k].m.id <= Len(log') /\ log'[bus[k].m.id].by = "peer"
        /\ \A k \in DOMAIN ftDown :
             /\ ftDown[k].type = "msg" => ftDown[k].m.id <= Len(log')
             /\ ftDown[k].type = "history" => FromLog(ftDown[k].log, Len(log'))
        BY <1>1, <1>3, RecordedStill
  <2> QED BY <1>2, <2>1 DEF Recorded
<1>8. \A j \in DOMAIN log' \ Away' : j \in DOMAIN log \ Away /\ log'[j] = log[j]
  <2>1. Away' = missed \cup {i} /\ Away = missed
        BY <1>2, <1>4 DEF Away
  <2> QED BY <1>4, <2>1
<1>9. UpToDate'
      BY <1>1, <1>2, <1>8 DEF UpToDate
<1> QED BY <1>5, <1>6, <1>7, <1>9 DEF LogInv

LEMMA PeerPublishesKeeps ==
  ASSUME LogInv, NEW m \in toSay, PeerPublishes(m) PROVE LogInv'
<1>1. LogOK /\ SayOK /\ LinkOK /\ AsksOK /\ BubbleOK /\ Recorded /\ UpToDate
      BY DEF LogInv
<1>2. /\ toSay' = toSay \ {m}
      /\ UNCHANGED <<log, ftSession, ftUp, ftDown, ftDrops, msgs, bubble>>
      BY DEF PeerPublishes
<1>3. /\ m \in State /\ m.id \in DOMAIN log /\ log[m.id] = m /\ m.by = "peer"
      /\ m.id \in LogIds /\ m.id <= Len(log)
  <2>1. m \in State /\ m.id \in DOMAIN log /\ log[m.id] = m /\ m.by = "peer"
        BY <1>1 DEF SayOK
  <2> QED BY <1>1, <2>1 DEF LogOK, State
<1>4. LogOK' /\ AsksOK' /\ BubbleOK'
      BY <1>1, <1>2 DEF LogOK, AsksOK, BubbleOK
<1>5. ASSUME missed' \subseteq missed \cup {m.id} PROVE SayOK'
      BY <1>1, <1>2, <1>3, <1>5 DEF SayOK
<1>6. \A x \in toSay : x.id = m.id => x = m
      BY <1>1, <1>3 DEF SayOK
\* It failed.
<1>7. CASE missed' = missed \cup {m.id} /\ UNCHANGED bus
  <2>1. LinkOK' /\ Recorded'
        BY <1>1, <1>2, <1>7 DEF LinkOK, Recorded
  <2>2. Away \subseteq Away'
        BY <1>2, <1>7 DEF Away
  <2>3. UpToDate'
        BY <1>1, <1>2, <1>7, <2>2 DEF UpToDate
  <2> QED BY <1>4, <1>5, <1>7, <2>1, <2>3 DEF LogInv
\* It is out.
<1>8. CASE Len(bus) < BusCap /\ Published(LogMsg(m)) /\ missed' = missed \ {m.id}
  <2> DEFINE f == LogMsg(m)
  <2>1. /\ f \in BusFrame /\ f.m = m /\ Tells(f, m.id, m)
        /\ \A j : j # m.id => ~About(f, j)
        BY <1>3, LogMsgIs
  <2> HIDE DEF f
  <2>2. bus \in Seq(BusFrame) /\ Len(bus) \in Nat
        BY <1>1 DEF LinkOK
  <2>3. \A j : j # m.id /\ j \in Away => j \in Away'
        BY <1>2, <1>8 DEF Away
  <2>4. SayOK'
        BY <1>5, <1>8
  <2>5. CASE ftSession = "none"
    <3>1. bus' = bus
          BY <1>8, <2>5 DEF Published
    <3>2. LinkOK' /\ Recorded' /\ UpToDate'
          BY <1>1, <1>2, <2>5, <3>1 DEF LinkOK, Recorded, UpToDate
    <3> QED BY <1>4, <2>4, <3>2 DEF LogInv
  <2>6. CASE ftSession # "none"
    <3>1. bus' = Append(bus, f)
          BY <1>8, <2>6 DEF Published, f
    <3>2. /\ Append(bus, f) \in Seq(BusFrame) /\ Len(Append(bus, f)) = Len(bus) + 1
          /\ \A k \in DOMAIN Append(bus, f) :
                \/ k \in DOMAIN bus /\ Append(bus, f)[k] = bus[k]
                \/ Append(bus, f)[k] = f
          BY <2>1, <2>2, Queued
    <3>3. Len(bus') <= BusCap
          BY <1>8, <2>2, <3>1, <3>2, LogConstants
    <3>4. LinkOK'
          BY <1>1, <1>2, <3>1, <3>2, <3>3 DEF LinkOK
    <3>5. Recorded'
      <4>1. \A k \in DOMAIN bus' : bus'[k].m.id <= Len(log) /\ log[bus'[k].m.id].by = "peer"
            BY <1>1, <1>3, <2>1, <3>1, <3>2 DEF Recorded
      <4> QED BY <1>1, <1>2, <4>1 DEF Recorded
    <3>6. UpToDate'
      <4> SUFFICES ASSUME NEW j \in DOMAIN log, j \notin Away'
                   PROVE  /\ News(bus', j, log[j]) \/ Silent(bus', j)
                          /\ ftSession = "live" /\ Silent(bus', j) =>
                                \/ News(ftDown, j, log[j])
                                \/ Silent(ftDown, j) /\ Fits(msgs, j, log[j])
          BY <1>1, <1>2, <2>6 DEF UpToDate
      <4>1. CASE j = m.id
        <5>1. News(bus', j, log[j])
              BY <1>3, <2>1, <2>2, <3>1, <4>1, NewsAdded
        <5> QED BY <5>1, NewsNotSilent
      <4>2. CASE j # m.id
        <5>1. j \in DOMAIN log \ Away /\ ~About(f, j)
              BY <2>1, <2>3, <4>2
        <5>2. News(bus, j, log[j]) \/ Silent(bus, j)
              BY <1>1, <2>6, <5>1 DEF UpToDate
        <5>3. CASE News(bus, j, log[j])
          <6>1. News(bus', j, log[j])
                BY <2>1, <2>2, <3>1, <5>1, <5>3, NewsAdded
          <6> QED BY <6>1, NewsNotSilent
        <5>4. CASE Silent(bus, j)
          <6>1. Silent(bus', j)
                BY <2>1, <2>2, <3>1, <5>1, <5>4, NewsAdded
          <6> QED BY <1>1, <5>1, <5>4, <6>1 DEF UpToDate
        <5> QED BY <5>2, <5>3, <5>4
      <4> QED BY <4>1, <4>2
    <3> QED BY <1>4, <2>4, <3>4, <3>5, <3>6 DEF LogInv
  <2> QED BY <2>5, <2>6
<1> QED BY <1>7, <1>8 DEF PeerPublishes

\* A frame answered on my socket, about a message of mine or none.
LEMMA Answered ==
  ASSUME LogInv, NEW f \in LogFrame, ftSession = "live",
         ftUp # <<>>, ftUp' = Tail(ftUp), ftDown' = Append(ftDown, f),
         UNCHANGED <<toSay, missed, ftSession, bus, ftDrops, msgs, bubble>>,
         \/ f.type = "error" /\ log' = log
         \/ \E i : Change(log', i, "me") /\ f = LogMsg(log'[i])
  PROVE  LogInv'
<1>1. LogOK /\ SayOK /\ LinkOK /\ AsksOK /\ BubbleOK /\ Recorded /\ UpToDate
      BY DEF LogInv
<1>2. bus \in Seq(BusFrame) /\ ftDown \in Seq(LogFrame)
      BY <1>1 DEF LinkOK
<1>3. /\ Append(ftDown, f) \in Seq(LogFrame)
      /\ \A k \in DOMAIN Append(ftDown, f) :
            \/ k \in DOMAIN ftDown /\ Append(ftDown, f)[k] = ftDown[k]
            \/ Append(ftDown, f)[k] = f
      BY <1>2, Queued
<1>4. LinkOK' /\ BubbleOK'
      BY <1>1, <1>3 DEF LinkOK, BubbleOK
<1>5. AsksOK'
  <2>1. PICK S : ftUp \in Seq(S) /\ \A a \in S : a.type \in {"send", "edit", "delete"}
        BY <1>1 DEF AsksOK
  <2>2. /\ Tail(ftUp) \in Seq(S) /\ Len(Tail(ftUp)) = Len(ftUp) - 1
        /\ Len(ftUp) \in Nat /\ Len(ftUp) <= BusCap
        BY <1>1, <2>1 DEF AsksOK
  <2>3. Len(ftUp') <= BusCap
        BY <2>2, LogConstants
  <2> QED BY <2>1, <2>2, <2>3 DEF AsksOK
<1>6. CASE f.type = "error" /\ log' = log
  <2>1. Recorded'
    <3>1. \A k \in DOMAIN ftDown' :
             /\ ftDown'[k].type = "msg" => ftDown'[k].m.id <= Len(log)
             /\ ftDown'[k].type = "history" => FromLog(ftDown'[k].log, Len(log))
          BY <1>1, <1>3, <1>6 DEF Recorded
    <3> QED BY <1>1, <1>6, <3>1 DEF Recorded
  <2>2. \A i : ~About(f, i)
        BY <1>6 DEF About
  <2>3. UpToDate'
    <3> SUFFICES ASSUME NEW i \in DOMAIN log \ Away, Silent(bus, i)
                 PROVE  \/ News(ftDown', i, log[i])
                        \/ Silent(ftDown', i) /\ Fits(msgs, i, log[i])
        BY <1>1, <1>6 DEF UpToDate, Away
    <3>1. News(ftDown, i, log[i]) \/ (Silent(ftDown, i) /\ Fits(msgs, i, log[i]))
          BY <1>1 DEF UpToDate
    <3> QED BY <1>2, <2>2, <3>1, NewsAdded
  <2>4. LogOK' /\ SayOK'
        BY <1>1, <1>6 DEF LogOK, SayOK
  <2> QED BY <1>4, <1>5, <2>1, <2>3, <2>4 DEF LogInv
<1>7. CASE \E i : Change(log', i, "me") /\ f = LogMsg(log'[i])
  <2>1. PICK i : Change(log', i, "me") /\ f = LogMsg(log'[i])
        BY <1>7
  <2>2. /\ log' \in Seq(State) /\ Len(log') <= MaxLog /\ i \in DOMAIN log' /\ log'[i].id = i
        /\ log'[i] \in State /\ log'[i].by = "me" /\ i <= Len(log')
        /\ i \in DOMAIN log => log[i].by = "me"
        /\ \A j \in DOMAIN log' : j # i => j \in DOMAIN log /\ log'[j] = log[j]
        BY <2>1 DEF Change
  <2>3. /\ f.type = "msg" /\ f.m = log'[i] /\ Tells(f, i, log'[i])
        /\ \A j : j # i => ~About(f, j)
        BY <2>1, <2>2, LogMsgIs
  <2>4. /\ Numbered(log') /\ FromLog(msgs, Len(log'))
        /\ \A k \in DOMAIN bus : bus[k].m.id <= Len(log') /\ log'[bus[k].m.id].by = "peer"
        /\ \A k \in DOMAIN ftDown :
             /\ ftDown[k].type = "msg" => ftDown[k].m.id <= Len(log')
             /\ ftDown[k].type = "history" => FromLog(ftDown[k].log, Len(log'))
        BY <1>1, <2>1, RecordedStill
  <2>5. Recorded'
    <3>1. \A k \in DOMAIN ftDown' :
             /\ ftDown'[k].type = "msg" => ftDown'[k].m.id <= Len(log')
             /\ ftDown'[k].type = "history" => FromLog(ftDown'[k].log, Len(log'))
      <4>1. f.m.id <= Len(log')
            BY <2>2, <2>3
      <4> QED BY <1>3, <2>3, <2>4, <4>1
    <3> QED BY <1>1, <2>4, <3>1 DEF Recorded
  <2>6. Silent(bus, i)
    <3> SUFFICES ASSUME NEW k \in DOMAIN bus, About(bus[k], i) PROVE FALSE
        BY DEF Silent
    <3>1. bus[k] \in BusFrame
          BY <1>2
    <3>2. bus[k].m.id = i
          BY <3>1 DEF About, BusFrame
    <3>3. log'[i].by = "peer"
          BY <2>4, <3>2
    <3> QED BY <2>2, <3>3
  <2>7. UpToDate'
    <3> SUFFICES ASSUME NEW j \in DOMAIN log' \ Away
                 PROVE  /\ News(bus, j, log'[j]) \/ Silent(bus, j)
                        /\ Silent(bus, j) =>
                              \/ News(ftDown', j, log'[j])
                              \/ Silent(ftDown', j) /\ Fits(msgs, j, log'[j])
        BY DEF UpToDate, Away
    <3>1. CASE j = i
          BY <1>2, <2>3, <2>6, <3>1, NewsAdded
    <3>2. CASE j # i
      <4>1. j \in DOMAIN log \ Away /\ log'[j] = log[j] /\ ~About(f, j)
            BY <2>2, <2>3, <3>2
      <4>2. News(bus, j, log[j]) \/ Silent(bus, j)
            BY <1>1, <4>1 DEF UpToDate
      <4>3. Silent(bus, j) => \/ News(ftDown, j, log[j])
                              \/ Silent(ftDown, j) /\ Fits(msgs, j, log[j])
            BY <1>1, <4>1 DEF UpToDate
      <4> QED BY <1>2, <4>1, <4>2, <4>3, NewsAdded
    <3> QED BY <3>1, <3>2
  <2>8. LogOK' /\ SayOK'
    <3>1. \A x \in toSay : x.id # i
          BY <1>1, <2>2 DEF SayOK
    <3>2. Len(log) <= Len(log') /\ Len(log) \in Nat /\ Len(log') \in Nat
          BY <1>1, <2>1, <2>2 DEF Change, LogOK
    <3>3. \A x \in toSay : x.id \in DOMAIN log'
          BY <1>1, <2>2, <3>2 DEF SayOK, LogOK
    <3> QED BY <1>1, <2>2, <3>1, <3>3 DEF LogOK, SayOK
  <2> QED BY <1>4, <1>5, <2>5, <2>7, <2>8 DEF LogInv
<1> QED BY <1>6, <1>7

LEMMA ServeKeeps == ASSUME LogInv, Serve PROVE LogInv'
<1> DEFINE a == Head(ftUp)
           i == IF a.type = "send" THEN Len(log') ELSE a.id
<1>1. LogOK /\ AsksOK /\ Numbered(log)
      BY DEF LogInv, Recorded
<1>2. /\ ftSession = "live" /\ ftUp # <<>> /\ ftUp' = Tail(ftUp)
      /\ UNCHANGED <<toSay, missed, ftSession, bus, ftDrops, msgs, bubble>>
      /\ \/ log' \in Outcomes(a) /\ ftDown' = Append(ftDown, LogMsg(log'[i]))
         \/ ftDown' = Append(ftDown, [type |-> "error"]) /\ UNCHANGED log
      BY DEF Serve
<1>3. a.type \in {"send", "edit", "delete"}
  <2>1. PICK S : ftUp \in Seq(S) /\ \A x \in S : x.type \in {"send", "edit", "delete"}
        BY <1>1 DEF AsksOK
  <2>2. a \in S
        BY <1>2, <2>1
  <2> QED BY <2>1, <2>2
<1>4. CASE ftDown' = Append(ftDown, [type |-> "error"]) /\ UNCHANGED log
  <2>1. [type |-> "error"] \in LogFrame /\ [type |-> "error"].type = "error"
        BY DEF LogFrame
  <2> QED BY <1>2, <1>4, <2>1, Answered
<1>5. CASE log' \in Outcomes(a) /\ ftDown' = Append(ftDown, LogMsg(log'[i]))
  <2>1. Change(log', i, "me")
    <3>1. CASE a.type = "send"
      <4>1. log' \in Written("me")
            BY <1>5, <3>1 DEF Outcomes
      <4> QED BY <1>1, <3>1, <4>1, WrittenChanges
    <3>2. CASE a.type \in {"edit", "delete"}
      <4>1. log' \in Edited("me", a.id) \cup DeletedBy("me", a.id) /\ i = a.id
            BY <1>5, <3>2 DEF Outcomes
      <4> QED BY <1>1, <4>1, TouchedChanges
    <3> QED BY <1>3, <3>1, <3>2
  <2>2. log'[i] \in State
        BY <2>1 DEF Change
  <2>3. LogMsg(log'[i]) \in LogFrame
        BY <2>2, LogMsgIs
  <2> HIDE DEF i
  <2> QED BY <1>2, <1>5, <2>1, <2>3, Answered
<1> QED BY <1>2, <1>4, <1>5

-----------------------------------------------------------------------------
(* What is shown *)

LEMMA MergedGives ==
  ASSUME msgs \in Seq(State), OneEach(msgs), NEW m \in State
  PROVE  /\ Merged(m) \in Seq(State) /\ OneEach(Merged(m)) /\ Has(Merged(m), m.id, m)
         /\ \A n \in DOMAIN Merged(m) :
              \/ Merged(m)[n].id = m.id
              \/ \E k \in DOMAIN msgs : Merged(m)[n] = msgs[k]
         /\ \A i, s : i # m.id /\ Fits(msgs, i, s) => Fits(Merged(m), i, s)
<1> DEFINE r == Merged(m)
<1>1. Len(msgs) \in Nat /\ DOMAIN msgs = 1..Len(msgs) /\ \A n \in DOMAIN msgs : msgs[n] \in State
      OBVIOUS
<1>2. CASE InView(m.id)
  <2>1. r = [n \in DOMAIN msgs |-> IF msgs[n].id = m.id THEN m ELSE msgs[n]]
        BY <1>2 DEF Merged
  <2> HIDE DEF r
  <2>2. /\ DOMAIN r = DOMAIN msgs
        /\ \A n \in DOMAIN msgs : IF msgs[n].id = m.id THEN r[n] = m ELSE r[n] = msgs[n]
        BY <2>1
  <2>3. r \in Seq(State)
    <3>1. r \in [1..Len(msgs) -> State]
          BY <1>1, <2>1, <2>2
    <3> QED BY <1>1, <3>1
  <2>4. \A n \in DOMAIN r : r[n].id = msgs[n].id
        BY <2>2
  <2>5. OneEach(r)
        BY <2>2, <2>4 DEF OneEach
  <2>6. PICK k \in DOMAIN msgs : msgs[k].id = m.id
        BY <1>2 DEF InView
  <2>7. Has(r, m.id, m)
        BY <2>2, <2>6 DEF Has
  <2>8. \A i, s : i # m.id /\ Has(msgs, i, s) => Has(r, i, s)
        BY <2>2 DEF Has
  <2>9. \A n \in DOMAIN r : r[n].id = m.id \/ \E j \in DOMAIN msgs : r[n] = msgs[j]
        BY <2>2
  <2>10. \A i : i # m.id /\ Before(msgs, i) => Before(r, i)
    <3>1. msgs # <<>> => r # <<>> /\ 1 \in DOMAIN msgs
          BY <1>1, <2>2, <2>3
    <3> QED BY <2>2, <2>4, <3>1 DEF Before
  <2> QED BY <2>3, <2>5, <2>7, <2>8, <2>9, <2>10 DEF r, Fits
<1>3. CASE ~InView(m.id)
  <2>1. r = Append(msgs, m)
        BY <1>3 DEF Merged
  <2> HIDE DEF r
  <2>2. /\ r \in Seq(State) /\ DOMAIN r = 1..Len(msgs) + 1 /\ r[Len(msgs) + 1] = m
        /\ \A n \in 1..Len(msgs) : r[n] = msgs[n]
        BY <2>1
  <2>3. \A n \in DOMAIN r : \/ n \in DOMAIN msgs /\ r[n] = msgs[n]
                            \/ n = Len(msgs) + 1 /\ r[n] = m
        BY <1>1, <2>2
  <2>4. \A n \in DOMAIN msgs : msgs[n].id # m.id
        BY <1>3 DEF InView
  <2>5. OneEach(r)
        BY <2>3, <2>4 DEF OneEach
  <2>6. Len(msgs) + 1 \in DOMAIN r
        BY <1>1, <2>2
  <2>7. Has(r, m.id, m)
        BY <2>2, <2>6 DEF Has
  <2>8. \A n \in DOMAIN msgs : n \in DOMAIN r /\ r[n] = msgs[n]
        BY <1>1, <2>2
  <2>9. \A i, s : i # m.id /\ Has(msgs, i, s) => Has(r, i, s)
        BY <2>8 DEF Has
  <2>10. \A n \in DOMAIN r : r[n].id = m.id \/ \E j \in DOMAIN msgs : r[n] = msgs[j]
         BY <2>3
  <2>11. \A i : i # m.id /\ Before(msgs, i) => Before(r, i)
    <3>1. msgs # <<>> => r # <<>> /\ r[1] = msgs[1]
          BY <1>1, <2>2
    <3> QED BY <2>3, <3>1 DEF Before
  <2> QED BY <2>2, <2>5, <2>7, <2>9, <2>10, <2>11 DEF r, Fits
<1> QED BY <1>2, <1>3

LEMMA ShownKeeps == ASSUME LogInv, OnLogFrame PROVE LogInv'
<1> DEFINE f == Head(ftDown)
<1>1. LogOK /\ SayOK /\ LinkOK /\ AsksOK /\ BubbleOK /\ Recorded /\ UpToDate
      BY DEF LogInv
<1>2. /\ ftDown # <<>> /\ ftDown' = Tail(ftDown)
      /\ UNCHANGED <<ftUp, log, toSay, missed, ftSession, bus, ftDrops>>
      /\ \/ f.type = "history" /\ ShowLog(f.log)
         \/ f.type = "msg" /\ ShowLog(Merged(f.m))
         \/ f.type = "error" /\ UNCHANGED <<msgs, bubble>>
      BY DEF OnLogFrame
<1>3. ftSession = "live" /\ ftDown \in Seq(LogFrame)
      BY <1>1, <1>2 DEF UpToDate, LinkOK
<1>4. /\ f \in LogFrame /\ f = ftDown[1] /\ 1 \in DOMAIN ftDown
      /\ Tail(ftDown) \in Seq(LogFrame)
      /\ \A k \in DOMAIN Tail(ftDown) : k + 1 \in DOMAIN ftDown /\ Tail(ftDown)[k] = ftDown[k + 1]
      BY <1>2, <1>3, Dequeued
<1>5. \A i \in DOMAIN log :
         /\ News(ftDown, i, log[i]) =>
               \/ News(Tail(ftDown), i, log[i])
               \/ Tells(f, i, log[i]) /\ Silent(Tail(ftDown), i)
         /\ Silent(ftDown, i) => ~About(f, i) /\ Silent(Tail(ftDown), i)
      BY <1>2, <1>3, NewsTaken
<1> HIDE DEF f
<1>6. SayOK' /\ LinkOK' /\ AsksOK'
      BY <1>1, <1>2, <1>4 DEF SayOK, LinkOK, AsksOK
<1>7. BubbleOK'
  <2>1. bubble' \in {bubble, NoBubble}
        BY <1>2 DEF ShowLog
  <2> QED BY <1>1, <2>1 DEF BubbleOK, NoBubble
<1>8. \A k \in DOMAIN ftDown' :
         /\ ftDown'[k].type = "msg" => ftDown'[k].m.id <= Len(log)
         /\ ftDown'[k].type = "history" => FromLog(ftDown'[k].log, Len(log))
      BY <1>1, <1>2, <1>4 DEF Recorded
<1>9. ASSUME msgs' \in Seq(State), FromLog(msgs', Len(log)),
             \A i \in DOMAIN log :
                /\ Tells(f, i, log[i]) => Fits(msgs', i, log[i])
                /\ ~About(f, i) /\ Fits(msgs, i, log[i]) => Fits(msgs', i, log[i])
      PROVE  LogInv'
  <2>1. LogOK'
        BY <1>1, <1>2, <1>9 DEF LogOK
  <2>2. Recorded'
        BY <1>1, <1>2, <1>8, <1>9 DEF Recorded
  <2>3. UpToDate'
    <3> SUFFICES ASSUME NEW i \in DOMAIN log \ Away, Silent(bus, i)
                 PROVE  \/ News(ftDown', i, log[i])
                        \/ Silent(ftDown', i) /\ Fits(msgs', i, log[i])
        BY <1>1, <1>2, <1>3 DEF UpToDate, Away
    <3>1. News(ftDown, i, log[i]) \/ (Silent(ftDown, i) /\ Fits(msgs, i, log[i]))
          BY <1>1, <1>3 DEF UpToDate
    <3> QED BY <1>2, <1>5, <1>9, <3>1
  <2> QED BY <1>6, <1>7, <2>1, <2>2, <2>3 DEF LogInv
<1>10. CASE f.type = "history"
  <2>1. msgs' = f.log
        BY <1>2, <1>10 DEF ShowLog
  <2>2. f.log \in Seq(State)
        BY <1>4, <1>10 DEF LogFrame, BusFrame
  <2>3. FromLog(f.log, Len(log))
        BY <1>1, <1>4, <1>10 DEF Recorded
  <2>4. \A i : About(f, i)
        BY <1>10 DEF About
  <2>5. \A i \in DOMAIN log : Tells(f, i, log[i]) => Fits(f.log, i, log[i])
        BY <1>10 DEF Tells
  <2> QED BY <1>9, <2>1, <2>2, <2>3, <2>4, <2>5
<1>11. CASE f.type = "msg"
  <2>1. msgs' = Merged(f.m) /\ f.m \in State /\ f.m.id <= Len(log)
    <3>1. msgs' = Merged(f.m)
          BY <1>2, <1>11 DEF ShowLog
    <3>2. f.m \in State
          BY <1>4, <1>11 DEF LogFrame, BusFrame
    <3> QED BY <1>1, <1>4, <1>11, <3>1, <3>2 DEF Recorded
  <2>2. msgs \in Seq(State) /\ OneEach(msgs) /\ \A n \in DOMAIN msgs : msgs[n].id <= Len(log)
        BY <1>1 DEF LogOK, Recorded, FromLog
  <2>3. /\ Merged(f.m) \in Seq(State) /\ OneEach(Merged(f.m)) /\ Has(Merged(f.m), f.m.id, f.m)
        /\ \A n \in DOMAIN Merged(f.m) : \/ Merged(f.m)[n].id = f.m.id
                                         \/ \E k \in DOMAIN msgs : Merged(f.m)[n] = msgs[k]
        /\ \A i, s : i # f.m.id /\ Fits(msgs, i, s) => Fits(Merged(f.m), i, s)
        BY <2>1, <2>2, MergedGives
  <2>4. \A n \in DOMAIN msgs' : msgs'[n].id <= Len(log)
        BY <2>1, <2>2, <2>3
  <2>5. \A i : ~About(f, i) => i # f.m.id
        BY <1>11 DEF About
  <2>6. \A i, s : Tells(f, i, s) => i = f.m.id /\ s = f.m
        BY <1>11 DEF Tells
  <2>7. FromLog(msgs', Len(log))
        BY <2>1, <2>3, <2>4 DEF FromLog
  <2>8. \A i, s : Tells(f, i, s) => Fits(msgs', i, s)
        BY <2>1, <2>3, <2>6 DEF Fits
  <2> QED BY <1>9, <2>1, <2>3, <2>5, <2>7, <2>8
<1>12. CASE f.type = "error"
  <2>1. msgs' = msgs
        BY <1>2, <1>12 DEF ShowLog
  <2>2. \A i, s : ~Tells(f, i, s)
        BY <1>12 DEF Tells
  <2> QED BY <1>1, <1>9, <2>1, <2>2 DEF LogOK, Recorded
<1> QED BY <1>2, <1>10, <1>11, <1>12

LEMMA LogInitially == FriendThreadInit => LogInv
<1> SUFFICES ASSUME FriendThreadInit PROVE LogInv
    OBVIOUS
<1>1. PICK b \in {"me", "peer"} :
          log \in {<<>>, <<[id |-> 1, by |-> b, v |-> 0, del |-> FALSE]>>}
      BY DEF FriendThreadInit
<1>2. /\ ftSession = "none" /\ bus = <<>> /\ ftUp = <<>> /\ ftDown = <<>>
      /\ ftDrops = 0 /\ msgs = <<>> /\ bubble = NoBubble /\ toSay = {} /\ missed = {}
      BY DEF FriendThreadInit
<1>3. log \in Seq(State) /\ Len(log) <= MaxLog /\ Numbered(log)
  <2> DEFINE x == [id |-> 1, by |-> b, v |-> 0, del |-> FALSE]
  <2>1. x \in State /\ x.id = 1
        BY LogConstants DEF State, LogIds
  <2> HIDE DEF x
  <2>2. CASE log = <<x>>
        BY <2>1, <2>2, LogConstants DEF Numbered
  <2>3. CASE log = <<>>
        BY <2>3, LogConstants DEF Numbered
  <2> QED BY <1>1, <2>2, <2>3 DEF x
<1>4. LogOK /\ LinkOK
      BY <1>2, <1>3, LogConstants DEF LogOK, LinkOK
<1>5. AsksOK
  <2>1. <<>> \in Seq({}) /\ Len(<<>>) = 0
        OBVIOUS
  <2> QED BY <1>2, <2>1, LogConstants DEF AsksOK
<1>6. BubbleOK
      BY <1>2 DEF BubbleOK, NoBubble
<1>7. Recorded /\ UpToDate /\ SayOK
      BY <1>2, <1>3 DEF Recorded, UpToDate, FromLog, OneEach, SayOK
<1> QED BY <1>4, <1>5, <1>6, <1>7 DEF LogInv

LEMMA LogStep == ASSUME LogInv, [FriendThreadNext]_ftVars PROVE LogInv'
<1>1. CASE UNCHANGED ftVars
      BY <1>1 DEF ftVars, LogInv, LogOK, SayOK, LinkOK, AsksOK, BubbleOK, Recorded, UpToDate,
                  Away
<1>2. CASE OpenSocket \/ DropSocket \/ SendHistory \/ RelayBus
      BY <1>2, OpenKeeps, HistoryKeeps, RelayKeeps
<1>3. CASE PeerActs
      BY <1>3, PeerWritesKeeps, PeerPublishesKeeps DEF PeerActs
<1>4. CASE Serve \/ OnLogFrame
      BY <1>4, ServeKeeps, ShownKeeps
<1>5. CASE \/ Send \/ StartEdit \/ AskDelete \/ CloseBubble \/ SaveEdit \/ ConfirmDelete
           \/ \E i \in LogIds : OpenBubbleMenu(i) \/ SelectMessage(i)
      BY <1>5, PageKeeps
<1> QED BY <1>1, <1>2, <1>3, <1>4, <1>5, Zenon DEF FriendThreadNext

\* The conversation of two friends keeps its types.
THEOREM LogTypes == FriendThreadSpec => []FriendThreadTypeOK
<1>1. FriendThreadInit => LogInv
      BY LogInitially
<1>2. LogInv /\ [FriendThreadNext]_ftVars => LogInv'
      BY LogStep
<1>3. LogInv => FriendThreadTypeOK
      BY LogInvGives
<1> QED BY <1>1, <1>2, <1>3, PTL DEF FriendThreadSpec

\* Since the session subscribes before it reads the log (ws/friend_handler.go), a page with
\* nothing under way shows no message twice, each in its last state, and none is left out
\* after the first it shows, but one whose last publication failed since the session
\* subscribed: whatever was written meanwhile, and however often the socket was lost.
THEOREM ThreadConvergesHolds == FriendThreadSpec => []ThreadConverges
<1>1. FriendThreadInit => LogInv
      BY LogInitially
<1>2. LogInv /\ [FriendThreadNext]_ftVars => LogInv'
      BY LogStep
<1>3. LogInv => ThreadConverges
  <2> SUFFICES ASSUME LogInv, ftSession = "live", bus = <<>>, ftDown = <<>>, toSay = {}
               PROVE  /\ \A n, k \in DOMAIN msgs : msgs[n].id = msgs[k].id => n = k
                      /\ \A i \in DOMAIN log \ missed :
                            IF InView(i) THEN At(i) = log[i]
                            ELSE msgs # <<>> /\ i < msgs[1].id
      BY DEF ThreadConverges
  <2>1. UpToDate /\ OneEach(msgs)
        BY DEF LogInv, Recorded, FromLog
  <2>2. \A i \in DOMAIN log \ missed : Fits(msgs, i, log[i])
    <3>1. \A i : Silent(<<>>, i)
          BY DEF Silent
    <3>2. \A i, s : ~News(<<>>, i, s)
          BY DEF News
    <3> QED BY <2>1, <3>1, <3>2 DEF UpToDate, Away
  <2>3. ASSUME NEW i \in DOMAIN log \ missed
        PROVE  IF InView(i) THEN At(i) = log[i] ELSE msgs # <<>> /\ i < msgs[1].id
    <3>1. CASE Has(msgs, i, log[i])
      <4>1. PICK n \in DOMAIN msgs : msgs[n].id = i /\ msgs[n] = log[i]
            BY <3>1 DEF Has
      <4>2. \A k \in DOMAIN msgs : msgs[k].id = i => k = n
            BY <2>1, <4>1 DEF OneEach
      <4>3. (CHOOSE k \in DOMAIN msgs : msgs[k].id = i) = n
            BY <4>1, <4>2
      <4> QED BY <4>1, <4>3 DEF InView, At
    <3>2. CASE Before(msgs, i)
          BY <3>2 DEF Before, InView
    <3> QED BY <2>2, <3>1, <3>2 DEF Fits
  <2> QED BY <2>1, <2>3 DEF OneEach
<1> QED BY <1>1, <1>2, <1>3, PTL DEF FriendThreadSpec
=============================================================================
