-------------------------------- MODULE Photos --------------------------------
(***************************************************************************)
(* The photos of the account page (PhotoSlot.tsx, usePhotoDrag.ts and the  *)
(* grid of app/account/page.tsx), the face check of VerificationCard.tsx,  *)
(* and the rows they write: internal/profile, whose transactions are       *)
(* single steps here.  The page applies the answers to its own copy, in    *)
(* the order they come.                                                    *)
(***************************************************************************)
EXTENDS Naturals, Sequences, FiniteSets, SequencesExt, Functions

CONSTANTS Pictures, NoPicture,
          MaxPhotos,  \* 6 in the code
          MaxRequests \* bound: requests under way

ASSUME PhotosAssumption ==
    /\ IsFiniteSet(Pictures) /\ NoPicture \notin Pictures
    /\ MaxPhotos \in Nat /\ MaxRequests \in Nat \ {0}

VARIABLES photos,    \* user_photos, by position
          certified, \* user_profiles.is_verified
          compared,  \* the photo the certifying selfie was compared with
          vouched,   \* the photo that was first when that comparison ended
          grid,      \* account.photos on the page
          badge,     \* account.profile.is_verified on the page
          photoPage, \* "loading", then "shown", or "bare" when the load failed
          drag,      \* the slot taken, with the slots that were occupied when it was
          camera,    \* the dialog of the face check is open; it offers another try
          requests   \* requests under way

photosVars == <<photos, certified, compared, vouched, grid, badge, photoPage, drag, camera,
                requests>>
Rows == <<photos, certified, compared, vouched>>
Shown == <<grid, badge, photoPage>>

Slots == 1..MaxPhotos
Grids == [Slots -> Pictures \cup {NoPicture}]
Request == [kind : {"load", "set", "delete", "reorder", "verify"}, at : 0..MaxPhotos,
            picture : Pictures \cup {NoPicture}, order : Seq(Slots),
            state : {"sent", "compared", "done", "failed"}, photos : Seq(Pictures),
            certified : BOOLEAN]

PhotosTypeOK ==
    /\ photos \in Seq(Pictures) /\ Len(photos) <= MaxPhotos /\ certified \in BOOLEAN
    /\ compared \in Pictures \cup {NoPicture} /\ vouched \in Pictures \cup {NoPicture}
    /\ grid \in Grids /\ badge \in BOOLEAN /\ photoPage \in {"loading", "shown", "bare"}
    /\ drag \in [at : 0..MaxPhotos, over : SUBSET Slots]
    /\ camera \in [open : BOOLEAN, retry : BOOLEAN]
    /\ requests \in Seq(Request) /\ Len(requests) <= MaxRequests

PhotoRequest(kind, at, picture, order) ==
    [kind |-> kind, at |-> at, picture |-> picture, order |-> order, state |-> "sent",
     photos |-> <<>>, certified |-> FALSE]
\* Nothing of a request that failed matters but its kind.
Failed(r) == [PhotoRequest(r.kind, 0, NoPicture, <<>>) EXCEPT !.state = "failed"]
SendRequest(r) == Len(requests) < MaxRequests /\ requests' = Append(requests, r)

Empty == [p \in Slots |-> NoPicture]
NoDrag == [at |-> 0, over |-> {}]

\* The dialog of the face check covers the page, while the profile is not certified.
Covered == camera.open /\ ~badge

PhotosInit ==
    /\ photos \in UNION {SetToSeqs(S) : S \in {T \in SUBSET Pictures : Cardinality(T) <= MaxPhotos}}
    /\ certified = FALSE /\ compared = NoPicture /\ vouched = NoPicture
    /\ grid = Empty /\ badge = FALSE /\ photoPage = "loading" /\ drag = NoDrag
    /\ camera = [open |-> FALSE, retry |-> FALSE]
    /\ requests = <<PhotoRequest("load", 0, NoPicture, <<>>)>>

-----------------------------------------------------------------------------
(* store.go *)

Main(s) == IF s = <<>> THEN NoPicture ELSE Head(s)

\* Where a write leaves the rows, and whether it takes the certification back.
Write(s, resets) ==
    /\ photos' = s
    /\ certified' = (certified /\ ~resets)
    /\ compared' = IF certified' THEN compared ELSE NoPicture
    /\ vouched' = IF certified' THEN vouched ELSE NoPicture

\* Another photo at the first position; a first photo takes nothing back.
SetResets(at, picture) == at = 1 /\ photos # <<>> /\ photos[1] # picture

\* Mutant: the photos that move up into the first place are forgotten.
NeverResets(at) == FALSE

\* The first photo goes.
DeleteResets(at) == at = 1 /\ photos # <<>>

\* Another photo is first after the rows have moved.
ReorderResets(s) == photos # <<>> /\ Main(s) # Main(photos)

\* The photo at this position is replaced, or the new one goes after the last.
SetPhoto(at, picture) ==
    Write(IF at <= Len(photos) THEN [photos EXCEPT ![at] = picture]
          ELSE Append(photos, picture), SetResets(at, picture))

DeletePhoto(at) ==
    Write(IF at <= Len(photos) THEN RemoveAt(photos, at) ELSE photos, DeleteResets(at))

\* Where the row at a position goes: the positions that are not named stay.
Goal(order, at) ==
    IF \E i \in DOMAIN order : order[i] = at THEN CHOOSE i \in DOMAIN order : order[i] = at
    ELSE at

\* As many positions as there are photos, and no two rows at one place at the commit.
CanReorder(order) ==
    /\ Len(order) = Len(photos)
    /\ \A i, j \in DOMAIN photos : Goal(order, i) = Goal(order, j) => i = j

ReorderPhotos(order) ==
    LET s == [p \in DOMAIN photos |->
                 photos[CHOOSE q \in DOMAIN photos : Goal(order, q) = p]]
    IN Write(s, ReorderResets(s))

\* MarkProfileVerified, whatever photo is first by then.
MarkVerified(picture) ==
    /\ certified' = TRUE /\ compared' = picture /\ vouched' = Main(photos)
    /\ UNCHANGED photos

-----------------------------------------------------------------------------
(* handlers.go and verification.go *)

ServeRequest(k) ==
    LET r == requests[k]
        Ends == requests' = [requests EXCEPT ![k].state = "done"]
        Fails == requests' = [requests EXCEPT ![k] = Failed(r)]
        Answers == requests' = [requests EXCEPT ![k] = [r EXCEPT !.state = "done",
                            !.order = <<>>, !.photos = photos', !.certified = certified']]
    IN /\ k \in DOMAIN requests /\ r.state = "sent"
       /\ \/ r.kind = "set" /\ SetPhoto(r.at, r.picture) /\ Ends
          \/ r.kind = "delete" /\ DeletePhoto(r.at) /\ Ends
          \/ r.kind = "load" /\ UNCHANGED Rows /\ Answers
          \/ /\ r.kind = "reorder" /\ CanReorder(r.order)
             /\ ReorderPhotos(r.order) /\ Answers
          \/ /\ r.kind = "reorder" /\ ~CanReorder(r.order) /\ UNCHANGED Rows
             /\ Fails
          \/ /\ r.kind = "verify" /\ UNCHANGED Rows
             /\ IF photos = <<>> THEN Fails
                ELSE requests' = [requests EXCEPT
                         ![k] = [r EXCEPT !.state = "compared", !.picture = Main(photos)]]
       /\ UNCHANGED <<Shown, drag, camera>>

\* The face matcher tells the two faces alike or not, or does not answer.
Verdict(k) ==
    /\ k \in DOMAIN requests /\ requests[k].state = "compared"
    /\ \E alike \in BOOLEAN :
         /\ IF alike THEN MarkVerified(requests[k].picture) ELSE UNCHANGED Rows
         /\ requests' = [requests EXCEPT ![k] = IF alike THEN [@ EXCEPT !.state = "done"]
                                                      ELSE Failed(@)]
    /\ UNCHANGED <<Shown, drag, camera>>

\* A request that never arrives, or an answer that does not come back.
LoseRequest(k) ==
    /\ k \in DOMAIN requests /\ requests[k].state \in {"sent", "done"}
    /\ requests' = [requests EXCEPT ![k] = Failed(@)]
    /\ UNCHANGED <<Rows, Shown, drag, camera>>

-----------------------------------------------------------------------------
(* PhotoSlot.tsx and usePhotoDrag.ts *)

\* The upload to the host gives the picture a name of its own.
FreshPictures ==
    Pictures \ (Range(photos) \cup Range(grid) \cup {compared, vouched}
                \cup UNION {{requests[k].picture} \cup Range(requests[k].photos) :
                            k \in DOMAIN requests})

Pick(at) ==
    /\ photoPage # "loading" /\ ~Covered
    /\ \E picture \in FreshPictures : SendRequest(PhotoRequest("set", at, picture, <<>>))
    /\ UNCHANGED <<Rows, Shown, drag, camera>>

Discard(at) ==
    /\ grid[at] # NoPicture /\ ~Covered /\ SendRequest(PhotoRequest("delete", at, NoPicture, <<>>))
    /\ UNCHANGED <<Rows, Shown, drag, camera>>

PointerDown(at) ==
    /\ drag = NoDrag /\ grid[at] # NoPicture /\ ~Covered
    /\ drag' = [at |-> at, over |-> {p \in Slots : grid[p] # NoPicture}]
    /\ UNCHANGED <<Rows, Shown, camera, requests>>

\* The photo goes from the slot it was taken in to the one it is let go over, among the
\* slots that were occupied when the pointer went down.
Reordered(to) ==
    LET occupied == SetToSortSeq(drag.over, <)
        Place(p) == CHOOSE i \in DOMAIN occupied : occupied[i] = p
    IN InsertAt(RemoveAt(occupied, Place(drag.at)), Place(to), drag.at)

Drop(to) ==
    /\ drag # NoDrag /\ drag' = NoDrag
    /\ IF to \in drag.over \ {drag.at}
       THEN SendRequest(PhotoRequest("reorder", 0, NoPicture, Reordered(to))) ELSE UNCHANGED requests
    /\ UNCHANGED <<Rows, Shown, camera>>

-----------------------------------------------------------------------------
(* VerificationCard.tsx *)

\* The button asks for a main photo, another try does not; the browser may refuse.
StartCamera ==
    /\ photoPage # "loading" /\ ~badge /\ ~camera.open /\ drag = NoDrag
    /\ grid[1] # NoPicture \/ camera.retry
    /\ \E granted \in BOOLEAN : camera' = [open |-> granted, retry |-> ~granted]
    /\ UNCHANGED <<Rows, Shown, drag, requests>>

StopCamera ==
    /\ Covered /\ camera' = [camera EXCEPT !.open = FALSE]
    /\ UNCHANGED <<Rows, Shown, drag, requests>>

\* The selfie is taken, and its upload leads to the check.
CaptureAndVerify ==
    /\ Covered /\ camera' = [open |-> FALSE, retry |-> FALSE]
    /\ SendRequest(PhotoRequest("verify", 0, NoPicture, <<>>))
    /\ UNCHANGED <<Rows, Shown, drag>>

-----------------------------------------------------------------------------
(* page.tsx *)

Uploaded(r) ==
    /\ grid' = [grid EXCEPT ![r.at] = r.picture]
    /\ badge' = (badge /\ ~(r.at = 1 /\ grid[1] # NoPicture))

Deleted(r) ==
    /\ grid' = [p \in Slots |-> IF p < r.at THEN grid[p]
                                ELSE IF p = MaxPhotos THEN NoPicture ELSE grid[p + 1]]
    /\ badge' = (badge /\ r.at # 1)

\* setAccount, with the whole account.
Replaced(r) ==
    /\ grid' = [p \in Slots |-> IF p <= Len(r.photos) THEN r.photos[p] ELSE NoPicture]
    /\ badge' = r.certified

\* Without an account loaded, what the page is told of its photos is nothing to it.
RequestAnswered(k) ==
    LET r == requests[k]
        done == r.state = "done"
    IN /\ k \in DOMAIN requests /\ r.state \in {"done", "failed"}
       /\ requests' = RemoveAt(requests, k)
       /\ photoPage' = IF r.kind = "load" THEN (IF done THEN "shown" ELSE "bare") ELSE photoPage
       /\ camera' = IF r.kind = "verify" /\ ~done THEN [camera EXCEPT !.retry = TRUE] ELSE camera
       /\ \/ done /\ photoPage = "shown" /\ r.kind = "set" /\ Uploaded(r)
          \/ done /\ photoPage = "shown" /\ r.kind = "delete" /\ Deleted(r)
          \/ done /\ r.kind \in {"load", "reorder"} /\ Replaced(r)
          \/ done /\ r.kind = "verify" /\ badge' = TRUE /\ UNCHANGED grid
          \/ (~done \/ (photoPage = "bare" /\ r.kind = "set")) /\ UNCHANGED <<grid, badge>>
       /\ UNCHANGED <<Rows, drag>>

PhotosNext ==
    \/ \E k \in 1..MaxRequests : ServeRequest(k) \/ Verdict(k) \/ LoseRequest(k) \/ RequestAnswered(k)
    \/ \E at \in Slots : Pick(at) \/ Discard(at) \/ PointerDown(at) \/ Drop(at)
    \/ StartCamera \/ StopCamera \/ CaptureAndVerify

PhotosSpec == PhotosInit /\ [][PhotosNext]_photosVars

-----------------------------------------------------------------------------
\* store.go:253-262, 317-327, 420-439, verification.go:43-121: whatever is uploaded,
\* deleted and moved, from however old a grid, a certified profile shows first the photo
\* the selfie was compared with; but when the photo was changed during the comparison, it
\* shows the one that was first at the end of it, or any if there was none.
CertifiedPhoto ==
    certified => \/ Main(photos) = compared
                 \/ vouched # compared /\ vouched \in {Main(photos), NoPicture}
=============================================================================
