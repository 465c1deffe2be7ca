---------------------------- MODULE MCMatchmaking ----------------------------
(* Small instances of Matchmaking: one pair of languages, its two mirror     *)
(* queues, and three sessions, two of which compete for the third.           *)
EXTENDS Matchmaking, TLC

CONSTANTS a1, a2, b1, fr, en

MCLangs  == {fr, en}
MCSpeaks == (a1 :> fr) @@ (a2 :> fr) @@ (b1 :> en)
MCWants  == (a1 :> en) @@ (a2 :> en) @@ (b1 :> fr)

TwoSpeaks == (a1 :> fr) @@ (b1 :> en)
TwoWants  == (a1 :> en) @@ (b1 :> fr)
=============================================================================
