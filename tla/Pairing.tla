------------------------------- MODULE Pairing -------------------------------
(***************************************************************************)
(* What anonymous matching promises, whatever the queues, wake-ups and     *)
(* rooms behind it do: people talk two by two, each with somebody who      *)
(* speaks what they want, and never again with somebody one of them has    *)
(* reported.                                                               *)
(***************************************************************************)
CONSTANTS Sessions, Speaks, Wants

VARIABLES talk,       \* pairs of people who are in a conversation together
          reported    \* pairs <<who reports, who is reported>>

Alone(s) == \A pair \in talk : s \notin pair

PairingInit == talk = {} /\ reported = {}

Meet(s, p) ==
    /\ s # p /\ Alone(s) /\ Alone(p)
    /\ Speaks[s] = Wants[p] /\ Speaks[p] = Wants[s]
    /\ <<s, p>> \notin reported /\ <<p, s>> \notin reported
    /\ talk' = talk \cup {{s, p}}
    /\ UNCHANGED reported

Leave(pair) == pair \in talk /\ talk' = talk \ {pair} /\ UNCHANGED reported

\* One may still report a partner who has left, until one meets somebody else.
Denounce(s, p) ==
    /\ s # p /\ \A pair \in talk : s \in pair => pair = {s, p}
    /\ talk' = talk \ {{s, p}}
    /\ reported' = reported \cup {<<s, p>>}

PairingNext ==
    \/ \E s, p \in Sessions : Meet(s, p) \/ Denounce(s, p)
    \/ \E pair \in talk : Leave(pair)

PairingSpec == PairingInit /\ [][PairingNext]_<<talk, reported>>
=============================================================================
