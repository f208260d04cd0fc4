-------------------------- MODULE MCKamailioCalls --------------------------
(* Small instances of KamailioCalls: calls of one number, so on one counter, *)
(* and two workers that share it.                                            *)
EXTENDS KamailioCalls

CONSTANTS c1, c2, c3, a1, n1, w1, w2

\* Every account is kept in the one counter.
SameNumber == [a \in Accounts |-> n1]

\* A call to a carrier, an emergency call, and one that route[FRAUD] answers, with 486
\* while the other two are up.
OneOfEach ==
    [c \in Calls |-> {CASE c = c1 -> "outside" [] c = c2 -> "emergency" [] c = c3 -> "risky"}]

InsideOrEmergency == [c \in Calls |-> {"inside", "emergency"}]
=============================================================================
