---------------------------- MODULE MCLimsIntake ----------------------------
(***************************************************************************)
(* Instances of LimsIntake for TLC.                                        *)
(***************************************************************************)
EXTENDS LimsIntake, TLC

CONSTANTS m1, m2, q1, q2, k1

\* Two messages for the same task code.
SameCode == [m \in Messages |-> k1]
Pair(a, b) == (m1 :> a) @@ (m2 :> b)

\* Of one request that LIMS sent twice, of two requests, one without a request, or
\* one that cannot be decoded.
TwiceOrTaken == {Pair(q1, q1), Pair(q1, q2), Pair(NoRequest, q1), Pair(q1, Unreadable)}

\* Two requests, of which the second is invalid; one beside a message that cannot be
\* decoded.
TwoRequests == {Pair(q1, q2), Pair(q1, Unreadable)}
===============================================================================
