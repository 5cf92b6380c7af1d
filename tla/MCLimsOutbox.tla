----------------------------- MODULE MCLimsOutbox -----------------------------
(* Instances of LimsOutbox for TLC. *)
EXTENDS LimsOutbox, TLC

CONSTANTS c1, c2, r1

\* The first revision of one completion is refused for good.
FirstRejected == {<<c1, 1>>}
===============================================================================
