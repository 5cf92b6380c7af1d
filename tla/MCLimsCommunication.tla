------------------------- MODULE MCLimsCommunication -------------------------
(* Instances of LimsCommunication for TLC. *)
EXTENDS LimsCommunication, TLC

CONSTANTS c1, r1, r2

NoneRejected == {}
===============================================================================
