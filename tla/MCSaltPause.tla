----------------------------- MODULE MCSaltPause -----------------------------
(* SaltPause on two laboratory pages that may be swapped.                   *)
EXTENDS SaltPause, TLC

CONSTANTS g, h

PagesAlike == Permutations({g, h})
=============================================================================
