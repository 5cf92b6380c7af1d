------------------------------ MODULE LimsRelay ------------------------------
(***************************************************************************)
(* What the MES -> LIMS delivery promises, with or without the             *)
(* communication guard: LIMS stores only events MES has committed, and     *)
(* every committed event is stored by LIMS in the end.                     *)
(***************************************************************************)
CONSTANT Events

VARIABLES
    committed,  \* events of committed business transactions
    stored      \* events LIMS has stored

vars == <<committed, stored>>

Init == committed = {} /\ stored = {}

Commit == \E e \in Events :
    /\ committed' = committed \union {e}
    /\ UNCHANGED stored

Store(e) ==
    /\ e \in committed \ stored
    /\ stored' = stored \union {e}
    /\ UNCHANGED committed

Next == Commit \/ \E e \in Events : Store(e)

Spec == Init /\ [][Next]_vars

FairSpec == Spec /\ \A e \in Events : WF_vars(Store(e))
=============================================================================
