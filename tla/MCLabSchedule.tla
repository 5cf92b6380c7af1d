---------------------------- MODULE MCLabSchedule ----------------------------
\* Two schedules with a gap between them, the first of which will be late.
EXTENDS LabSchedule, TLC
MCPlanned == 1 :> [start |-> 0, end |-> 1] @@ 2 :> [start |-> 2, end |-> 3]
MCMaintenance == {[start |-> 5, end |-> 6]}
PageSymmetry == Permutations(Pages)
\* What a page shows is read by its next request and by the load under way, so
\* states that differ only in what is never read again are one.
Readers == IF requests < MaxRequests THEN Pages ELSE loading
ReadState == <<now, store, [p \in Readers |-> view[p]], loading, resumed, requests, excused>>
=============================================================================
