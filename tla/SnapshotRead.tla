---------------------------- MODULE SnapshotRead -----------------------------
(***************************************************************************)
(* What a reader of the store is promised (the abstract specification that *)
(* ReadCache implements): the snapshot it is given holds every write whose *)
(* publication had invalidated the cache when it asked, and it is given    *)
(* one or told of a failure.                                               *)
(***************************************************************************)
EXTENDS Publication

CONSTANT Readers

VARIABLE read   \* each reader's request: what n means depends on its state

readVars == <<pubVars, read>>

NoRead    == [state |-> "none", n |-> 0]
Failed    == [state |-> "failed", n |-> 0]
Answer(n) == [state |-> "answered", n |-> n]

\* The least snapshot that a request made now may be answered with.
Asked(n) == [state |-> "asked", n |-> n]
Holds(n) == \A i \in Published : i <= n
Floor    == CHOOSE n \in 0..Len(writes) : Holds(n) /\ (n = 0 \/ n \in Published)
Asking   == Asked(Floor)

ReadInit == PubInit /\ read = [r \in Readers |-> NoRead]

Ask(r) ==
    /\ read[r].state \notin {"asked", "answered"}
    /\ read' = [read EXCEPT ![r] = Asking]
    /\ UNCHANGED pubVars

Reply(r) ==
    /\ read[r].state = "asked"
    /\ \E n \in read[r].n..Len(writes) : read' = [read EXCEPT ![r] = Answer(n)]
    /\ UNCHANGED pubVars

Fail(r) ==
    /\ read[r].state = "asked"
    /\ Fault("read_failure")
    /\ read' = [read EXCEPT ![r] = Failed]
    /\ UNCHANGED <<writes, pubs, version>>

\* The reader takes its answer.
Take(r) ==
    /\ read[r].state \in {"answered", "failed"}
    /\ read' = [read EXCEPT ![r] = NoRead]
    /\ UNCHANGED pubVars

\* The requests being served fail with the process.
Interrupted == [r \in Readers |-> IF read[r].state = "asked" THEN Failed ELSE read[r]]

Restart == RestartProcess /\ read' = Interrupted

Publish ==
    /\ \/ \E w \in Write : Commit(w)
       \/ \E p \in pubs : Invalidate(p) \/ HandOver(p)
    /\ UNCHANGED read

ReadNext ==
    \/ Publish \/ Restart
    \/ \E r \in Readers : Ask(r) \/ Reply(r) \/ Fail(r) \/ Take(r)

ReadSpec == ReadInit /\ [][ReadNext]_readVars

\* Every request ends.
FairReadSpec == ReadSpec /\ \A r \in Readers : WF_readVars(Reply(r))
=============================================================================
