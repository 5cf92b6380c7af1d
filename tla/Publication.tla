----------------------------- MODULE Publication -----------------------------
(***************************************************************************)
(* Writers of the store in the API process.  A handler commits under the   *)
(* laboratory commit lock; once it released the lock it publishes: it      *)
(* advances the version of the read cache and then hands the update to the *)
(* subscribers.  Several handlers may be between these steps.              *)
(*                                                                         *)
(* The store is the sequence of its committed writes.  A snapshot, what    *)
(* one read of the store returns, is its first n writes for some n.        *)
(***************************************************************************)
EXTENDS Integers, Sequences

CONSTANTS
    Keys,       \* storage keys
    Origins,    \* who writes; only a page that shows the data asks
    Faults,     \* which faults of the environment happen
    MaxEvents   \* bound on the writes and the faults together

ASSUME BoundAssumption == MaxEvents \in Nat

VARIABLES
    writes,   \* the committed writes, in the order of their transactions
    pubs,     \* writes being published: version 0 until the cache is invalidated
    version,  \* _version of the read cache
    faults    \* how many faults happened

pubVars == <<writes, pubs, version, faults>>

Write == [key : Keys, by : Origins]
Ids   == 1..Len(writes)

\* Writes whose publication has invalidated the cache.
Published == {i \in Ids : \A p \in pubs : p.id = i => p.version # 0}

Bounded  == Len(writes) + faults < MaxEvents
Fault(f) == Bounded /\ f \in Faults /\ faults' = faults + 1

\* The process starts, or has published one write (not in the sequence) before.
PubInit == writes = <<>> /\ pubs = {} /\ version \in {0, 1} /\ faults = 0

Commit(w) ==
    /\ Bounded
    /\ writes' = Append(writes, w)
    /\ pubs' = pubs \union {[id |-> Len(writes) + 1, version |-> 0]}
    /\ UNCHANGED <<version, faults>>

\* CoordinatedReadCache.invalidate, first thing in publish_storage_update.
Invalidate(p) ==
    /\ p \in pubs /\ p.version = 0
    /\ version' = version + 1
    /\ pubs' = (pubs \ {p}) \union {[p EXCEPT !.version = version + 1]}
    /\ UNCHANGED <<writes, faults>>

\* The rest of publish_storage_update: the update is with the subscribers.
HandOver(p) ==
    /\ p \in pubs /\ p.version # 0
    /\ pubs' = pubs \ {p}
    /\ UNCHANGED <<writes, version, faults>>

\* The process stops: its cache is empty and what it was publishing is lost.
RestartProcess ==
    /\ Fault("restart")
    /\ pubs' = {} /\ version' = 0
    /\ UNCHANGED writes

PubTypeOK ==
    /\ writes \in Seq(Write) /\ faults \in Nat /\ Len(writes) + faults <= MaxEvents
    /\ pubs \subseteq [id : Ids, version : 0..version]
    /\ version \in Nat
=============================================================================
