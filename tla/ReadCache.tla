------------------------------ MODULE ReadCache ------------------------------
(***************************************************************************)
(* The read path of the API process: CoordinatedReadCache.  Requests share *)
(* one cached snapshot, load it at most once per version, and may be given *)
(* a stale one while a background thread loads another.  One cache key is  *)
(* modelled, the entries of different keys being independent.              *)
(*                                                                         *)
(* A thread is a request (Readers) or a background load (Helpers).         *)
(***************************************************************************)
EXTENDS Publication

CONSTANTS Readers, Helpers

ASSUME ThreadAssumption == Readers \intersect Helpers = {}

VARIABLES
    entry,    \* the cached snapshot and its age
    loading,  \* the version being loaded (_loading), or NoLoad
    thread    \* the threads inside get_or_load and _refresh

cacheVars == <<pubVars, entry, loading, thread>>

Threads == Readers \union Helpers
NoLoad  == -1
NoEntry == [data |-> 0, age |-> "none"]
States  == {"idle", "asked", "load", "store", "answered", "failed"}

\* `floor` is a history of what was published when the request was made.
Thread(s, v, d, f) == [state |-> s, version |-> v, data |-> d, floor |-> f]
Idle == Thread("idle", 0, 0, 0)

\* What the requests look like from outside.
Seen(t) ==
    [state |-> CASE t.state = "idle" -> "none"
                 [] t.state \in {"asked", "load", "store"} -> "asked"
                 [] OTHER -> t.state,
     n |-> CASE t.state \in {"asked", "load", "store"} -> t.floor
             [] t.state = "answered" -> t.data
             [] OTHER -> 0]
Snapshots == INSTANCE SnapshotRead WITH read <- [r \in Readers |-> Seen(thread[r])]

CacheInit ==
    /\ PubInit
    /\ entry = NoEntry /\ loading = NoLoad
    /\ thread = [t \in Threads |-> Idle]

-----------------------------------------------------------------------------
(* Writers.                                                                 *)

CommitWrite ==
    /\ \E w \in Write : Commit(w)
    /\ UNCHANGED <<entry, loading, thread>>

\* Mutated: the entry survives a new version.
InvalidateVersionOnly ==
    /\ \E p \in pubs : Invalidate(p)
    /\ UNCHANGED <<entry, loading, thread>>

\* A load in progress keeps the version it began with.
InvalidateCache ==
    /\ \E p \in pubs : Invalidate(p)
    /\ entry' = NoEntry
    /\ UNCHANGED <<loading, thread>>

HandUpdateOver ==
    /\ \E p \in pubs : HandOver(p)
    /\ UNCHANGED <<entry, loading, thread>>

-----------------------------------------------------------------------------
(* Requests.                                                                *)

Request(r) ==
    /\ thread[r].state \in {"idle", "failed"}
    /\ thread' = [thread EXCEPT ![r] = Thread("asked", 0, 0, Snapshots!Floor)]
    /\ UNCHANGED <<pubVars, entry, loading>>

Loading(t) == thread[t].state \in {"load", "store"}

Begin(t) == thread' = [thread EXCEPT ![t] = Thread("load", version, 0, @.floor)]
Answered(r, n) == [thread EXCEPT ![r] = Thread("answered", 0, n, 0)]

\* A valid or stale entry is returned at once.
Hit(r) ==
    /\ thread[r].state = "asked" /\ entry.age # "none"
    /\ thread' = Answered(r, entry.data)
    /\ UNCHANGED <<pubVars, entry, loading>>

\* A stale one starts a background load too, unless one of this version runs.
HitStale(r, h) ==
    /\ thread[r].state = "asked" /\ entry.age = "stale" /\ loading # version
    /\ thread[h].state = "idle"
    /\ loading' = version
    /\ thread' = [Answered(r, entry.data) EXCEPT ![h] = Thread("load", version, 0, 0)]
    /\ UNCHANGED <<pubVars, entry>>

\* Without an entry a request loads, or waits for a load of this version.
Miss(r) ==
    /\ thread[r].state = "asked" /\ entry.age = "none" /\ loading # version
    /\ loading' = version
    /\ Begin(r)
    /\ UNCHANGED <<pubVars, entry>>

\* loader(): the snapshot is read in one transaction, outside the lock.
Query(t) ==
    /\ thread[t].state = "load"
    /\ thread' = [thread EXCEPT ![t].state = "store", ![t].data = Len(writes)]
    /\ UNCHANGED <<pubVars, entry, loading>>

\* Mutated: any load that ends pops _loading.
DoneAnyVersion(t) == NoLoad

\* _loading is popped by the load it names only.
Done(t) == IF loading = thread[t].version THEN NoLoad ELSE loading

\* Mutated: what was loaded is kept, whatever the version is now.
StoredAnyVersion(t) == [data |-> thread[t].data, age |-> "fresh"]
Stored(t) == IF thread[t].version = version THEN [data |-> thread[t].data, age |-> "fresh"] ELSE entry

Store(t) ==
    /\ thread[t].state = "store"
    /\ entry' = Stored(t) /\ loading' = Done(t)
    /\ thread' = IF t \in Helpers THEN [thread EXCEPT ![t] = Idle] ELSE Answered(t, thread[t].data)
    /\ UNCHANGED pubVars

\* The loader raises: the request fails, and another one may load.
LoadFails(r) ==
    /\ thread[r].state = "load"
    /\ Fault("read_failure")
    /\ loading' = Done(r)
    /\ thread' = [thread EXCEPT ![r] = Thread("failed", 0, 0, 0)]
    /\ UNCHANGED <<writes, pubs, version, entry>>

\* In the background nobody is told.
HelperFails(h) ==
    /\ thread[h].state = "load" /\ "read_failure" \in Faults
    /\ loading' = Done(h)
    /\ thread' = [thread EXCEPT ![h] = Idle]
    /\ UNCHANGED <<pubVars, entry>>

TakeAnswer(r) ==
    /\ thread[r].state \in {"answered", "failed"}
    /\ thread' = [thread EXCEPT ![r] = Idle]
    /\ UNCHANGED <<pubVars, entry, loading>>

\* Time: an entry becomes stale, then it expires.
Age ==
    /\ entry.age # "none"
    /\ entry' = IF entry.age = "fresh" THEN [entry EXCEPT !.age = "stale"] ELSE NoEntry
    /\ UNCHANGED <<pubVars, loading, thread>>

RestartCache ==
    /\ RestartProcess
    /\ entry' = NoEntry /\ loading' = NoLoad
    /\ thread' = [t \in Threads |->
           IF t \in Helpers THEN Idle
           ELSE IF thread[t].state \in {"asked", "load", "store"} THEN Thread("failed", 0, 0, 0)
           ELSE thread[t]]

ReaderStep(r) == Hit(r) \/ (\E h \in Helpers : HitStale(r, h)) \/ Miss(r)
LoadStep(t)   == Query(t) \/ Store(t)

CacheNext ==
    \/ CommitWrite \/ InvalidateCache \/ HandUpdateOver \/ Age \/ RestartCache
    \/ \E r \in Readers : Request(r) \/ ReaderStep(r) \/ TakeAnswer(r) \/ LoadFails(r)
    \/ \E t \in Threads : LoadStep(t)
    \/ \E h \in Helpers : HelperFails(h)

CacheSpec == CacheInit /\ [][CacheNext]_cacheVars

\* Threads run.  A request woken by notify_all reads the entry before it expires,
\* not each time after: strong fairness.
FairCacheSpec ==
    /\ CacheSpec
    /\ \A r \in Readers : SF_cacheVars(ReaderStep(r))
    /\ \A t \in Threads : WF_cacheVars(LoadStep(t))

-----------------------------------------------------------------------------
CacheTypeOK ==
    /\ PubTypeOK
    /\ entry \in [data : 0..Len(writes), age : {"none", "fresh", "stale"}]
    /\ loading \in Nat \union {NoLoad}
    /\ thread \in [Threads -> [state : States, version : Nat, data : 0..Len(writes), floor : 0..Len(writes)]]

\* A cached snapshot, fresh or stale, holds every write that was published.
\* read_through_cache.py get_or_load and storage_update_bus.py publish_storage_update.
CacheIsCurrent == entry.age # "none" => \A i \in Published : i <= entry.data

\* One thread at most loads a version, and a request that waits (condition.wait)
\* waits for such a thread: a load that fails or is outdated never leaves the
\* others waiting. read_through_cache.py get_or_load and _refresh.
LoadsOfVersion == {t \in Threads : Loading(t) /\ thread[t].version = version}
SingleFlight ==
    /\ \A t, u \in LoadsOfVersion : t = u
    /\ loading = version <=> LoadsOfVersion # {}

\* The cache implements SnapshotRead: a reader told of a write that asks
\* afterwards is never answered from before it, and every request ends.
ReadRefinement == Snapshots!FairReadSpec
=============================================================================
