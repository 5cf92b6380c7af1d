--------------------------- MODULE ReadCache_proofs --------------------------
(***************************************************************************)
(* Proofs about ReadCache: the cached snapshot holds every published       *)
(* write, a version is loaded by one thread at a time, and the cache       *)
(* implements the safety part of SnapshotRead.                             *)
(***************************************************************************)
EXTENDS ReadCache, WellFoundedInduction, TLAPS

\* No thread loads a version that is not there yet.
LoadInv ==
    /\ loading <= version
    /\ \A t \in Threads : Loading(t) => thread[t].version <= version

\* A snapshot that was read and whose version still stands is as good as an entry.
ReadInv ==
    \A t \in Threads :
        thread[t].state = "store" /\ thread[t].version = version =>
            \A i \in Published : i <= thread[t].data

\* A request remembers a published write (or none), and what it read holds it.
FloorInv ==
    \A r \in Readers :
        /\ thread[r].state \in {"asked", "load", "store"} =>
              thread[r].floor \in Published \union {0}
        /\ thread[r].state = "store" => thread[r].floor <= thread[r].data

IInv ==
    /\ CacheTypeOK /\ CacheIsCurrent /\ SingleFlight
    /\ LoadInv /\ ReadInv /\ FloorInv

-----------------------------------------------------------------------------
(* The least snapshot with all published writes exists.                     *)

\* A non-empty set of naturals has a least element.
LEMMA LeastNatural ==
    ASSUME NEW T, T \subseteq Nat, T # {}
    PROVE  \E n \in T : \A m \in T : n <= m
<1> DEFINE Less == {p \in Nat \X Nat : p[1] < p[2]}
<1>1. IsWellFoundedOn(Less, Nat)
  BY NatLessThanWellFounded, Zenon DEF OpToRel
<1>2. \A m, n \in Nat : m < n => <<m, n>> \in Less
  OBVIOUS
<1> HIDE DEF Less
<1>3. \E n \in T : \A m \in T : ~ (<<m, n>> \in Less)
  BY <1>1, WFMin
<1>4. PICK n \in T : \A m \in T : ~ (<<m, n>> \in Less)
  BY <1>3
<1>5. \A m \in T : ~ (m < n)
  BY <1>2, <1>4
<1>6. \A m \in T : n <= m
  BY <1>5
<1> QED
  BY <1>6

\* Floor is a snapshot that holds what is published, and no more than needed.
LEMMA FloorFacts ==
    ASSUME Len(writes) \in Nat
    PROVE  /\ Snapshots!Floor \in 0..Len(writes)
           /\ Snapshots!Floor \in Published \union {0}
           /\ \A i \in Published : i <= Snapshots!Floor
<1> DEFINE T == {n \in Nat : \A i \in Published : i <= n}
<1>1. Published \subseteq 1..Len(writes)
  BY DEF Published, Ids
<1>2. Len(writes) \in T
  BY <1>1
<1>3. PICK n \in T : \A m \in T : n <= m
  BY <1>2, LeastNatural
<1>4. n \in 0..Len(writes)
  BY <1>2, <1>3
<1>5. n = 0 \/ n \in Published
  <2>1. SUFFICES ASSUME n # 0 PROVE n \in Published
    OBVIOUS
  <2>2. n - 1 \in Nat /\ ~ (n <= n - 1)
    BY <2>1, <1>4
  <2>3. n - 1 \notin T
    BY <2>2, <1>3
  <2>4. PICK i \in Published : ~ (i <= n - 1)
    BY <2>2, <2>3
  <2>5. i <= n
    BY <1>3
  <2> QED
    BY <2>4, <2>5, <1>1, <1>4
<1>6. \E k \in 0..Len(writes) : Snapshots!Holds(k) /\ (k = 0 \/ k \in Published)
  BY <1>3, <1>4, <1>5 DEF Snapshots!Holds, Published, Ids, Snapshots!Published, Snapshots!Ids
<1>7. Published = Snapshots!Published
  BY DEF Published, Ids, Snapshots!Published, Snapshots!Ids
<1> QED
  BY <1>6, <1>7 DEF Snapshots!Floor, Snapshots!Holds

-----------------------------------------------------------------------------
(* What the writers' steps do to the published writes.                      *)

\* Published writes are committed.
LEMMA PublishedType == Published \subseteq 1..Len(writes)
  BY DEF Published, Ids

\* Committing publishes nothing.
LEMMA CommitFacts ==
    ASSUME PubTypeOK, NEW w \in Write, Commit(w)
    PROVE  /\ PubTypeOK' /\ Published' = Published
           /\ Len(writes') = Len(writes) + 1 /\ version' = version
<1>1. /\ Len(writes) \in Nat /\ writes' \in Seq(Write) /\ Len(writes') = Len(writes) + 1
      /\ faults' = faults /\ version' = version /\ faults \in Nat
      /\ pubs' = pubs \union {[id |-> Len(writes) + 1, version |-> 0]}
  BY DEF PubTypeOK, Commit
<1>2. Ids' = Ids \union {Len(writes) + 1} /\ Len(writes) + 1 \notin Ids
  BY <1>1 DEF Ids
<1>3. PubTypeOK'
  <2>1. Len(writes') + faults' <= MaxEvents
    BY <1>1, BoundAssumption DEF Commit, Bounded
  <2>2. pubs' \subseteq [id : Ids', version : 0..version']
    BY <1>1, <1>2 DEF PubTypeOK
  <2> QED
    BY <1>1, <2>1, <2>2 DEF PubTypeOK
<1>4. Published' = Published
  <2>1. Published' = {i \in Ids' : \A p \in pubs' : p.id = i => p.version # 0}
    BY DEF Published
  <2>2. ASSUME NEW i \in Ids
        PROVE  (\A p \in pubs' : p.id = i => p.version # 0) <=> (\A p \in pubs : p.id = i => p.version # 0)
    BY <1>1, <1>2
  <2>3. ~ (\A p \in pubs' : p.id = Len(writes) + 1 => p.version # 0)
    <3>1. [id |-> Len(writes) + 1, version |-> 0] \in pubs'
      BY <1>1
    <3> QED
      BY <3>1
  <2>4. Published' = {i \in Ids : \A p \in pubs' : p.id = i => p.version # 0}
    BY <2>1, <2>3, <1>2
  <2> QED
    BY <2>2, <2>4 DEF Published
<1> QED
  BY <1>1, <1>3, <1>4

\* Invalidating makes a new version, and may add a published write.
LEMMA InvalidateFacts ==
    ASSUME PubTypeOK, NEW p \in pubs, Invalidate(p)
    PROVE  /\ PubTypeOK' /\ Published \subseteq Published'
           /\ writes' = writes /\ version' = version + 1
<1>1. /\ writes' = writes /\ faults' = faults /\ version' = version + 1 /\ version \in Nat
      /\ pubs' = (pubs \ {p}) \union {[p EXCEPT !.version = version + 1]}
      /\ pubs \subseteq [id : Ids, version : 0..version] /\ Ids' = Ids
  BY DEF PubTypeOK, Invalidate, Ids
<1>2. pubs' \subseteq [id : Ids, version : 0..version']
  <2>1. [p EXCEPT !.version = version + 1] \in [id : Ids, version : 0..(version + 1)]
    BY <1>1
  <2>2. \A q \in pubs : q \in [id : Ids, version : 0..(version + 1)]
    BY <1>1
  <2> QED
    BY <1>1, <2>1, <2>2
<1>3. \A q \in pubs' : q \in pubs \/ q.version # 0
  BY <1>1
<1>4. Published \subseteq Published'
  BY <1>1, <1>3 DEF Published
<1> QED
  BY <1>1, <1>2, <1>4 DEF PubTypeOK

\* Handing over changes neither.
LEMMA HandOverFacts ==
    ASSUME PubTypeOK, NEW p \in pubs, HandOver(p)
    PROVE  /\ PubTypeOK' /\ Published' = Published
           /\ writes' = writes /\ version' = version
  BY DEF PubTypeOK, HandOver, Published, Ids

\* A restart publishes every committed write: nobody has an older snapshot.
LEMMA RestartFacts ==
    ASSUME PubTypeOK, RestartProcess
    PROVE  /\ PubTypeOK' /\ Published \subseteq Published'
           /\ writes' = writes /\ version' = 0
<1>1. /\ writes' = writes /\ faults' = faults + 1 /\ version' = 0 /\ pubs' = {} /\ Len(writes) \in Nat
      /\ faults \in Nat /\ Len(writes) + faults < MaxEvents
  BY DEF PubTypeOK, RestartProcess, Fault, Bounded
<1> QED
  BY <1>1, BoundAssumption DEF PubTypeOK, Published, Ids

\* A step of the threads alone.
LEMMA SamePublication ==
    ASSUME PubTypeOK, UNCHANGED pubVars
    PROVE  PubTypeOK' /\ Published' = Published /\ writes' = writes /\ version' = version
  BY DEF PubTypeOK, pubVars, Published, Ids

-----------------------------------------------------------------------------
(* The writers keep the invariant.                                          *)

\* A commit.
LEMMA CommitKeeps == ASSUME IInv, CommitWrite PROVE IInv'
<1>1. PICK w \in Write : Commit(w)
  BY DEF CommitWrite
<1>2. /\ PubTypeOK' /\ Published' = Published /\ version' = version
      /\ Len(writes') = Len(writes) + 1 /\ Len(writes) \in Nat
  BY <1>1, CommitFacts DEF IInv, CacheTypeOK, PubTypeOK
<1>3. entry' = entry /\ loading' = loading /\ thread' = thread
  BY DEF CommitWrite
<1>4. CacheTypeOK'
  <2>1. 0..Len(writes) \subseteq 0..Len(writes')
    BY <1>2
  <2> QED
    BY <1>2, <1>3, <2>1 DEF IInv, CacheTypeOK
<1> QED
  BY <1>2, <1>3, <1>4 DEF IInv, CacheIsCurrent, SingleFlight, LoadsOfVersion, Loading, LoadInv, ReadInv, FloorInv

\* An invalidation: no load in progress is of the new version.
LEMMA InvalidateKeeps == ASSUME IInv, InvalidateCache PROVE IInv'
<1>1. PICK p \in pubs : Invalidate(p)
  BY DEF InvalidateCache
<1>2. /\ PubTypeOK' /\ Published \subseteq Published' /\ writes' = writes /\ version' = version + 1 /\ version \in Nat
  BY <1>1, InvalidateFacts DEF IInv, CacheTypeOK, PubTypeOK
<1>3. entry' = NoEntry /\ loading' = loading /\ thread' = thread
  BY DEF InvalidateCache
<1>4. CacheTypeOK'
  <2>1. Len(writes) \in Nat /\ 0 \in 0..Len(writes')
    BY <1>2 DEF IInv, CacheTypeOK, PubTypeOK
  <2> QED
    BY <1>2, <1>3, <2>1 DEF IInv, CacheTypeOK, NoEntry
<1>5. /\ \A t \in Threads : Loading(t) => thread[t].version \in Nat /\ thread[t].version < version'
      /\ loading \in Int /\ loading < version' /\ version' \in Nat
  <2>1. thread \in [Threads -> [state : States, version : Nat, data : 0..Len(writes), floor : 0..Len(writes)]]
    BY DEF IInv, CacheTypeOK
  <2>2. loading \in Int /\ loading <= version
    BY DEF IInv, CacheTypeOK, LoadInv, NoLoad
  <2>3. \A t \in Threads : Loading(t) => thread[t].version <= version
    BY DEF IInv, LoadInv
  <2>4. \A t \in Threads : thread[t].version \in Nat
    BY <2>1
  <2> QED
    BY <1>2, <2>2, <2>3, <2>4
<1>6. SingleFlight'
  <2>1. LoadsOfVersion' = {}
    BY <1>3, <1>5 DEF LoadsOfVersion, Loading
  <2>2. loading' # version'
    BY <1>2, <1>3, <1>5 DEF IInv, CacheTypeOK, NoLoad
  <2> QED
    BY <2>1, <2>2 DEF SingleFlight
<1>7. CacheIsCurrent' /\ FloorInv'
  BY <1>2, <1>3 DEF IInv, CacheIsCurrent, NoEntry, FloorInv
<1>8. LoadInv'
  BY <1>3, <1>5 DEF LoadInv, Loading
<1>9. ReadInv'
  BY <1>3, <1>5 DEF ReadInv, Loading
<1> QED
  BY <1>4, <1>6, <1>7, <1>8, <1>9 DEF IInv

\* An update handed over.
LEMMA HandOverKeeps == ASSUME IInv, HandUpdateOver PROVE IInv'
<1>1. PICK p \in pubs : HandOver(p)
  BY DEF HandUpdateOver
<1>2. /\ PubTypeOK' /\ Published' = Published /\ version' = version /\ writes' = writes
  BY <1>1, HandOverFacts DEF IInv, CacheTypeOK
<1>3. entry' = entry /\ loading' = loading /\ thread' = thread
  BY DEF HandUpdateOver
<1> QED
  BY <1>2, <1>3 DEF IInv, CacheTypeOK, CacheIsCurrent, SingleFlight, LoadsOfVersion, Loading, LoadInv, ReadInv, FloorInv

\* A restart.
LEMMA RestartKeeps == ASSUME IInv, RestartCache PROVE IInv'
<1>1. /\ PubTypeOK' /\ Published \subseteq Published' /\ writes' = writes /\ version' = 0
  BY RestartFacts DEF IInv, CacheTypeOK, RestartCache
<1>2. /\ entry' = NoEntry /\ loading' = NoLoad
      /\ \A t \in Threads : /\ ~ (thread'[t].state \in {"asked", "load", "store"})
                            /\ thread'[t] \in [state : States, version : Nat, data : 0..Len(writes), floor : 0..Len(writes)]
      /\ thread' = [t \in Threads |-> thread'[t]]
  <2>1. Len(writes) \in Nat /\ 0 \in 0..Len(writes)
    BY DEF IInv, CacheTypeOK, PubTypeOK
  <2>2. thread \in [Threads -> [state : States, version : Nat, data : 0..Len(writes), floor : 0..Len(writes)]]
    BY DEF IInv, CacheTypeOK
  <2>3. entry' = NoEntry /\ loading' = NoLoad
    BY DEF RestartCache
  <2>4. ASSUME NEW t \in Threads
        PROVE  /\ ~ (thread'[t].state \in {"asked", "load", "store"})
               /\ thread'[t] \in [state : States, version : Nat, data : 0..Len(writes), floor : 0..Len(writes)]
    <3>1. thread'[t] = IF t \in Helpers THEN Idle
                       ELSE IF thread[t].state \in {"asked", "load", "store"} THEN Thread("failed", 0, 0, 0)
                       ELSE thread[t]
      BY DEF RestartCache
    <3> QED
      BY <2>1, <2>2, <3>1 DEF States, Thread, Idle
  <2>5. thread' = [t \in Threads |-> thread'[t]]
    BY DEF RestartCache
  <2> QED
    BY <2>3, <2>4, <2>5
<1>3. CacheTypeOK'
  <2>1. Len(writes) \in Nat /\ 0 \in 0..Len(writes')
    BY <1>1 DEF IInv, CacheTypeOK, PubTypeOK
  <2>2. thread' \in [Threads -> [state : States, version : Nat, data : 0..Len(writes), floor : 0..Len(writes)]]
    BY <1>2
  <2> QED
    BY <1>1, <1>2, <2>1, <2>2 DEF CacheTypeOK, NoEntry
<1>4. CacheIsCurrent' /\ SingleFlight' /\ LoadInv' /\ ReadInv' /\ FloorInv'
  <2>1. LoadsOfVersion' = {} /\ \A t \in Threads : ~ Loading(t)'
    BY <1>2 DEF LoadsOfVersion, Loading
  <2>2. \A r \in Readers : r \in Threads
    BY DEF Threads
  <2>3. CacheIsCurrent' /\ SingleFlight' /\ LoadInv'
    BY <1>1, <1>2, <2>1 DEF CacheIsCurrent, NoEntry, SingleFlight, NoLoad, LoadInv
  <2>4. ReadInv' /\ FloorInv'
    BY <1>2, <2>2 DEF ReadInv, FloorInv
  <2> QED
    BY <2>3, <2>4
<1> QED
  BY <1>3, <1>4 DEF IInv

-----------------------------------------------------------------------------
(* The threads keep the invariant.  A step changes one thread (HitStale two, *)
(* one after the other), the mark of the load, and perhaps the entry.        *)

ThreadType == [state : States, version : Nat, data : 0..Len(writes), floor : 0..Len(writes)]
InLoad(x)  == x.state \in {"load", "store"}

\* A thread in state x is as the invariant wants it.
GoodThread(t, x) ==
    /\ x \in ThreadType
    /\ InLoad(x) => x.version <= version
    /\ x.state = "store" /\ x.version = version => \A i \in Published : i <= x.data
    /\ t \in Readers =>
          /\ x.state \in {"asked", "load", "store"} => x.floor \in Published \union {0}
          /\ x.state = "store" => x.floor <= x.data

\* The mark follows the thread: it stays with a thread that does not begin or end,
\* names a load that begins, and is taken back by Done.
MarkFollows(t, x) ==
    \/ loading' = loading /\ (InLoad(x) <=> Loading(t)) /\ x.version = thread[t].version
    \/ loading' = loading /\ ~ InLoad(x) /\ ~ Loading(t)
    \/ loading' = version /\ loading # version /\ InLoad(x) /\ x.version = version /\ ~ Loading(t)
    \/ loading' = Done(t) /\ ~ InLoad(x) /\ Loading(t)

\* A good entry.
GoodEntry(e) ==
    /\ e \in [data : 0..Len(writes), age : {"none", "fresh", "stale"}]
    /\ e.age # "none" => \A i \in Published : i <= e.data

\* What the invariant says of one thread, of the entry and of the mark.
LEMMA InvariantGives ==
    ASSUME IInv
    PROVE  /\ \A t \in Threads : GoodThread(t, thread[t])
           /\ GoodEntry(entry)
           /\ thread \in [Threads -> ThreadType]
           /\ Len(writes) \in Nat /\ version \in Nat /\ loading \in Int
           /\ loading <= version
<1>1. thread \in [Threads -> ThreadType] /\ Len(writes) \in Nat /\ version \in Nat /\ loading \in Int
  BY DEF IInv, CacheTypeOK, PubTypeOK, ThreadType, NoLoad
<1>2. GoodEntry(entry) /\ loading <= version
  BY DEF IInv, CacheTypeOK, CacheIsCurrent, GoodEntry, LoadInv
<1>3. ASSUME NEW t \in Threads PROVE GoodThread(t, thread[t])
  <2>1. thread[t] \in ThreadType
    BY <1>1
  <2> QED
    BY <2>1 DEF IInv, LoadInv, ReadInv, FloorInv, GoodThread, InLoad, Loading
<1> QED
  BY <1>1, <1>2, <1>3

\* A step in which one thread begins, continues or ends a load at most.
LEMMA LoaderStep ==
    ASSUME IInv, PubTypeOK', UNCHANGED <<writes, pubs, version>>, GoodEntry(entry'),
           NEW t \in Threads, NEW x, GoodThread(t, x), MarkFollows(t, x),
           DOMAIN thread' = Threads, thread' = [u \in Threads |-> thread'[u]], thread'[t] = x,
           \A u \in Threads : u # t =>
               GoodThread(u, thread'[u]) /\ (thread'[u] = thread[u] \/ (~ InLoad(thread[u]) /\ ~ InLoad(thread'[u])))
    PROVE  IInv'
<1>1. /\ Published' = Published /\ Ids' = Ids /\ writes' = writes /\ version' = version
  BY DEF Published, Ids
<1>2. /\ thread \in [Threads -> ThreadType] /\ \A u \in Threads : GoodThread(u, thread[u])
      /\ version \in Nat /\ loading \in Int /\ loading <= version
  BY InvariantGives
<1>3. thread'[t] = x /\ \A u \in Threads : u # t =>
         thread'[u] = thread[u] \/ (~ InLoad(thread[u]) /\ ~ InLoad(thread'[u]))
  OBVIOUS
<1>4. \A u \in Threads : GoodThread(u, thread'[u])
  OBVIOUS
<1>5. SingleFlight' /\ loading' \in Nat \union {NoLoad} /\ loading' <= version
  <2>1. \A u \in Threads : u # t => (u \in LoadsOfVersion' <=> u \in LoadsOfVersion)
    BY <1>1, <1>3 DEF LoadsOfVersion, Loading, InLoad
  <2>2. t \in LoadsOfVersion' <=> InLoad(x) /\ x.version = version
    BY <1>1, <1>3 DEF LoadsOfVersion, Loading, InLoad
  <2>3. t \in LoadsOfVersion <=> Loading(t) /\ thread[t].version = version
    BY DEF LoadsOfVersion
  <2>4. LoadsOfVersion \subseteq Threads /\ LoadsOfVersion' \subseteq Threads
    BY DEF LoadsOfVersion
  <2>5. /\ \A u, v \in LoadsOfVersion : u = v
        /\ loading = version <=> LoadsOfVersion # {}
        /\ loading \in Nat \union {NoLoad}
    BY DEF IInv, SingleFlight, CacheTypeOK
  <2>6. CASE loading' = loading /\ (InLoad(x) <=> Loading(t)) /\ x.version = thread[t].version
    <3>1. LoadsOfVersion' = LoadsOfVersion
      BY <2>6, <2>1, <2>2, <2>3, <2>4
    <3> QED
      BY <3>1, <2>5, <2>6, <1>1, <1>2 DEF SingleFlight
  <2>7. CASE loading' = loading /\ ~ InLoad(x) /\ ~ Loading(t)
    <3>1. LoadsOfVersion' = LoadsOfVersion
      BY <2>7, <2>1, <2>2, <2>3, <2>4
    <3> QED
      BY <3>1, <2>5, <2>7, <1>1, <1>2 DEF SingleFlight
  <2>8. CASE loading' = version /\ loading # version /\ InLoad(x) /\ x.version = version /\ ~ Loading(t)
    <3>1. LoadsOfVersion' = {t}
      BY <2>8, <2>1, <2>2, <2>4, <2>5
    <3> QED
      BY <3>1, <2>8, <1>1, <1>2 DEF SingleFlight
  <2>9. CASE loading' = Done(t) /\ ~ InLoad(x) /\ Loading(t)
    <3>1. CASE thread[t].version = version
      <4>1. loading = version /\ LoadsOfVersion' = {}
        BY <2>9, <3>1, <2>1, <2>2, <2>3, <2>4, <2>5
      <4> QED
        BY <4>1, <2>9, <3>1, <1>1, <1>2 DEF SingleFlight, Done, NoLoad
    <3>2. CASE thread[t].version # version
      <4>1. LoadsOfVersion' = LoadsOfVersion
        BY <2>9, <3>2, <2>1, <2>2, <2>3, <2>4
      <4>2. loading' = version <=> loading = version
        BY <2>9, <3>2, <1>2 DEF Done, NoLoad
      <4>3. loading' \in {loading, NoLoad}
        BY <2>9 DEF Done
      <4> QED
        BY <4>1, <4>2, <4>3, <2>5, <1>1, <1>2 DEF SingleFlight, NoLoad
    <3> QED
      BY <3>1, <3>2
  <2> QED
    BY <2>6, <2>7, <2>8, <2>9 DEF MarkFollows
<1>6. thread' \in [Threads -> ThreadType]
  <2>1. \A u \in Threads : thread'[u] \in ThreadType
    BY <1>4 DEF GoodThread
  <2> QED
    BY <2>1
<1>7. CacheTypeOK'
  BY <1>1, <1>5, <1>6 DEF CacheTypeOK, GoodEntry, ThreadType
<1>8. CacheIsCurrent'
  BY <1>1 DEF CacheIsCurrent, GoodEntry
<1>9. LoadInv'
  BY <1>1, <1>4, <1>5 DEF LoadInv, GoodThread, InLoad, Loading
<1>10. ReadInv'
  BY <1>1, <1>4 DEF ReadInv, GoodThread
<1>11. FloorInv'
  BY <1>4, <1>1 DEF FloorInv, GoodThread, Threads
<1> QED
  BY <1>5, <1>7, <1>8, <1>9, <1>10, <1>11 DEF IInv

\* A step of one thread.
LEMMA OneThread ==
    ASSUME IInv, PubTypeOK', UNCHANGED <<writes, pubs, version>>, GoodEntry(entry'),
           NEW t \in Threads, NEW x, GoodThread(t, x), MarkFollows(t, x),
           thread' = [thread EXCEPT ![t] = x]
    PROVE  IInv'
<1>1. thread \in [Threads -> ThreadType] /\ \A u \in Threads : GoodThread(u, thread[u])
  BY InvariantGives
<1>2. /\ DOMAIN thread' = Threads /\ thread' = [u \in Threads |-> thread'[u]] /\ thread'[t] = x
      /\ \A u \in Threads : u # t => thread'[u] = thread[u]
  BY <1>1
<1>3. \A u \in Threads : u # t =>
         GoodThread(u, thread'[u]) /\ (thread'[u] = thread[u] \/ (~ InLoad(thread[u]) /\ ~ InLoad(thread'[u])))
  <2>1. ASSUME NEW u \in Threads, u # t PROVE GoodThread(u, thread'[u]) /\ thread'[u] = thread[u]
    <3>1. thread'[u] = thread[u] /\ GoodThread(u, thread[u])
      BY <1>1, <1>2, <2>1
    <3> QED
      BY <3>1
  <2> QED
    BY <2>1
<1> QED
  BY <1>2, <1>3, LoaderStep

\* A failure counts as an event and changes nothing else of the publication.
LEMMA FaultFacts ==
    ASSUME PubTypeOK, NEW f, Fault(f), UNCHANGED <<writes, pubs, version>>
    PROVE  PubTypeOK'
  BY BoundAssumption DEF PubTypeOK, Fault, Bounded, Ids

\* A request is made: it remembers the writes published so far.
LEMMA RequestKeeps == ASSUME IInv, NEW r \in Readers, Request(r) PROVE IInv'
<1> DEFINE x == Thread("asked", 0, 0, Snapshots!Floor)
<1>1. /\ thread' = [thread EXCEPT ![r] = x] /\ UNCHANGED <<pubVars, entry, loading>>
      /\ thread[r].state \in {"idle", "failed"} /\ r \in Threads
  BY DEF Request, Threads
<1>2. PubTypeOK' /\ UNCHANGED <<writes, pubs, version>>
  BY <1>1, SamePublication DEF IInv, CacheTypeOK, pubVars
<1>3. GoodThread(r, x) /\ GoodEntry(entry)
  BY InvariantGives, FloorFacts DEF GoodThread, ThreadType, Thread, States, InLoad
<1>4. MarkFollows(r, x)
  BY <1>1 DEF MarkFollows, InLoad, Loading, Thread
<1> HIDE DEF x
<1> QED
  BY <1>1, <1>2, <1>3, <1>4, OneThread

\* A request that does not load is answered, fails or is taken.
LEMMA IdleGood ==
    ASSUME IInv, NEW t \in Threads, NEW s \in {"idle", "failed", "answered"}, NEW n \in 0..Len(writes)
    PROVE  GoodThread(t, Thread(s, 0, n, 0))
  BY InvariantGives DEF GoodThread, ThreadType, Thread, States, InLoad

\* A hit.
LEMMA HitKeeps == ASSUME IInv, NEW r \in Readers, Hit(r) PROVE IInv'
<1> DEFINE x == Thread("answered", 0, entry.data, 0)
<1>1. /\ thread' = [thread EXCEPT ![r] = x] /\ UNCHANGED <<pubVars, entry, loading>>
      /\ thread[r].state = "asked" /\ r \in Threads
  BY DEF Hit, Answered, Threads
<1>2. PubTypeOK' /\ UNCHANGED <<writes, pubs, version>>
  BY <1>1, SamePublication DEF IInv, CacheTypeOK, pubVars
<1>3. GoodThread(r, x) /\ GoodEntry(entry)
  BY <1>1, InvariantGives, IdleGood DEF GoodEntry
<1>4. MarkFollows(r, x)
  BY <1>1 DEF MarkFollows, InLoad, Loading, Thread
<1> HIDE DEF x
<1> QED
  BY <1>1, <1>2, <1>3, <1>4, OneThread

\* A miss: no thread loads this version yet.
LEMMA MissKeeps == ASSUME IInv, NEW r \in Readers, Miss(r) PROVE IInv'
<1> DEFINE x == Thread("load", version, 0, thread[r].floor)
<1>1. /\ UNCHANGED <<pubVars, entry>> /\ loading' = version /\ loading # version
      /\ thread[r].state = "asked" /\ r \in Threads
  BY DEF Miss, Threads
<1>2. PubTypeOK' /\ UNCHANGED <<writes, pubs, version>>
  BY <1>1, SamePublication DEF IInv, CacheTypeOK, pubVars
<1>3. GoodThread(r, thread[r]) /\ thread[r] \in ThreadType /\ Len(writes) \in Nat /\ version \in Nat /\ GoodEntry(entry)
  BY <1>1, InvariantGives DEF GoodThread
<1>4. GoodThread(r, x)
  BY <1>1, <1>3 DEF GoodThread, ThreadType, Thread, States, InLoad
<1>5. MarkFollows(r, x)
  BY <1>1 DEF MarkFollows, InLoad, Loading, Thread
<1>6. thread' = [thread EXCEPT ![r] = x]
  BY DEF Miss, Begin, Thread
<1> HIDE DEF x
<1> QED
  BY <1>1, <1>2, <1>3, <1>4, <1>5, <1>6, OneThread

\* The store is read.
LEMMA QueryKeeps == ASSUME IInv, NEW t \in Threads, Query(t) PROVE IInv'
<1> DEFINE x == [thread[t] EXCEPT !.state = "store", !.data = Len(writes)]
<1>1. UNCHANGED <<pubVars, entry, loading>> /\ thread[t].state = "load"
  BY DEF Query
<1>2. PubTypeOK' /\ UNCHANGED <<writes, pubs, version>>
  BY <1>1, SamePublication DEF IInv, CacheTypeOK, pubVars
<1>3. /\ GoodThread(t, thread[t]) /\ thread \in [Threads -> ThreadType] /\ thread[t] \in ThreadType
      /\ Len(writes) \in Nat /\ version \in Nat /\ GoodEntry(entry)
  BY InvariantGives DEF GoodThread
<1>4. x.state = "store" /\ x.data = Len(writes) /\ x.version = thread[t].version /\ x.floor = thread[t].floor
  BY <1>3 DEF ThreadType
<1>5. thread' = [thread EXCEPT ![t] = x]
  BY <1>3, <1>4 DEF Query, ThreadType
<1>8. x \in ThreadType
  <2>1. "store" \in States /\ Len(writes) \in 0..Len(writes)
    BY <1>3 DEF States
  <2> QED
    BY <1>3, <2>1 DEF ThreadType
<1> HIDE DEF x
<1>6. GoodThread(t, x)
  <2>1. Published \subseteq 1..Len(writes) /\ (Published \union {0}) \subseteq 0..Len(writes)
    BY PublishedType, <1>3
  <2>2. thread[t].floor \in 0..Len(writes) /\ thread[t].version \in Nat
    BY <1>3 DEF ThreadType
  <2>3. x \in ThreadType
    BY <1>3, <1>8
  <2>4. InLoad(x) => x.version <= version
    BY <1>1, <1>3, <1>4 DEF GoodThread, InLoad
  <2>5. \A i \in Published : i <= x.data
    BY <1>3, <1>4, <2>1
  <2>6. t \in Readers => x.floor \in Published \union {0} /\ x.floor <= x.data
    BY <1>1, <1>3, <1>4, <2>2 DEF GoodThread
  <2> QED
    BY <2>3, <2>4, <2>5, <2>6 DEF GoodThread
<1>7. MarkFollows(t, x)
  BY <1>1, <1>4 DEF MarkFollows, InLoad, Loading
<1> QED
  BY <1>1, <1>2, <1>3, <1>5, <1>6, <1>7, OneThread

\* What was read is kept if its version still stands.
LEMMA StoreKeeps == ASSUME IInv, NEW t \in Threads, Store(t) PROVE IInv'
<1> DEFINE x == IF t \in Helpers THEN Idle ELSE Thread("answered", 0, thread[t].data, 0)
<1>1. /\ UNCHANGED pubVars /\ thread[t].state = "store" /\ entry' = Stored(t) /\ loading' = Done(t)
      /\ thread' = [thread EXCEPT ![t] = x]
  <2>1. CASE t \in Helpers
    BY <2>1 DEF Store
  <2>2. CASE t \notin Helpers
    BY <2>2 DEF Store, Answered
  <2> QED
    BY <2>1, <2>2
<1>2. PubTypeOK' /\ UNCHANGED <<writes, pubs, version>>
  BY <1>1, SamePublication DEF IInv, CacheTypeOK, pubVars
<1>3. GoodThread(t, thread[t]) /\ thread[t] \in ThreadType /\ Len(writes) \in Nat /\ GoodEntry(entry)
  BY InvariantGives DEF GoodThread
<1>4. thread[t].data \in 0..Len(writes) /\ 0 \in 0..Len(writes)
  BY <1>3 DEF ThreadType
<1>5. GoodThread(t, x)
  <2>1. GoodThread(t, Thread("idle", 0, 0, 0)) /\ GoodThread(t, Thread("answered", 0, thread[t].data, 0))
    BY <1>4, IdleGood
  <2> QED
    BY <2>1 DEF Idle
<1>6. GoodEntry(entry')
  BY <1>1, <1>3, <1>4 DEF Stored, GoodEntry, GoodThread
<1>7. MarkFollows(t, x)
  BY <1>1 DEF MarkFollows, InLoad, Loading, Thread, Idle
<1> HIDE DEF x
<1> QED
  BY <1>1, <1>2, <1>5, <1>6, <1>7, OneThread

\* A stale hit: the request is answered and a background load begins.
LEMMA HitStaleKeeps == ASSUME IInv, NEW r \in Readers, NEW h \in Helpers, HitStale(r, h) PROVE IInv'
<1> DEFINE x == Thread("load", version, 0, 0)
           y == Thread("answered", 0, entry.data, 0)
<1>1. /\ UNCHANGED <<pubVars, entry>> /\ loading' = version /\ loading # version
      /\ thread[r].state = "asked" /\ thread[h].state = "idle" /\ r \in Threads /\ h \in Threads
      /\ thread' = [[thread EXCEPT ![r] = y] EXCEPT ![h] = x]
  BY DEF HitStale, Answered, Threads
<1>2. PubTypeOK' /\ UNCHANGED <<writes, pubs, version>>
  BY <1>1, SamePublication DEF IInv, CacheTypeOK, pubVars
<1>3. /\ thread \in [Threads -> ThreadType] /\ \A u \in Threads : GoodThread(u, thread[u])
      /\ GoodEntry(entry) /\ Len(writes) \in Nat /\ version \in Nat
  BY InvariantGives
<1>4. GoodThread(r, y)
  BY <1>1, <1>3, IdleGood DEF GoodEntry
<1>5. h \notin Readers
  BY ThreadAssumption
<1>6. GoodThread(h, x)
  BY <1>3, <1>5 DEF GoodThread, ThreadType, Thread, States, InLoad
<1>7. MarkFollows(h, x)
  BY <1>1 DEF MarkFollows, InLoad, Loading, Thread
<1>8. ~ InLoad(thread[r]) /\ ~ InLoad(y)
  BY <1>1 DEF InLoad, Thread
<1> HIDE DEF x, y
<1>9. /\ DOMAIN thread' = Threads /\ thread' = [u \in Threads |-> thread'[u]]
      /\ thread'[h] = x /\ thread'[r] = y /\ \A u \in Threads : u # h /\ u # r => thread'[u] = thread[u]
  BY <1>1, <1>3
<1>10. \A u \in Threads : u # h =>
           GoodThread(u, thread'[u]) /\ (thread'[u] = thread[u] \/ (~ InLoad(thread[u]) /\ ~ InLoad(thread'[u])))
  <2>1. ASSUME NEW u \in Threads, u # h, u # r PROVE GoodThread(u, thread'[u]) /\ thread'[u] = thread[u]
    <3>1. thread'[u] = thread[u] /\ GoodThread(u, thread[u])
      BY <1>3, <1>9, <2>1
    <3> QED
      BY <3>1
  <2>2. GoodThread(r, thread'[r]) /\ ~ InLoad(thread[r]) /\ ~ InLoad(thread'[r])
    BY <1>4, <1>8, <1>9
  <2> QED
    BY <2>1, <2>2
<1> QED
  BY <1>1, <1>2, <1>3, <1>6, <1>7, <1>9, <1>10, LoaderStep

\* A failed load of a request.
LEMMA LoadFailsKeeps == ASSUME IInv, NEW r \in Readers, LoadFails(r) PROVE IInv'
<1> DEFINE x == Thread("failed", 0, 0, 0)
<1>1. /\ thread' = [thread EXCEPT ![r] = x] /\ UNCHANGED <<writes, pubs, version, entry>>
      /\ Fault("read_failure") /\ thread[r].state = "load" /\ loading' = Done(r) /\ r \in Threads
  BY DEF LoadFails, Threads
<1>2. PubTypeOK'
  BY <1>1, FaultFacts DEF IInv, CacheTypeOK
<1>3. GoodThread(r, x) /\ GoodEntry(entry)
  BY <1>1, InvariantGives, IdleGood
<1>4. MarkFollows(r, x)
  BY <1>1 DEF MarkFollows, InLoad, Loading, Thread
<1> HIDE DEF x
<1> QED
  BY <1>1, <1>2, <1>3, <1>4, OneThread

\* A failed load in the background.
LEMMA HelperFailsKeeps == ASSUME IInv, NEW h \in Helpers, HelperFails(h) PROVE IInv'
<1>1. /\ thread' = [thread EXCEPT ![h] = Idle] /\ UNCHANGED <<pubVars, entry>>
      /\ thread[h].state = "load" /\ loading' = Done(h) /\ h \in Threads
  BY DEF HelperFails, Threads
<1>2. PubTypeOK' /\ UNCHANGED <<writes, pubs, version>>
  BY <1>1, SamePublication DEF IInv, CacheTypeOK, pubVars
<1>3. GoodThread(h, Idle) /\ GoodEntry(entry)
  BY <1>1, InvariantGives, IdleGood DEF Idle
<1>4. MarkFollows(h, Idle)
  BY <1>1 DEF MarkFollows, InLoad, Loading, Thread, Idle
<1> QED
  BY <1>1, <1>2, <1>3, <1>4, OneThread

\* An answer is taken.
LEMMA TakeKeeps == ASSUME IInv, NEW r \in Readers, TakeAnswer(r) PROVE IInv'
<1>1. /\ thread' = [thread EXCEPT ![r] = Idle] /\ UNCHANGED <<pubVars, entry, loading>>
      /\ thread[r].state \in {"answered", "failed"} /\ r \in Threads
  BY DEF TakeAnswer, Threads
<1>2. PubTypeOK' /\ UNCHANGED <<writes, pubs, version>>
  BY <1>1, SamePublication DEF IInv, CacheTypeOK, pubVars
<1>3. GoodThread(r, Idle) /\ GoodEntry(entry)
  BY <1>1, InvariantGives, IdleGood DEF Idle
<1>4. MarkFollows(r, Idle)
  BY <1>1 DEF MarkFollows, InLoad, Loading, Thread, Idle
<1> QED
  BY <1>1, <1>2, <1>3, <1>4, OneThread

\* Time passes.
LEMMA AgeKeeps == ASSUME IInv, Age PROVE IInv'
<1>1. UNCHANGED <<pubVars, loading, thread>> /\ entry.age # "none"
  BY DEF Age
<1>2. PubTypeOK' /\ Published' = Published /\ writes' = writes /\ version' = version
  BY <1>1, SamePublication DEF IInv, CacheTypeOK
<1>3. GoodEntry(entry) /\ Len(writes) \in Nat
  BY InvariantGives
<1>4. GoodEntry(entry')
  BY <1>1, <1>3 DEF Age, GoodEntry, NoEntry
<1>5. CacheTypeOK' /\ CacheIsCurrent'
  BY <1>1, <1>2, <1>4 DEF IInv, CacheTypeOK, CacheIsCurrent, GoodEntry
<1> QED
  BY <1>1, <1>2, <1>5 DEF IInv, SingleFlight, LoadsOfVersion, Loading, LoadInv, ReadInv, FloorInv

-----------------------------------------------------------------------------
(* The invariant.                                                           *)

\* The initial states.
LEMMA InitInv == CacheInit => IInv
<1> SUFFICES ASSUME CacheInit PROVE IInv
  OBVIOUS
<1>1. /\ writes = <<>> /\ pubs = {} /\ version \in {0, 1} /\ faults = 0
      /\ entry = NoEntry /\ loading = NoLoad /\ thread = [t \in Threads |-> Idle] /\ Len(writes) = 0
  BY DEF CacheInit, PubInit
<1>2. CacheTypeOK
  <2>1. PubTypeOK
    BY <1>1, BoundAssumption DEF PubTypeOK, Ids
  <2>2. Idle \in [state : States, version : Nat, data : 0..Len(writes), floor : 0..Len(writes)]
    BY <1>1 DEF Idle, Thread, States
  <2> QED
    BY <1>1, <2>1, <2>2 DEF CacheTypeOK, NoEntry
<1>3. \A t \in Threads : thread[t] = Idle /\ ~ Loading(t)
  BY <1>1 DEF Idle, Thread, Loading
<1>4. CacheIsCurrent /\ SingleFlight /\ LoadInv
  BY <1>1, <1>3 DEF CacheIsCurrent, NoEntry, SingleFlight, LoadsOfVersion, NoLoad, LoadInv
<1>5. ReadInv /\ FloorInv
  BY <1>3 DEF ReadInv, FloorInv, Idle, Thread, Threads
<1> QED
  BY <1>2, <1>4, <1>5 DEF IInv

\* Every step.
LEMMA NextInv == IInv /\ [CacheNext]_cacheVars => IInv'
<1> SUFFICES ASSUME IInv, [CacheNext]_cacheVars PROVE IInv'
  OBVIOUS
<1>1. CASE CommitWrite \/ InvalidateCache \/ HandUpdateOver \/ RestartCache
  BY <1>1, CommitKeeps, InvalidateKeeps, HandOverKeeps, RestartKeeps
<1>2. CASE Age
  BY <1>2, AgeKeeps
<1>3. CASE \E r \in Readers : Request(r) \/ ReaderStep(r) \/ TakeAnswer(r) \/ LoadFails(r)
  BY <1>3, RequestKeeps, HitKeeps, HitStaleKeeps, MissKeeps, TakeKeeps, LoadFailsKeeps DEF ReaderStep
<1>4. CASE \E t \in Threads : LoadStep(t)
  BY <1>4, QueryKeeps, StoreKeeps DEF LoadStep
<1>5. CASE \E h \in Helpers : HelperFails(h)
  BY <1>5, HelperFailsKeeps
<1>6. CASE UNCHANGED cacheVars
  <2>1. UNCHANGED <<pubVars, entry, loading, thread>>
    BY <1>6 DEF cacheVars
  <2>2. PubTypeOK' /\ Published' = Published /\ writes' = writes /\ version' = version
    BY <2>1, SamePublication DEF IInv, CacheTypeOK
  <2> QED
    BY <2>1, <2>2 DEF IInv, CacheTypeOK, CacheIsCurrent, SingleFlight, LoadsOfVersion, Loading, LoadInv, ReadInv, FloorInv
<1> QED
  BY <1>1, <1>2, <1>3, <1>4, <1>5, <1>6 DEF CacheNext

\* The invariant holds always.
THEOREM CacheInvariant == CacheSpec => []IInv
<1> QED
  BY InitInv, NextInv, PTL DEF CacheSpec

\* CacheIsCurrent, for any requests, background loads, writes and faults: what the
\* cache keeps, fresh or stale, holds every write whose publication began
\* (read_through_cache.py get_or_load, invalidate).
THEOREM CacheStaysCurrent == CacheSpec => []CacheIsCurrent
<1>1. IInv => CacheIsCurrent
  BY DEF IInv
<1> QED
  BY <1>1, CacheInvariant, PTL

\* SingleFlight, for any requests and background loads: a version is loaded once at a
\* time, and whoever waits waits for a thread that loads it (get_or_load, _refresh).
THEOREM LoadsOnce == CacheSpec => []SingleFlight
<1>1. IInv => SingleFlight
  BY DEF IInv
<1> QED
  BY <1>1, CacheInvariant, PTL

-----------------------------------------------------------------------------
(* Refinement.                                                              *)

Read == [r \in Readers |-> Seen(thread[r])]

\* A request's abstract state, by its own.
LEMMA SeenFacts ==
    ASSUME NEW x
    PROVE  /\ x.state = "idle" => Seen(x) = [state |-> "none", n |-> 0]
           /\ x.state \in {"asked", "load", "store"} => Seen(x) = [state |-> "asked", n |-> x.floor]
           /\ x.state = "answered" => Seen(x) = [state |-> "answered", n |-> x.data]
           /\ x.state = "failed" => Seen(x) = [state |-> "failed", n |-> 0]
<1>1. x.state = "idle" => Seen(x) = [state |-> "none", n |-> 0]
  BY DEF Seen
<1>2. x.state = "asked" => Seen(x) = [state |-> "asked", n |-> x.floor]
  BY DEF Seen
<1>3. x.state = "load" => Seen(x) = [state |-> "asked", n |-> x.floor]
  BY DEF Seen
<1>4. x.state = "store" => Seen(x) = [state |-> "asked", n |-> x.floor]
  BY DEF Seen
<1>5. x.state = "answered" => Seen(x) = [state |-> "answered", n |-> x.data]
  BY DEF Seen
<1>6. x.state = "failed" => Seen(x) = [state |-> "failed", n |-> 0]
  BY DEF Seen
<1> QED
  BY <1>1, <1>2, <1>3, <1>4, <1>5, <1>6

\* One request changes.
LEMMA ReadExcept ==
    ASSUME thread \in [Threads -> ThreadType], NEW t \in Threads, NEW x,
           thread' = [thread EXCEPT ![t] = x]
    PROVE  /\ t \in Readers => Read' = [Read EXCEPT ![t] = Seen(x)]
           /\ t \notin Readers => Read' = Read
<1>1. \A r \in Readers : thread'[r] = IF r = t THEN x ELSE thread[r]
  BY DEF Threads
<1>2. Read' = [r \in Readers |-> Seen(thread'[r])]
  BY DEF Read, Seen
<1>3. \A r \in Readers : Seen(thread'[r]) = IF r = t THEN Seen(x) ELSE Seen(thread[r])
  BY <1>1
<1>4. CASE t \in Readers
  <2>1. [Read EXCEPT ![t] = Seen(x)] = [r \in Readers |-> IF r = t THEN Seen(x) ELSE Seen(thread[r])]
    BY DEF Read
  <2> QED
    BY <1>2, <1>3, <1>4, <2>1
<1>5. CASE t \notin Readers
  <2>1. \A r \in Readers : Seen(thread'[r]) = Seen(thread[r])
    BY <1>3, <1>5
  <2> QED
    BY <1>2, <1>5, <2>1 DEF Read
<1> QED
  BY <1>4, <1>5

\* Snapshots speaks of the same publication.
LEMMA SamePublicationModule ==
    /\ Snapshots!pubVars = pubVars
    /\ \A w : Snapshots!Commit(w) <=> Commit(w)
    /\ \A p : (Snapshots!Invalidate(p) <=> Invalidate(p)) /\ (Snapshots!HandOver(p) <=> HandOver(p))
    /\ \A f : Snapshots!Fault(f) <=> Fault(f)
    /\ Snapshots!RestartProcess <=> RestartProcess
    /\ Snapshots!PubInit <=> PubInit
    /\ Snapshots!Write = Write
  BY DEF Snapshots!pubVars, pubVars, Snapshots!Commit, Commit, Snapshots!Invalidate, Invalidate,
         Snapshots!HandOver, HandOver, Snapshots!Fault, Fault, Snapshots!Bounded, Bounded,
         Snapshots!RestartProcess, RestartProcess, Snapshots!PubInit, PubInit, Snapshots!Write, Write

\* The initial states.
LEMMA ReadInitially == CacheInit => Snapshots!ReadInit
<1> SUFFICES ASSUME CacheInit PROVE Snapshots!ReadInit
  OBVIOUS
<1>1. Snapshots!PubInit
  BY SamePublicationModule DEF CacheInit
<1>2. \A r \in Readers : thread[r] = Idle /\ Idle.state = "idle"
  BY DEF CacheInit, Threads, Idle, Thread
<1>3. \A r \in Readers : Seen(thread[r]) = Snapshots!NoRead
  BY <1>2, SeenFacts DEF Snapshots!NoRead
<1> QED
  BY <1>1, <1>3 DEF Snapshots!ReadInit

\* A request asks.
LEMMA RequestAsks == ASSUME IInv, NEW r \in Readers, Request(r) PROVE Snapshots!Ask(r)
<1>1. thread \in [Threads -> ThreadType] /\ r \in Threads
  BY InvariantGives DEF Threads
<1>2. Seen(thread[r]).state \notin {"asked", "answered"}
  BY SeenFacts DEF Request
<1>3. Read' = [Read EXCEPT ![r] = Seen(Thread("asked", 0, 0, Snapshots!Floor))]
  BY <1>1, ReadExcept DEF Request
<1>4. Seen(Thread("asked", 0, 0, Snapshots!Floor)) = Snapshots!Asking
  BY SeenFacts DEF Thread, Snapshots!Asking, Snapshots!Asked
<1>5. Snapshots!pubVars' = Snapshots!pubVars
  BY SamePublicationModule DEF Request, pubVars, Snapshots!pubVars
<1> QED
  BY <1>2, <1>3, <1>4, <1>5 DEF Snapshots!Ask, Read

\* An answer that holds what was published when the request was made is a reply.
LEMMA Replies ==
    ASSUME IInv, NEW r \in Readers, thread[r].state \in {"asked", "load", "store"},
           NEW n \in 0..Len(writes), thread[r].floor <= n,
           Read' = [Read EXCEPT ![r] = Seen(Thread("answered", 0, n, 0))], UNCHANGED pubVars
    PROVE  Snapshots!Reply(r)
<1>1. Seen(thread[r]).state = "asked" /\ Seen(thread[r]).n = thread[r].floor
  BY SeenFacts
<1>2. Seen(Thread("answered", 0, n, 0)) = Snapshots!Answer(n)
  BY SeenFacts DEF Thread, Snapshots!Answer
<1>3. n \in Seen(thread[r]).n..Len(writes)
  <2>1. thread[r].floor \in 0..Len(writes) /\ Len(writes) \in Nat
    BY InvariantGives DEF Threads, ThreadType
  <2> QED
    BY <1>1, <2>1
<1>4. Read[r] = Seen(thread[r])
  BY DEF Read
<1>5. UNCHANGED Snapshots!pubVars
  BY SamePublicationModule DEF pubVars, Snapshots!pubVars
<1> QED
  BY <1>1, <1>2, <1>3, <1>4, <1>5 DEF Snapshots!Reply, Read

\* An entry holds what was published when the request was made.
LEMMA EntryHoldsFloor ==
    ASSUME IInv, NEW r \in Readers, thread[r].state = "asked", entry.age # "none"
    PROVE  entry.data \in 0..Len(writes) /\ thread[r].floor <= entry.data
<1>1. /\ GoodThread(r, thread[r]) /\ GoodEntry(entry) /\ r \in Threads
  BY InvariantGives DEF Threads
<1> QED
  BY <1>1 DEF GoodThread, GoodEntry

\* A hit is a reply.
LEMMA HitReplies == ASSUME IInv, NEW r \in Readers, Hit(r) PROVE Snapshots!Reply(r)
<1>1. thread \in [Threads -> ThreadType] /\ r \in Threads
  BY InvariantGives DEF Threads
<1>2. Read' = [Read EXCEPT ![r] = Seen(Thread("answered", 0, entry.data, 0))]
  BY <1>1, ReadExcept DEF Hit, Answered
<1> QED
  BY <1>2, EntryHoldsFloor, Replies DEF Hit

\* So is a stale hit; the background load is not seen.
LEMMA HitStaleReplies ==
    ASSUME IInv, NEW r \in Readers, NEW h \in Helpers, HitStale(r, h) PROVE Snapshots!Reply(r)
<1> DEFINE y == Thread("answered", 0, entry.data, 0)
<1>1. /\ thread \in [Threads -> ThreadType] /\ r \in Threads /\ h \in Threads /\ h \notin Readers
  BY InvariantGives, ThreadAssumption DEF Threads
<1>2. thread' = [[thread EXCEPT ![r] = y] EXCEPT ![h] = Thread("load", version, 0, 0)]
  BY DEF HitStale, Answered
<1> HIDE DEF y
<1>3. \A u \in Readers : thread'[u] = IF u = r THEN y ELSE thread[u]
  BY <1>1, <1>2 DEF Threads
<1>4. \A u \in Readers : Seen(thread'[u]) = IF u = r THEN Seen(y) ELSE Seen(thread[u])
  BY <1>3
<1>5. Read' = [Read EXCEPT ![r] = Seen(y)]
  <2>1. Read' = [u \in Readers |-> Seen(thread'[u])]
    BY DEF Read, Seen
  <2>2. [Read EXCEPT ![r] = Seen(y)] = [u \in Readers |-> IF u = r THEN Seen(y) ELSE Seen(thread[u])]
    BY DEF Read
  <2> QED
    BY <1>4, <2>1, <2>2
<1>6. entry.data \in 0..Len(writes) /\ thread[r].floor <= entry.data
  BY EntryHoldsFloor DEF HitStale
<1> QED
  BY <1>5, <1>6, Replies DEF HitStale, y

\* A load of a request replies, one in the background is not seen.
LEMMA StoreReplies ==
    ASSUME IInv, NEW t \in Threads, Store(t)
    PROVE  IF t \in Readers THEN Snapshots!Reply(t) ELSE UNCHANGED Snapshots!readVars
<1>1. thread \in [Threads -> ThreadType] /\ GoodThread(t, thread[t]) /\ thread[t] \in ThreadType
  BY InvariantGives DEF GoodThread
<1>2. CASE t \in Readers
  <2>1. t \notin Helpers
    BY <1>2, ThreadAssumption
  <2>2. Read' = [Read EXCEPT ![t] = Seen(Thread("answered", 0, thread[t].data, 0))]
    BY <1>1, <1>2, <2>1, ReadExcept DEF Store, Answered
  <2>3. thread[t].data \in 0..Len(writes) /\ thread[t].floor <= thread[t].data /\ thread[t].state = "store"
    BY <1>1, <1>2 DEF Store, GoodThread, ThreadType
  <2>4. UNCHANGED pubVars
    BY DEF Store
  <2> QED
    BY <1>2, <2>2, <2>3, <2>4, Replies
<1>3. CASE t \notin Readers
  <2>1. t \in Helpers
    BY <1>3 DEF Threads
  <2>2. Read' = Read
    BY <1>1, <1>3, <2>1, ReadExcept DEF Store
  <2> QED
    BY <1>3, <2>2, SamePublicationModule DEF Store, Snapshots!readVars, Read, pubVars, Snapshots!pubVars
<1> QED
  BY <1>2, <1>3

\* A failed load of a request is its failure.
LEMMA FailsFail == ASSUME IInv, NEW r \in Readers, LoadFails(r) PROVE Snapshots!Fail(r)
<1>1. thread \in [Threads -> ThreadType] /\ r \in Threads
  BY InvariantGives DEF Threads
<1>2. Read' = [Read EXCEPT ![r] = Seen(Thread("failed", 0, 0, 0))]
  BY <1>1, ReadExcept DEF LoadFails
<1>3. Seen(Thread("failed", 0, 0, 0)) = Snapshots!Failed /\ Seen(thread[r]).state = "asked"
  BY SeenFacts DEF LoadFails, Thread, Snapshots!Failed
<1>4. Read[r] = Seen(thread[r])
  BY DEF Read
<1> QED
  BY <1>2, <1>3, <1>4, SamePublicationModule DEF LoadFails, Snapshots!Fail, Read

\* Taking the answer.
LEMMA TakeTakes == ASSUME IInv, NEW r \in Readers, TakeAnswer(r) PROVE Snapshots!Take(r)
<1>1. thread \in [Threads -> ThreadType] /\ r \in Threads
  BY InvariantGives DEF Threads
<1>2. Read' = [Read EXCEPT ![r] = Seen(Idle)]
  BY <1>1, ReadExcept DEF TakeAnswer
<1>3. Seen(Idle) = Snapshots!NoRead /\ Seen(thread[r]).state \in {"answered", "failed"}
  BY SeenFacts DEF TakeAnswer, Idle, Thread, Snapshots!NoRead
<1>4. Read[r] = Seen(thread[r])
  BY DEF Read
<1> QED
  BY <1>2, <1>3, <1>4, SamePublicationModule DEF TakeAnswer, Snapshots!Take, Read, pubVars, Snapshots!pubVars

\* The requests being served fail with the process.
LEMMA RestartRestarts == ASSUME IInv, RestartCache PROVE Snapshots!Restart
<1>1. \A r \in Readers : r \in Threads /\ r \notin Helpers
  BY ThreadAssumption DEF Threads
<1>2. \A r \in Readers : thread'[r] = IF thread[r].state \in {"asked", "load", "store"}
                                      THEN Thread("failed", 0, 0, 0) ELSE thread[r]
  BY <1>1 DEF RestartCache
<1>3. Seen(Thread("failed", 0, 0, 0)) = Snapshots!Failed
  BY SeenFacts DEF Thread, Snapshots!Failed
<1>4. ASSUME NEW r \in Readers
      PROVE  Seen(thread'[r]) = IF Seen(thread[r]).state = "asked" THEN Snapshots!Failed ELSE Seen(thread[r])
  <2>1. thread[r].state \in States
    BY <1>1, InvariantGives DEF ThreadType
  <2>2. CASE thread[r].state \in {"asked", "load", "store"}
    BY <2>2, <1>2, <1>3, SeenFacts
  <2>3. CASE thread[r].state \in {"idle", "answered", "failed"}
    <3>1. Seen(thread[r]).state # "asked"
      BY <2>3, SeenFacts
    <3>2. thread'[r] = thread[r]
      BY <2>3, <1>2
    <3> QED
      BY <3>1, <3>2
  <2> QED
    BY <2>1, <2>2, <2>3 DEF States
<1>5. Read' = [r \in Readers |-> Seen(thread'[r])]
  BY DEF Read, Seen
<1>6. Read' = Snapshots!Interrupted
  BY <1>4, <1>5 DEF Snapshots!Interrupted
<1> QED
  BY <1>6, SamePublicationModule DEF RestartCache, Snapshots!Restart, Read

\* The writers' steps are those of the abstract publication.
LEMMA WritersPublish ==
    ASSUME CommitWrite \/ InvalidateCache \/ HandUpdateOver
    PROVE  Snapshots!Publish
<1>1. Read' = Read
  BY DEF Read, Seen, CommitWrite, InvalidateCache, HandUpdateOver
<1> QED
  BY <1>1, SamePublicationModule DEF Snapshots!Publish, Read, CommitWrite, InvalidateCache, HandUpdateOver

\* Loads, failures in the background and time are not seen.
LEMMA HiddenSteps ==
    ASSUME IInv,
           \/ Age
           \/ \E r \in Readers : Miss(r)
           \/ \E t \in Threads : Query(t)
           \/ \E h \in Helpers : HelperFails(h)
           \/ UNCHANGED cacheVars
    PROVE  UNCHANGED Snapshots!readVars
<1>1. UNCHANGED pubVars
  BY DEF Age, Miss, Query, HelperFails, cacheVars
<1>2. thread \in [Threads -> ThreadType]
  BY InvariantGives
<1>3. ASSUME NEW r \in Readers PROVE Seen(thread'[r]) = Seen(thread[r])
  <2>1. r \in Threads /\ r \notin Helpers
    BY ThreadAssumption DEF Threads
  <2>2. CASE Age \/ UNCHANGED cacheVars
    BY <2>2 DEF Age, cacheVars, Seen
  <2>3. CASE \E q \in Readers : Miss(q)
    <3>1. PICK q \in Readers : Miss(q)
      BY <2>3
    <3>2. CASE q = r
      <4>1. thread'[r] = Thread("load", version, 0, thread[r].floor) /\ thread[r].state = "asked"
        BY <2>1, <3>1, <3>2, <1>2 DEF Miss, Begin, Thread
      <4>2. thread'[r].state = "load" /\ thread'[r].floor = thread[r].floor
        BY <4>1 DEF Thread
      <4> QED
        BY <4>1, <4>2, SeenFacts
    <3>3. CASE q # r
      <4>1. thread'[r] = thread[r]
        BY <2>1, <3>1, <3>3, <1>2 DEF Miss, Begin
      <4> QED
        BY <4>1
    <3> QED
      BY <3>2, <3>3
  <2>4. CASE \E t \in Threads : Query(t)
    <3>1. PICK t \in Threads : Query(t)
      BY <2>4
    <3>2. CASE t = r
      <4>1. thread'[r].state = "store" /\ thread'[r].floor = thread[r].floor /\ thread[r].state = "load"
        BY <2>1, <3>1, <3>2, <1>2 DEF Query, ThreadType
      <4> QED
        BY <4>1, SeenFacts
    <3>3. CASE t # r
      <4>1. thread'[r] = thread[r]
        BY <2>1, <3>1, <3>3, <1>2 DEF Query
      <4> QED
        BY <4>1
    <3> QED
      BY <3>2, <3>3
  <2>5. CASE \E h \in Helpers : HelperFails(h)
    <3>1. thread'[r] = thread[r]
      BY <2>1, <2>5, <1>2 DEF HelperFails
    <3> QED
      BY <3>1
  <2> QED
    BY <2>2, <2>3, <2>4, <2>5
<1>4. Read' = Read
  BY <1>3 DEF Read, Seen
<1> QED
  BY <1>1, <1>4, SamePublicationModule DEF Snapshots!readVars, Read, pubVars, Snapshots!pubVars

\* Every step is a step of SnapshotRead or is not seen.
LEMMA StepsRefine == IInv /\ [CacheNext]_cacheVars => [Snapshots!ReadNext]_(Snapshots!readVars)
<1> SUFFICES ASSUME IInv, [CacheNext]_cacheVars PROVE [Snapshots!ReadNext]_(Snapshots!readVars)
  OBVIOUS
<1>1. CASE CommitWrite \/ InvalidateCache \/ HandUpdateOver
  BY <1>1, WritersPublish DEF Snapshots!ReadNext
<1>2. CASE RestartCache
  BY <1>2, RestartRestarts DEF Snapshots!ReadNext
<1>3. CASE \E r \in Readers : Request(r) \/ TakeAnswer(r) \/ LoadFails(r)
  BY <1>3, RequestAsks, TakeTakes, FailsFail DEF Snapshots!ReadNext
<1>4. CASE \E r \in Readers : Hit(r) \/ (\E h \in Helpers : HitStale(r, h))
  BY <1>4, HitReplies, HitStaleReplies DEF Snapshots!ReadNext
<1>5. CASE \E t \in Threads : Store(t)
  BY <1>5, StoreReplies DEF Snapshots!ReadNext
<1>6. CASE \/ Age
           \/ \E r \in Readers : Miss(r)
           \/ \E t \in Threads : Query(t)
           \/ \E h \in Helpers : HelperFails(h)
           \/ UNCHANGED cacheVars
  BY <1>6, HiddenSteps
<1> QED
  BY <1>1, <1>2, <1>3, <1>4, <1>5, <1>6 DEF CacheNext, ReaderStep, LoadStep

\* The cache implements the safety part of SnapshotRead, for any requests, background
\* loads, writes and faults: a request made after a write was published is never
\* answered from before it (read_through_cache.py, storage_update_bus.py).
THEOREM CacheImplementsRead == CacheSpec => Snapshots!ReadSpec
<1> QED
  BY ReadInitially, StepsRefine, CacheInvariant, PTL DEF CacheSpec, Snapshots!ReadSpec
=============================================================================
