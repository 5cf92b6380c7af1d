------------------------- MODULE PageRefresh_proofs --------------------------
(***************************************************************************)
(* Proofs about PageRefresh: what was asked for is never forgotten, and a  *)
(* page at rest shows every write of its keys but those it missed, for     *)
(* every queue size and any number of writes and faults.                   *)
(***************************************************************************)
EXTENDS PageRefresh, SequenceTheorems, WellFoundedInduction, TLAPS

Scheduler ==
    [pending : SUBSET Watched, keys : SUBSET Watched, timer : BOOLEAN,
     hasPending : BOOLEAN, paused : BOOLEAN, last : Nat]
Update  == [write : Nat, version : Nat]
Request == [state : {"none", "asked", "answered", "failed"}, n : Nat]

ReadTypeOK ==
    /\ read \in [Readers -> Request]
    /\ \A r \in Readers : read[r].n <= Len(writes)
StreamTypeOK == stream \in [state : {"new", "open", "down"}, queue : Seq(Update), dropped : SUBSET Nat]
OwnTypeOK    == own \in [pc : {"idle", "sent", "lost"}, id : Nat]

\* Keys that are pending have something that will ask for them, or are noted.
Awake(p) == p.pending # {} => p.timer \/ p.keys # {} \/ p.hasPending

PageOK ==
    /\ PubTypeOK /\ kind \in Kinds /\ ReadTypeOK /\ StreamTypeOK /\ OwnTypeOK
    /\ page \in Scheduler /\ Awake(page)

Queued(i)   == \E k \in 1..Len(stream.queue) : stream.queue[k].write = i
InPubs(i)   == \E p \in pubs : p.id = i

\* A publication has a number of its own, and what is told of is published.
ToldInv ==
    /\ \A p, q \in pubs : p.id = q.id => p = q
    /\ markers \subseteq Ids /\ seen \subseteq Ids
    /\ \A k \in 1..Len(stream.queue) : stream.queue[k].write \in Ids
    /\ \A i \in Ids : Queued(i) \/ i \in markers \/ i \in seen => ~ InPubs(i)
    /\ stream.state # "open" => stream.queue = <<>> /\ stream.dropped = {}

\* A read that will show write i, or fail and leave it untold.
Covers(r, i) ==
    read[r].state = "failed" \/ (read[r].state \in {"asked", "answered"} /\ i <= read[r].n)

\* Write i is shown, given up, or about to be read by the scheduler.
Kept(i) ==
    \/ i \in shown \union untold
    \/ writes[i].key \in page.pending /\ Asks(page)
    \/ writes[i].key \in page.keys /\ Covers("refresh", i)

InOwn(i) == own.pc # "idle" /\ own.id = i

\* A repeated update of a request adds nothing to the first.
SeenInv == \A i \in seen \intersect WatchedIds : Kept(i)

\* The page knows its own writes from their answers.
OwnInv ==
    \A i \in Ids : writes[i].by = "own" => i \in shown \union untold \/ InOwn(i)

\* Each write of the page's keys is kept, or on its way to the page.
OnTheWay(i) == InPubs(i) \/ Queued(i) \/ stream.state = "down" \/ i \in stream.dropped

Tracked(i) == OnTheWay(i) \/ Kept(i) \/ Covers("direct", i) \/ InOwn(i)

NothingForgotten == \A i \in WatchedIds : Tracked(i)

-----------------------------------------------------------------------------
(* The least snapshot that holds what is published.                         *)

\* A non-empty set of naturals has a least element.
LEMMA LeastNatural ==
    ASSUME NEW T, T \subseteq Nat, T # {}
    PROVE  \E n \in T : \A m \in T : n <= m
<1> DEFINE Less == {p \in Nat \X Nat : p[1] < p[2]}
<1>1. IsWellFoundedOn(Less, Nat)
  BY NatLessThanWellFounded, Zenon DEF OpToRel
<1>2. \A m, n \in Nat : m < n => <<m, n>> \in Less
  OBVIOUS
<1> HIDE DEF Less
<1>3. PICK n \in T : \A m \in T : ~ (<<m, n>> \in Less)
  BY <1>1, WFMin
<1>4. \A m \in T : ~ (m < n)
  BY <1>2, <1>3
<1>5. \A m \in T : n <= m
  BY <1>4
<1> QED
  BY <1>5

\* A read that starts now asks for all that is published, and for no more than is there.
LEMMA AskingFacts ==
    ASSUME PubTypeOK
    PROVE  /\ Asking \in Request /\ Asking.state = "asked" /\ Asking.n <= Len(writes)
           /\ \A i \in Ids : ~ InPubs(i) => i <= Asking.n
<1> DEFINE T == {n \in Nat : Holds(n)}
<1>1. Len(writes) \in Nat /\ Published \subseteq 1..Len(writes)
  BY DEF PubTypeOK, Published, Ids
<1>2. Len(writes) \in T
  BY <1>1 DEF Holds
<1>3. PICK n \in T : \A m \in T : n <= m
  BY <1>2, LeastNatural
<1>4. n \in 0..Len(writes) /\ Holds(n)
  BY <1>1, <1>2, <1>3
<1>5. n = 0 \/ n \in Published
  <2>1. SUFFICES ASSUME n # 0 PROVE n \in Published
    OBVIOUS
  <2>2. n - 1 \in Nat /\ ~ (n <= n - 1)
    BY <2>1, <1>4
  <2>3. n - 1 \notin T
    BY <2>2, <1>3
  <2>4. PICK i \in Published : ~ (i <= n - 1)
    BY <2>2, <2>3 DEF Holds
  <2>5. i <= n
    BY <1>4 DEF Holds
  <2> QED
    BY <2>4, <2>5, <1>1, <1>4
<1>6. Floor \in 0..Len(writes) /\ Holds(Floor)
  BY <1>4, <1>5 DEF Floor
<1>7. \A i \in Ids : ~ InPubs(i) => i <= Floor
  BY <1>6 DEF Holds, Published, InPubs
<1> QED
  BY <1>1, <1>6, <1>7 DEF Asking, Asked, Request

-----------------------------------------------------------------------------
(* The scheduler's operators.                                               *)

\* Executing starts a refresh of all that is pending, unless one is in flight.
LEMMA ExecutedFacts ==
    ASSUME NEW p \in Scheduler
    PROVE  /\ Executed(p) \in Scheduler /\ Awake(Executed(p))
           /\ \/ p.keys # {} /\ Executed(p) = p
              \/ p.keys = {} /\ Executed(p).keys = p.pending /\ Executed(p).pending = {}
  BY DEF Executed, Scheduler, Awake

\* Settling leaves no key pending without a refresh or a dialog to close.
LEMMA SettledFacts ==
    ASSUME NEW p \in Scheduler
    PROVE  /\ Settled(p) \in Scheduler /\ Awake(Settled(p))
           /\ \/ Settled(p).keys = p.pending /\ Settled(p).pending = {}
              \/ Settled(p).keys = {} /\ Settled(p).pending = p.pending /\ (p.pending = {} \/ Settled(p).paused)
<1> DEFINE q == [p EXCEPT !.keys = {}]
<1>1. q \in Scheduler /\ q.keys = {} /\ q.pending = p.pending
  BY DEF Scheduler
<1> HIDE DEF q
<1>2. CASE q.pending = {}
  BY <1>1, <1>2 DEF Settled, q, Awake
<1>3. CASE q.pending # {} /\ q.paused
  <2>1. Settled(p) = [q EXCEPT !.hasPending = TRUE]
    BY <1>3, Zenon DEF Settled, q
  <2> QED
    BY <1>1, <1>3, <2>1 DEF Awake, Scheduler
<1>4. CASE q.pending # {} /\ ~ q.paused
  <2>1. Settled(p) = Executed(q)
    BY <1>4, Zenon DEF Settled, q
  <2> QED
    BY <1>1, <2>1, ExecutedFacts
<1> QED
  BY <1>2, <1>3, <1>4

\* An accepted update adds its keys, and all of them when updates are missing.
LEMMA RequestedFacts ==
    ASSUME page \in Scheduler, NEW m, m.version \in Nat, Awake(page)
    PROVE  /\ Requested(m) \in Scheduler /\ Awake(Requested(m))
           /\ Requested(m).keys = page.keys
           /\ Requested(m).pending = page.pending \union
                (IF m.full \/ Gap(m) THEN Watched ELSE m.keys \intersect Watched)
           /\ Asks(page) => Asks(Requested(m))
           /\ (IF m.full \/ Gap(m) THEN Watched ELSE m.keys \intersect Watched) # {} => Asks(Requested(m))
<1> DEFINE p    == IF m.version = 0 THEN page ELSE [page EXCEPT !.last = m.version]
           keys == IF m.full \/ Gap(m) THEN Watched ELSE m.keys \intersect Watched
           new  == [p EXCEPT !.pending = @ \union keys]
<1>1. /\ p \in Scheduler /\ p.pending = page.pending /\ p.keys = page.keys /\ Awake(p)
      /\ p.paused = page.paused /\ p.timer = page.timer
  BY DEF Scheduler, Awake
<1>2. keys \subseteq Watched
  OBVIOUS
<1>3. Requested(m) = IF keys = {} THEN p
                     ELSE IF page.paused THEN [new EXCEPT !.hasPending = TRUE]
                     ELSE [new EXCEPT !.hasPending = FALSE, !.timer = TRUE]
  BY Zenon DEF Requested
<1> HIDE DEF p, keys
<1>4. new \in Scheduler /\ new.pending = page.pending \union keys /\ new.keys = page.keys /\ new.paused = page.paused
  BY <1>1, <1>2 DEF Scheduler
<1> HIDE DEF new
<1>5. CASE keys = {}
  BY <1>1, <1>3, <1>5 DEF keys, Asks
<1>6. CASE keys # {} /\ page.paused
  <2>1. Requested(m) = [new EXCEPT !.hasPending = TRUE]
    BY <1>3, <1>6
  <2> QED
    BY <1>4, <1>6, <2>1 DEF Scheduler, Awake, Asks, keys
<1>7. CASE keys # {} /\ ~ page.paused
  <2>1. Requested(m) = [new EXCEPT !.hasPending = FALSE, !.timer = TRUE]
    BY <1>3, <1>7
  <2> QED
    BY <1>4, <1>7, <2>1 DEF Scheduler, Awake, Asks, keys
<1> QED
  BY <1>5, <1>6, <1>7

-----------------------------------------------------------------------------
(* Types, and no lost wakeup.                                               *)

\* What publishing does to the store, whoever writes.
LEMMA CommitFacts ==
    ASSUME PubTypeOK, NEW w \in Write, Commit(w)
    PROVE  /\ PubTypeOK' /\ Len(writes') = Len(writes) + 1 /\ writes'[Len(writes) + 1] = w
           /\ Ids' = Ids \union {Len(writes) + 1} /\ Len(writes) + 1 \notin Ids
           /\ \A i \in Ids : writes'[i] = writes[i]
           /\ pubs' = pubs \union {[id |-> Len(writes) + 1, version |-> 0]}
<1>1. /\ Len(writes) \in Nat /\ writes' \in Seq(Write) /\ Len(writes') = Len(writes) + 1
      /\ writes'[Len(writes) + 1] = w /\ \A i \in 1..Len(writes) : writes'[i] = writes[i]
  BY AppendProperties DEF PubTypeOK, Commit
<1>2. Ids' = Ids \union {Len(writes) + 1} /\ Len(writes) + 1 \notin Ids
  BY <1>1 DEF Ids
<1>3. Len(writes') + faults' <= MaxEvents /\ faults' \in Nat /\ version' \in Nat
  BY <1>1, BoundAssumption DEF PubTypeOK, Commit, Bounded
<1>4. pubs' \subseteq [id : Ids', version : 0..version']
  BY <1>2 DEF PubTypeOK, Commit
<1> QED
  BY <1>1, <1>2, <1>3, <1>4 DEF PubTypeOK, Commit, Ids

LEMMA InvalidateFacts ==
    ASSUME PubTypeOK, NEW p \in pubs, Invalidate(p)
    PROVE  /\ PubTypeOK' /\ UNCHANGED writes
           /\ \E q \in [id : Ids, version : Nat] : q.id = p.id /\ pubs' = (pubs \ {p}) \union {q}
<1> DEFINE q == [p EXCEPT !.version = version + 1]
<1>1. p \in [id : Ids, version : 0..version] /\ version \in Nat
  BY DEF PubTypeOK
<1>2. q \in [id : Ids, version : 0..version + 1] /\ q.id = p.id
  BY <1>1
<1>3. pubs' = (pubs \ {p}) \union {q} /\ version' = version + 1 /\ UNCHANGED <<writes, faults>> /\ Ids' = Ids
  BY DEF Invalidate, Ids
<1> HIDE DEF q
<1>4. pubs' \subseteq [id : Ids', version : 0..version']
  BY <1>1, <1>2, <1>3 DEF PubTypeOK
<1> QED
  BY <1>2, <1>3, <1>4 DEF PubTypeOK

\* A fault takes one of the bounded events.
LEMMA FaultFacts ==
    ASSUME PubTypeOK, NEW f, Fault(f)
    PROVE  faults' \in Nat /\ Len(writes) + faults' <= MaxEvents
  BY BoundAssumption DEF PubTypeOK, Fault, Bounded

\* Commit leaves read and the page's variables to the action that contains it.
WriteStep == WriteElsewhere \/ WriteOwn

LEMMA WriteStepFacts ==
    ASSUME PubTypeOK, kind \in Kinds, WriteStep
    PROVE  \E w \in Write :
              /\ Commit(w) /\ UNCHANGED <<read, kind, stream, markers, seen, page, shown, untold>>
              /\ \/ w.by # "own" /\ UNCHANGED own
                 \/ w.by = "own" /\ own.pc = "idle" /\ own' = [pc |-> "sent", id |-> Len(writes) + 1]
<1>1. CASE WriteElsewhere
  BY <1>1 DEF WriteElsewhere, client
<1>2. CASE WriteOwn
  <2>1. PICK k \in Watched : Commit([key |-> k, by |-> "own"])
    BY <1>2 DEF WriteOwn
  <2>2. [key |-> k, by |-> "own"] \in Write
    BY <1>2, PageAssumption DEF WriteOwn, Write
  <2> QED
    BY <1>2, <2>1, <2>2 DEF WriteOwn
<1> QED
  BY <1>1, <1>2 DEF WriteStep

\* Writes are added at the end and stay.
LEMMA WritesStay ==
    ASSUME PubTypeOK, kind \in Kinds, [PageNext]_pageVars
    PROVE  Len(writes) <= Len(writes') /\ Ids \subseteq Ids' /\ \A i \in Ids : writes'[i] = writes[i]
<1>1. CASE UNCHANGED writes
  BY <1>1 DEF PubTypeOK, Ids
<1>2. ASSUME NEW w \in Write, Commit(w)
      PROVE  Len(writes) <= Len(writes') /\ Ids \subseteq Ids' /\ \A i \in Ids : writes'[i] = writes[i]
  BY <1>2, CommitFacts DEF PubTypeOK
<1>3. UNCHANGED writes \/ \E w \in Write : Commit(w)
  <2>1. CASE WriteStep
    BY <2>1, WriteStepFacts
  <2>2. CASE ~ WriteStep
    BY <2>2 DEF WriteStep, PageNext, OwnAnswer, OwnFails, InvalidateCache, Invalidate, Enqueue, HandOver,
       Receive, Notified, Connect, Disconnect, RestartMES, Restart, RestartProcess, Timer, Refreshed,
       RefreshFails, Load, Loaded, LoadFailed, Pause, Resume, CloseQuietly, Served, NotServed, Reply, Fail, readVars,
       pubVars, pageVars
  <2> QED
    BY <2>1, <2>2
<1> QED
  BY <1>1, <1>2, <1>3

\* A request gets a new state, for a snapshot that is there.
LEMMA ReadUpdated ==
    ASSUME ReadTypeOK, UNCHANGED writes, NEW r \in Readers, NEW v \in Request, v.n <= Len(writes),
           read' = [read EXCEPT ![r] = v]
    PROVE  ReadTypeOK'
  BY DEF ReadTypeOK

\* What a refresh that becomes p asks for, and what settling one asks for.
LEMMA BecomesFacts ==
    ASSUME PubTypeOK, ReadTypeOK, UNCHANGED writes, NEW p, Becomes(p)
    PROVE  /\ ReadTypeOK' /\ page' = p /\ read'["direct"] = read["direct"]
           /\ read'["refresh"] = IF page.keys # p.keys /\ p.keys # {} THEN Asking ELSE read["refresh"]
<1>1. "refresh" \in Readers /\ "direct" \in Readers
  BY PageAssumption
<1>2. CASE page.keys # p.keys /\ p.keys # {}
  <2>1. read' = [read EXCEPT !["refresh"] = Asking] /\ page' = p
    BY <1>2 DEF Becomes
  <2>2. Asking \in Request /\ Asking.n <= Len(writes)
    BY AskingFacts
  <2>3. ReadTypeOK'
    BY <1>1, <2>1, <2>2, ReadUpdated
  <2> QED
    BY <1>1, <1>2, <2>1, <2>3 DEF ReadTypeOK
<1>3. CASE ~ (page.keys # p.keys /\ p.keys # {})
  BY <1>3 DEF Becomes, ReadTypeOK
<1> QED
  BY <1>2, <1>3

LEMMA SettleReaderFacts ==
    ASSUME PubTypeOK, ReadTypeOK, UNCHANGED writes, NEW p, SettleReader(p)
    PROVE  /\ ReadTypeOK' /\ read'["direct"] = read["direct"]
           /\ read'["refresh"] = IF p.keys # {} THEN Asking ELSE NoRead
<1>1. "refresh" \in Readers /\ "direct" \in Readers
  BY PageAssumption
<1>2. Asking \in Request /\ Asking.n <= Len(writes)
  BY AskingFacts
<1>3. NoRead \in Request /\ NoRead.n <= Len(writes)
  BY DEF NoRead, Request, PubTypeOK
<1> DEFINE v == IF p.keys # {} THEN Asking ELSE NoRead
<1>4. v \in Request /\ v.n <= Len(writes)
  BY <1>2, <1>3
<1>5. read' = [read EXCEPT !["refresh"] = v]
  BY DEF SettleReader
<1> HIDE DEF v
<1>6. ReadTypeOK'
  BY <1>1, <1>4, <1>5, ReadUpdated
<1>7. read'["refresh"] = v /\ read'["direct"] = read["direct"]
  BY <1>1, <1>5 DEF ReadTypeOK
<1> QED
  BY <1>6, <1>7 DEF v

\* Timer, dialogs and the end of a refresh: the steps of the scheduler.
SchedulerStep == Timer \/ Refreshed \/ RefreshFails \/ Pause \/ Resume \/ CloseQuietly

LEMMA SchedulerKeepsOK ==
    ASSUME PageOK, SchedulerStep
    PROVE  PageOK'
<1>1. PubTypeOK /\ ReadTypeOK /\ page \in Scheduler /\ Awake(page)
  BY DEF PageOK
<1>2. UNCHANGED <<pubVars, kind, stream, own>>
  BY DEF SchedulerStep, Timer, Refreshed, RefreshFails, Pause, Resume, CloseQuietly, readVars
<1>3. UNCHANGED writes /\ PubTypeOK' /\ kind' \in Kinds /\ StreamTypeOK' /\ OwnTypeOK'
  BY <1>2 DEF PageOK, PubTypeOK, pubVars, Ids, StreamTypeOK, OwnTypeOK
<1>4. CASE Timer
  <2> DEFINE p == [page EXCEPT !.timer = FALSE]
  <2>1. p \in Scheduler
    BY <1>1 DEF Scheduler
  <2>2. Becomes(Executed(p))
    BY <1>4 DEF Timer
  <2> QED
    BY <1>1, <1>3, <2>1, <2>2, BecomesFacts, ExecutedFacts DEF PageOK
<1>5. CASE Refreshed \/ RefreshFails
  <2>1. page' = Settled(page) /\ SettleReader(page')
    BY <1>5 DEF Refreshed, RefreshFails
  <2> QED
    BY <1>1, <1>3, <2>1, SettleReaderFacts, SettledFacts DEF PageOK
<1>6. CASE Pause
  <2>1. page' = [page EXCEPT !.paused = TRUE] /\ UNCHANGED read
    BY <1>6 DEF Pause, readVars
  <2>2. page' \in Scheduler /\ Awake(page')
    BY <1>1, <1>6, <2>1 DEF Scheduler, Awake, Pause
  <2> QED
    BY <1>1, <1>3, <2>1, <2>2 DEF PageOK, ReadTypeOK
<1>7. CASE Resume
  <2> DEFINE p == [page EXCEPT !.paused = FALSE]
             q == [p EXCEPT !.hasPending = FALSE, !.timer = FALSE]
  <2>1. p \in Scheduler /\ q \in Scheduler
    BY <1>1 DEF Scheduler
  <2>2. Becomes(IF page.hasPending THEN Executed(q) ELSE p)
    BY <1>7 DEF Resume
  <2>3. Awake(IF page.hasPending THEN Executed(q) ELSE p)
    <3>1. CASE page.hasPending
      BY <2>1, <3>1, ExecutedFacts
    <3>2. CASE ~ page.hasPending
      BY <1>1, <3>2 DEF Awake, Scheduler
    <3> QED
      BY <3>1, <3>2
  <2>4. (IF page.hasPending THEN Executed(q) ELSE p) \in Scheduler
    BY <2>1, ExecutedFacts
  <2> HIDE DEF p, q
  <2> QED
    BY <1>1, <1>3, <2>2, <2>3, <2>4, BecomesFacts DEF PageOK
<1>8. CASE CloseQuietly
  <2>1. page' = [page EXCEPT !.paused = FALSE] /\ UNCHANGED read
    BY <1>8 DEF CloseQuietly, readVars
  <2>2. page' \in Scheduler /\ Awake(page')
    BY <1>1, <2>1 DEF Scheduler, Awake
  <2> QED
    BY <1>1, <1>3, <2>1, <2>2 DEF PageOK, ReadTypeOK
<1> QED
  BY <1>4, <1>5, <1>6, <1>7, <1>8 DEF SchedulerStep

\* Reads outside the scheduler, and the answers of all reads.
ReadStep ==
    \/ Load \/ Loaded \/ LoadFailed \/ OwnFails
    \/ \E r \in Readers : Served(r) \/ NotServed(r)

LEMMA ReadKeepsOK ==
    ASSUME PageOK, ReadStep
    PROVE  PageOK'
<1>1. PubTypeOK /\ ReadTypeOK /\ page \in Scheduler /\ Awake(page)
  BY DEF PageOK
<1>2. UNCHANGED <<writes, pubs, version, kind, stream, page>>
  BY DEF ReadStep, Load, Loaded, LoadFailed, OwnFails, Served, NotServed, Reply, Fail, readVars, pubVars, client
<1>3. PubTypeOK'
  <2>1. faults' = faults \/ \E f : Fault(f)
    BY DEF ReadStep, Load, Loaded, LoadFailed, OwnFails, Served, NotServed, Reply, Fail, readVars, pubVars
  <2>2. faults' \in Nat /\ Len(writes) + faults' <= MaxEvents
    BY <1>1, <2>1, FaultFacts DEF PubTypeOK
  <2> QED
    BY <1>1, <1>2, <2>2 DEF PubTypeOK, Ids
<1>4. OwnTypeOK'
  BY DEF PageOK, OwnTypeOK, ReadStep, Load, Loaded, LoadFailed, OwnFails, Served, NotServed, Reply, Fail,
                     readVars, client
<1>5. UNCHANGED read \/ \E r \in Readers, v \in Request : v.n <= Len(writes) /\ read' = [read EXCEPT ![r] = v]
  <2>1. "direct" \in Readers /\ Asking \in Request /\ Asking.n <= Len(writes)
    BY <1>1, PageAssumption, AskingFacts
  <2>2. NoRead \in Request /\ NoRead.n <= Len(writes) /\ Failed \in Request /\ Failed.n <= Len(writes)
    BY <1>1 DEF NoRead, Failed, Request, PubTypeOK
  <2>3. CASE Load \/ Loaded \/ LoadFailed \/ OwnFails
    BY <2>1, <2>2, <2>3 DEF Load, Loaded, LoadFailed, OwnFails
  <2>4. ASSUME NEW r \in Readers, Served(r)
        PROVE  \E v \in Request : v.n <= Len(writes) /\ read' = [read EXCEPT ![r] = v]
    <3>1. PICK n \in read[r].n..Len(writes) : read' = [read EXCEPT ![r] = Answer(n)]
      BY <2>4 DEF Served, Reply
    <3>2. Answer(n) \in Request /\ Answer(n).n <= Len(writes)
      BY <1>1, <3>1 DEF Answer, Request, ReadTypeOK, PubTypeOK
    <3> QED
      BY <3>1, <3>2
  <2>5. ASSUME NEW r \in Readers, NotServed(r) PROVE read' = [read EXCEPT ![r] = Failed]
    BY <2>5 DEF NotServed, Fail
  <2> QED
    BY <2>2, <2>3, <2>4, <2>5 DEF ReadStep
<1>6. ReadTypeOK'
  BY <1>1, <1>2, <1>5, ReadUpdated DEF ReadTypeOK
<1> QED
  BY <1>1, <1>2, <1>3, <1>4, <1>6 DEF PageOK, StreamTypeOK

\* An update that arrives is ignored, dropped or accepted; no key is forgotten.
LEMMA HeardFacts ==
    ASSUME PageOK, NEW m, m.version \in Nat, Ignore(m) \/ Drop(m) \/ Accept(m)
    PROVE  /\ page' \in Scheduler /\ Awake(page') /\ page'.keys = page.keys
           /\ page.pending \subseteq page'.pending /\ (Asks(page) => Asks(page'))
           /\ Accept(m) /\ (m.full \/ Gap(m) \/ m.keys \intersect Watched # {}) => Asks(page')
           /\ Accept(m) => IF m.full \/ Gap(m) THEN Watched \subseteq page'.pending
                                               ELSE m.keys \intersect Watched \subseteq page'.pending
<1>1. page \in Scheduler /\ Awake(page) /\ Watched # {}
  BY PageAssumption DEF PageOK
<1>2. CASE Ignore(m) \/ Drop(m)
  <2>1. page' \in {page, [page EXCEPT !.last = m.version]}
    BY <1>2 DEF Ignore, Drop
  <2>2. /\ page' \in Scheduler /\ Awake(page') /\ page'.keys = page.keys /\ page'.pending = page.pending
        /\ Asks(page) => Asks(page')
    BY <1>1, <2>1 DEF Scheduler, Awake, Asks
  <2>3. Accept(m) => page' = Requested(m)
    BY DEF Accept
  <2> QED
    BY <1>1, <2>2, <2>3, RequestedFacts
<1>3. CASE Accept(m)
  <2>1. page' = Requested(m)
    BY <1>3 DEF Accept
  <2> QED
    BY <1>1, <2>1, RequestedFacts
<1> QED
  BY <1>2, <1>3

LEMMA MessageFacts ==
    ASSUME NEW i, NEW v \in Nat
    PROVE  /\ Message(i, v).version = v /\ ~ Message(i, v).full
           /\ Message(i, v).keys = {writes[i].key}
           /\ Message(i, v).id = IF writes[i].by = "other" THEN 0 ELSE i
  BY DEF Message

\* The update that arrives next.
LEMMA ReceiveFacts ==
    ASSUME PageOK, Receive
    PROVE  \E e \in Update :
              /\ stream.queue # <<>> /\ e = stream.queue[1]
              /\ UNCHANGED <<readVars, kind, markers, own, shown>>
              /\ stream'.state = stream.state /\ stream'.queue = Tail(stream.queue)
              /\ stream'.queue \in Seq(Update) /\ Len(stream'.queue) = Len(stream.queue) - 1
              /\ \A k \in 1..Len(stream'.queue) : stream'.queue[k] = stream.queue[k + 1]
              /\ StreamTypeOK'
              /\ \/ /\ Ignore(Message(e.write, e.version))
                    /\ stream'.dropped = stream.dropped /\ UNCHANGED untold
                 \/ /\ Drop(Message(e.write, e.version))
                    /\ stream'.dropped = {} /\ untold' = untold \union stream.dropped
                 \/ /\ Accept(Message(e.write, e.version)) /\ stream'.dropped = {}
                    /\ untold' = IF Gap(Message(e.write, e.version)) THEN untold ELSE untold \union stream.dropped
<1>1. stream \in [state : {"new", "open", "down"}, queue : Seq(Update), dropped : SUBSET Nat]
  BY DEF PageOK, StreamTypeOK
<1>2. stream.queue \in Seq(Update) /\ stream.queue # <<>>
  BY <1>1 DEF Receive
<1> DEFINE e == Head(stream.queue)
<1>3. e \in Update /\ e = stream.queue[1]
  BY <1>2, HeadTailProperties
<1>4. /\ Tail(stream.queue) \in Seq(Update) /\ Len(Tail(stream.queue)) = Len(stream.queue) - 1
      /\ \A k \in 1..Len(Tail(stream.queue)) : Tail(stream.queue)[k] = stream.queue[k + 1]
  BY <1>2, HeadTailProperties
<1>5. \/ /\ Ignore(Message(e.write, e.version))
         /\ stream' = [stream EXCEPT !.queue = Tail(@)] /\ UNCHANGED untold
      \/ /\ Drop(Message(e.write, e.version))
         /\ stream' = [stream EXCEPT !.queue = Tail(@), !.dropped = {}]
         /\ untold' = untold \union stream.dropped
      \/ /\ Accept(Message(e.write, e.version))
         /\ stream' = [stream EXCEPT !.queue = Tail(@), !.dropped = {}]
         /\ untold' = IF Gap(Message(e.write, e.version)) THEN untold ELSE untold \union stream.dropped
  BY DEF Receive
<1>6. UNCHANGED <<readVars, kind, markers, own, shown>>
  BY DEF Receive
<1> HIDE DEF e
<1>7. ASSUME stream' = [stream EXCEPT !.queue = Tail(@)]
      PROVE  /\ stream'.state = stream.state /\ stream'.queue = Tail(stream.queue)
             /\ stream'.dropped = stream.dropped /\ StreamTypeOK'
  BY <1>1, <1>4, <1>7 DEF StreamTypeOK
<1>8. ASSUME stream' = [stream EXCEPT !.queue = Tail(@), !.dropped = {}]
      PROVE  /\ stream'.state = stream.state /\ stream'.queue = Tail(stream.queue)
             /\ stream'.dropped = {} /\ StreamTypeOK'
  BY <1>1, <1>4, <1>8 DEF StreamTypeOK
<1>9. stream'.state = stream.state /\ stream'.queue = Tail(stream.queue) /\ StreamTypeOK'
  BY <1>5, <1>7, <1>8
<1>10. \/ /\ Ignore(Message(e.write, e.version))
          /\ stream'.dropped = stream.dropped /\ UNCHANGED untold
       \/ /\ Drop(Message(e.write, e.version))
          /\ stream'.dropped = {} /\ untold' = untold \union stream.dropped
       \/ /\ Accept(Message(e.write, e.version)) /\ stream'.dropped = {}
          /\ untold' = IF Gap(Message(e.write, e.version)) THEN untold ELSE untold \union stream.dropped
  BY <1>5, <1>7, <1>8
<1> QED
  BY <1>2, <1>3, <1>4, <1>6, <1>9, <1>10

\* Handing an update over appends it; a full queue loses its oldest.
LEMMA EnqueueFacts ==
    ASSUME PageOK, NEW p \in pubs, Enqueue(p)
    PROVE  /\ p \in [id : Ids, version : Nat] /\ pubs' = pubs \ {p} /\ PubTypeOK'
           /\ UNCHANGED <<writes, read, kind, seen, page, own, shown>>
           /\ StreamTypeOK' /\ stream'.state = stream.state
           /\ stream.state # "open" => stream' = stream
           /\ stream.dropped \subseteq stream'.dropped
           /\ stream.state = "open" =>
                 /\ \E k \in 1..Len(stream'.queue) : stream'.queue[k].write = p.id
                 /\ \A k \in 1..Len(stream'.queue) : stream'.queue[k].write = p.id \/ Queued(stream'.queue[k].write)
                 /\ \A k \in 1..Len(stream.queue) :
                       \/ \E j \in 1..Len(stream'.queue) : stream'.queue[j] = stream.queue[k]
                       \/ stream.queue[k].write \in stream'.dropped
           /\ untold' = IF stream.state = "new" THEN untold \union {p.id} ELSE untold
           /\ markers' \subseteq markers \union {p.id}
<1>1. /\ PubTypeOK /\ QueueSize \in Nat \ {0}
      /\ stream \in [state : {"new", "open", "down"}, queue : Seq(Update), dropped : SUBSET Nat]
  BY PageAssumption DEF PageOK, StreamTypeOK
<1>2. p \in [id : Ids, version : Nat] /\ Ids \subseteq Nat
  BY <1>1 DEF PubTypeOK, Ids
<1>3. pubs' = pubs \ {p} /\ UNCHANGED <<writes, version, faults, read, kind, seen, page, own, shown>>
  BY DEF Enqueue, HandOver
<1>4. PubTypeOK'
  BY <1>1, <1>3 DEF PubTypeOK, Ids
<1>5. /\ untold' = IF stream.state = "new" THEN untold \union {p.id} ELSE untold
      /\ markers' \subseteq markers \union {p.id}
  BY DEF Enqueue
<1>6. CASE stream.state # "open"
  <2>1. stream' = stream
    BY <1>6 DEF Enqueue
  <2> QED
    BY <1>1, <1>2, <1>3, <1>4, <1>5, <1>6, <2>1 DEF StreamTypeOK
<1>7. CASE stream.state = "open"
  <2> DEFINE full == Len(stream.queue) = QueueSize
             kept == IF full THEN Tail(stream.queue) ELSE stream.queue
             e == [write |-> p.id, version |-> p.version]
  <2>1. stream' = [stream EXCEPT !.queue = Append(kept, e),
                                 !.dropped = IF full THEN @ \union {stream.queue[1].write} ELSE @]
    BY <1>7 DEF Enqueue
  <2>2. e \in Update /\ e.write = p.id
    BY <1>2 DEF Update
  <2>3. full => stream.queue # <<>>
    BY <1>1
  <2>4. kept \in Seq(Update) /\ \A k \in 1..Len(kept) : \E j \in 1..Len(stream.queue) : kept[k] = stream.queue[j]
    <3>1. CASE ~ full
      BY <1>1, <3>1
    <3>2. CASE full
      <4>1. /\ Tail(stream.queue) \in Seq(Update) /\ Len(Tail(stream.queue)) = Len(stream.queue) - 1
            /\ \A k \in 1..Len(Tail(stream.queue)) : Tail(stream.queue)[k] = stream.queue[k + 1]
        BY <1>1, <2>3, <3>2, HeadTailProperties
      <4>2. ASSUME NEW k \in 1..Len(Tail(stream.queue))
            PROVE  k + 1 \in 1..Len(stream.queue) /\ Tail(stream.queue)[k] = stream.queue[k + 1]
        BY <1>1, <4>1
      <4> QED
        BY <3>2, <4>1, <4>2
    <3> QED
      BY <3>1, <3>2
  <2>5. \A k \in 1..Len(stream.queue) :
           (\E j \in 1..Len(kept) : kept[j] = stream.queue[k]) \/ (full /\ k = 1)
    <3>1. CASE ~ full
      BY <3>1
    <3>2. CASE full
      <4>1. /\ Len(Tail(stream.queue)) = Len(stream.queue) - 1
            /\ \A k \in 1..Len(Tail(stream.queue)) : Tail(stream.queue)[k] = stream.queue[k + 1]
        BY <1>1, <2>3, <3>2, HeadTailProperties
      <4>2. ASSUME NEW k \in 1..Len(stream.queue), k # 1
            PROVE  k - 1 \in 1..Len(Tail(stream.queue)) /\ Tail(stream.queue)[k - 1] = stream.queue[k]
        BY <1>1, <4>1, <4>2
      <4> QED
        BY <3>2, <4>2
    <3> QED
      BY <3>1, <3>2
  <2> HIDE DEF kept, e
  <2>6. /\ Append(kept, e) \in Seq(Update) /\ Len(Append(kept, e)) = Len(kept) + 1 /\ Len(kept) \in Nat
        /\ \A k \in 1..Len(kept) : Append(kept, e)[k] = kept[k]
        /\ Append(kept, e)[Len(kept) + 1] = e
    BY <2>2, <2>4, AppendProperties
  <2>7. full => stream.queue[1].write \in Nat
    <3>1. full => stream.queue[1] \in Update
      BY <1>1, ElementOfSeq
    <3> QED
      BY <3>1 DEF Update
  <2>8. /\ StreamTypeOK' /\ stream'.state = stream.state /\ stream'.queue = Append(kept, e)
        /\ stream'.dropped = IF full THEN stream.dropped \union {stream.queue[1].write} ELSE stream.dropped
    BY <1>1, <2>1, <2>6, <2>7 DEF StreamTypeOK
  <2>9. \E k \in 1..Len(stream'.queue) : stream'.queue[k].write = p.id
    BY <2>2, <2>6, <2>8
  <2>10. \A k \in 1..Len(stream'.queue) : stream'.queue[k].write = p.id \/ Queued(stream'.queue[k].write)
    BY <2>2, <2>4, <2>6, <2>8 DEF Queued
  <2>11. ASSUME NEW k \in 1..Len(stream.queue)
         PROVE  \/ \E j \in 1..Len(stream'.queue) : stream'.queue[j] = stream.queue[k]
                \/ stream.queue[k].write \in stream'.dropped
    <3>1. CASE full /\ k = 1
      BY <2>8, <3>1
    <3>2. ASSUME NEW j \in 1..Len(kept), kept[j] = stream.queue[k]
          PROVE  j \in 1..Len(stream'.queue) /\ stream'.queue[j] = stream.queue[k]
      BY <2>6, <2>8, <3>2
    <3> QED
      BY <2>5, <3>1, <3>2
  <2> QED
    BY <1>2, <1>3, <1>4, <1>5, <1>7, <2>8, <2>9, <2>10, <2>11
<1> QED
  BY <1>6, <1>7

\* A connection that comes or goes starts with an empty queue.
LEMMA ConnectionFacts ==
    ASSUME PageOK
    PROVE  /\ Cut.queue = (IF stream.state = "open" THEN <<>> ELSE stream.queue)
           /\ Cut.state = (IF stream.state = "open" THEN "down" ELSE stream.state)
           /\ Cut.dropped \subseteq stream.dropped
           /\ Cut \in [state : {"new", "open", "down"}, queue : Seq(Update), dropped : SUBSET Nat]
           /\ Connection("open").state = "open" /\ Connection("open").queue = <<>>
           /\ Connection("open") \in [state : {"new", "open", "down"}, queue : Seq(Update), dropped : SUBSET Nat]
<1>1. /\ Connection("down") \in [state : {"new", "open", "down"}, queue : Seq(Update), dropped : SUBSET Nat]
      /\ Connection("down").queue = <<>> /\ Connection("down").state = "down" /\ Connection("down").dropped = {}
      /\ Connection("open") \in [state : {"new", "open", "down"}, queue : Seq(Update), dropped : SUBSET Nat]
      /\ Connection("open").queue = <<>> /\ Connection("open").state = "open"
  BY EmptySeq DEF Connection
<1> QED
  BY <1>1 DEF Cut, PageOK, StreamTypeOK

LEMMA WriteKeepsOK ==
    ASSUME PageOK, WriteStep
    PROVE  PageOK'
<1>1. PICK w \in Write :
            /\ Commit(w) /\ UNCHANGED <<read, kind, stream, markers, seen, page, shown, untold>>
            /\ \/ w.by # "own" /\ UNCHANGED own
               \/ w.by = "own" /\ own.pc = "idle" /\ own' = [pc |-> "sent", id |-> Len(writes) + 1]
  BY WriteStepFacts DEF PageOK
<1>2. PubTypeOK' /\ Len(writes') = Len(writes) + 1 /\ Len(writes) \in Nat
  BY <1>1, CommitFacts DEF PageOK, PubTypeOK
<1>3. ReadTypeOK'
  BY <1>1, <1>2 DEF PageOK, ReadTypeOK, Request
<1>4. OwnTypeOK'
  BY <1>1, <1>2 DEF PageOK, OwnTypeOK
<1> QED
  BY <1>1, <1>2, <1>3, <1>4 DEF PageOK, StreamTypeOK

\* The connection, the updates and the publications.
StreamStep ==
    \/ OwnAnswer \/ InvalidateCache \/ (\E p \in pubs : Enqueue(p))
    \/ Receive \/ (\E i \in markers : Notified(i)) \/ Connect \/ Disconnect \/ RestartMES

LEMMA RestartFacts ==
    ASSUME PageOK, RestartMES
    PROVE  /\ PubTypeOK' /\ pubs' = {} /\ ReadTypeOK'
           /\ UNCHANGED <<writes, kind, markers, seen, page, shown>>
           /\ \A r \in Readers : read'[r] = IF read[r].state = "asked" THEN Failed ELSE read[r]
           /\ stream' = Cut
           /\ untold' = IF stream.state = "new" THEN untold \union {p.id : p \in pubs} ELSE untold
           /\ own'.id = own.id /\ (own'.pc = "idle" <=> own.pc = "idle") /\ OwnTypeOK'
<1>1. /\ UNCHANGED <<writes, kind, markers, seen, page, shown>> /\ pubs' = {} /\ version' = 0 /\ Fault("restart")
      /\ stream' = Cut /\ read' = Interrupted
      /\ untold' = IF stream.state = "new" THEN untold \union {p.id : p \in pubs} ELSE untold
      /\ own' = IF own.pc = "sent" THEN [own EXCEPT !.pc = "lost"] ELSE own
  BY DEF RestartMES, Restart, RestartProcess
<1>2. PubTypeOK'
  BY <1>1, FaultFacts DEF PageOK, PubTypeOK, Ids
<1>3. \A r \in Readers : read'[r] = IF read[r].state = "asked" THEN Failed ELSE read[r]
  BY <1>1 DEF Interrupted
<1>4. ReadTypeOK'
  <2>1. Failed \in Request /\ Failed.n <= Len(writes)
    BY DEF Failed, Request, PageOK, PubTypeOK
  <2> QED
    BY <1>1, <1>3, <2>1 DEF PageOK, ReadTypeOK, Interrupted
<1>5. own'.id = own.id /\ (own'.pc = "idle" <=> own.pc = "idle") /\ OwnTypeOK'
  BY <1>1 DEF PageOK, OwnTypeOK
<1> QED
  BY <1>1, <1>2, <1>3, <1>4, <1>5

LEMMA StreamKeepsOK ==
    ASSUME PageOK, StreamStep
    PROVE  PageOK'
<1>1. ASSUME UNCHANGED <<writes, read>> PROVE ReadTypeOK'
  BY <1>1 DEF PageOK, ReadTypeOK
<1>2. ASSUME UNCHANGED pubVars PROVE PubTypeOK'
  BY <1>2 DEF PageOK, PubTypeOK, pubVars, Ids
<1>3. CASE OwnAnswer
  <2>1. UNCHANGED <<pubVars, read, kind, stream, page>> /\ own' = [own EXCEPT !.pc = "idle"]
    BY <1>3 DEF OwnAnswer, readVars
  <2>2. OwnTypeOK'
    BY <2>1 DEF PageOK, OwnTypeOK
  <2> QED
    BY <1>1, <1>2, <2>1, <2>2 DEF PageOK, StreamTypeOK, pubVars
<1>4. CASE InvalidateCache
  <2>1. UNCHANGED <<writes, read, kind, stream, page, own>> /\ PubTypeOK'
    BY <1>4, InvalidateFacts DEF InvalidateCache, client, PageOK
  <2> QED
    BY <1>1, <2>1 DEF PageOK, StreamTypeOK, OwnTypeOK
<1>5. ASSUME NEW p \in pubs, Enqueue(p) PROVE PageOK'
  <2>1. PubTypeOK' /\ StreamTypeOK' /\ UNCHANGED <<writes, read, kind, page, own>>
    BY <1>5, EnqueueFacts
  <2> QED
    BY <1>1, <2>1 DEF PageOK, OwnTypeOK
<1>6. CASE Receive
  <2>1. PICK e \in Update :
            /\ UNCHANGED <<readVars, kind, own>> /\ StreamTypeOK'
            /\ LET m == Message(e.write, e.version) IN Ignore(m) \/ Drop(m) \/ Accept(m)
    BY <1>6, ReceiveFacts
  <2>2. Message(e.write, e.version).version \in Nat
    BY MessageFacts DEF Update
  <2>3. page' \in Scheduler /\ Awake(page')
    BY <2>1, <2>2, HeardFacts
  <2> QED
    BY <1>1, <1>2, <2>1, <2>3 DEF PageOK, OwnTypeOK, readVars, pubVars
<1>7. ASSUME NEW i \in markers, Notified(i) PROVE PageOK'
  <2>1. Accept(Message(i, 0)) \/ Drop(Message(i, 0))
    BY <1>7 DEF Notified
  <2>2. page' \in Scheduler /\ Awake(page')
    BY <2>1, MessageFacts, HeardFacts
  <2>3. UNCHANGED <<readVars, kind, stream, own>>
    BY <1>7 DEF Notified
  <2> QED
    BY <1>1, <1>2, <2>2, <2>3 DEF PageOK, OwnTypeOK, StreamTypeOK, readVars, pubVars
<1>8. CASE Connect
  <2>1. UNCHANGED <<readVars, kind, own>> /\ stream' = Connection("open")
        /\ page' = IF stream.state = "new" THEN page ELSE Requested(Reconnected)
    BY <1>8 DEF Connect
  <2>2. page' \in Scheduler /\ Awake(page')
    BY <2>1, RequestedFacts DEF PageOK, Reconnected
  <2> QED
    BY <1>1, <1>2, <2>1, <2>2, ConnectionFacts DEF PageOK, OwnTypeOK, StreamTypeOK, readVars, pubVars
<1>9. CASE Disconnect
  <2>1. UNCHANGED <<writes, pubs, version, read, kind, page, own>> /\ stream' = Cut /\ Fault("disconnect")
    BY <1>9 DEF Disconnect
  <2>2. PubTypeOK'
    BY <2>1, FaultFacts DEF PageOK, PubTypeOK, Ids
  <2> QED
    BY <1>1, <2>1, <2>2, ConnectionFacts DEF PageOK, OwnTypeOK, StreamTypeOK
<1>10. CASE RestartMES
  <2>1. UNCHANGED <<kind, page>> /\ stream' = Cut /\ PubTypeOK' /\ ReadTypeOK' /\ OwnTypeOK'
    BY <1>10, RestartFacts
  <2> QED
    BY <2>1, ConnectionFacts DEF PageOK, StreamTypeOK
<1> QED
  BY <1>3, <1>4, <1>5, <1>6, <1>7, <1>8, <1>9, <1>10 DEF StreamStep

\* The steps, by what they are about.
LEMMA PageNextCases ==
    ASSUME [PageNext]_pageVars
    PROVE  WriteStep \/ StreamStep \/ ReadStep \/ SchedulerStep \/ UNCHANGED pageVars
  BY DEF PageNext, WriteStep, StreamStep, ReadStep, SchedulerStep

LEMMA PageOKStep ==
    ASSUME PageOK, [PageNext]_pageVars
    PROVE  PageOK'
<1>1. CASE UNCHANGED pageVars
  BY <1>1 DEF pageVars, readVars, pubVars, client, PageOK, PubTypeOK, Ids, ReadTypeOK, StreamTypeOK, OwnTypeOK
<1> QED
  BY <1>1, PageNextCases, WriteKeepsOK, StreamKeepsOK, ReadKeepsOK, SchedulerKeepsOK

LEMMA PageOKInit == PageInit => PageOK
<1> SUFFICES ASSUME PageInit PROVE PageOK
  OBVIOUS
<1>1. writes = <<>> /\ pubs = {} /\ version \in {0, 1} /\ faults = 0 /\ kind \in Kinds /\ own = NoOwn
  BY DEF PageInit, PubInit
<1>2. PubTypeOK
  <2>1. writes \in Seq(Write) /\ Len(writes) = 0
    BY <1>1, EmptySeq
  <2> QED
    BY <1>1, <2>1, BoundAssumption DEF PubTypeOK
<1>3. Asking \in Request /\ Asking.n <= Len(writes) /\ NoRead \in Request /\ NoRead.n <= Len(writes)
  <2>1. NoRead \in Request /\ NoRead.n = 0 /\ Len(writes) \in Nat
    BY <1>2 DEF NoRead, Request, PubTypeOK
  <2> QED
    BY <1>2, <2>1, AskingFacts
<1>4. ReadTypeOK
  <2>1. \E q \in {NoRead, Asking} : read = [refresh |-> NoRead, direct |-> q]
    BY DEF PageInit
  <2>2. read \in [Readers -> {NoRead, Asking}]
    BY <2>1, PageAssumption
  <2> QED
    BY <1>3, <2>2 DEF ReadTypeOK
<1>5. page \in {Calm(0), Calm(version)}
  BY DEF PageInit
<1>6. page \in Scheduler /\ Awake(page)
  <2>1. \A n \in Nat : Calm(n) \in Scheduler /\ Calm(n).pending = {}
    BY DEF Calm, Scheduler
  <2> QED
    BY <1>1, <1>5, <2>1 DEF Awake
<1>7. StreamTypeOK
  <2>1. stream \in {Connection("new"), Connection("open")}
    BY DEF PageInit
  <2>2. <<>> \in Seq(Update)
    BY EmptySeq
  <2>3. \A state \in {"new", "open"} :
           Connection(state) \in [state : {"new", "open", "down"}, queue : Seq(Update), dropped : SUBSET Nat]
    BY <2>2 DEF Connection
  <2> QED
    BY <2>1, <2>3 DEF StreamTypeOK
<1> QED
  BY <1>1, <1>2, <1>4, <1>6, <1>7 DEF PageOK, OwnTypeOK, NoOwn

\* The variables keep their types, and keys stay pending only with a timer, a refresh
\* in flight, or the note that the next flush looks at.
THEOREM PageTypes == PageSpec => []PageOK
<1>1. PageInit => PageOK
  BY PageOKInit
<1>2. PageOK /\ [PageNext]_pageVars => PageOK'
  BY PageOKStep
<1> QED
  BY <1>1, <1>2, PTL DEF PageSpec

\* What the page was asked to read again is never forgotten: pending keys have a
\* timer, a refresh in flight, or the note without which a flush does nothing.
THEOREM NoLostWakeupHolds == PageSpec => []NoLostWakeup
<1>1. PageOK => NoLostWakeup
  BY DEF PageOK, Awake, NoLostWakeup
<1> QED
  BY <1>1, PageTypes, PTL

-----------------------------------------------------------------------------
(* Updates on their way are those of published writes.                      *)

LEMMA ToldByWrite ==
    ASSUME PageOK, ToldInv, WriteStep
    PROVE  ToldInv'
<1>1. PICK w \in Write : Commit(w) /\ UNCHANGED <<read, kind, stream, markers, seen, page, shown, untold>>
  BY WriteStepFacts DEF PageOK
<1>2. /\ Ids' = Ids \union {Len(writes) + 1} /\ Len(writes) + 1 \notin Ids
      /\ pubs' = pubs \union {[id |-> Len(writes) + 1, version |-> 0]}
  BY <1>1, CommitFacts DEF PageOK
<1>3. \A p \in pubs : p.id \in Ids
  BY DEF PageOK, PubTypeOK
<1>4. \A p, q \in pubs' : p.id = q.id => p = q
  BY <1>2, <1>3 DEF ToldInv
<1>5. \A i \in Ids : (InPubs(i)' <=> InPubs(i)) /\ (Queued(i)' <=> Queued(i))
  BY <1>1, <1>2 DEF InPubs, Queued
<1>6. \A i \in Ids' : Queued(i)' \/ i \in markers' \/ i \in seen' => i \in Ids
  BY <1>1 DEF ToldInv, Queued
<1> QED
  BY <1>1, <1>2, <1>4, <1>5, <1>6 DEF ToldInv

LEMMA ToldByEnqueue ==
    ASSUME PageOK, ToldInv, NEW p \in pubs, Enqueue(p)
    PROVE  ToldInv'
<1>1. /\ p.id \in Ids /\ pubs' = pubs \ {p} /\ Ids' = Ids
      /\ UNCHANGED <<writes, seen>>
      /\ stream'.state = stream.state /\ (stream.state # "open" => stream' = stream)
      /\ markers' \subseteq markers \union {p.id}
  BY EnqueueFacts DEF Ids
<1>2. \A k \in 1..Len(stream'.queue) : stream'.queue[k].write = p.id \/ Queued(stream'.queue[k].write)
  BY <1>1, EnqueueFacts DEF Queued
<1>3. \A i \in Ids : InPubs(i)' <=> InPubs(i) /\ i # p.id
  BY <1>1 DEF InPubs, ToldInv
<1>4. \A i \in Ids : Queued(i)' => i = p.id \/ Queued(i)
  BY <1>2 DEF Queued
<1>5. \A k \in 1..Len(stream'.queue) : stream'.queue[k].write \in Ids
  BY <1>1, <1>2 DEF ToldInv, Queued
<1> QED
  BY <1>1, <1>3, <1>4, <1>5 DEF ToldInv

\* What is noted as seen is what arrived.
LEMMA SeenFacts ==
    ASSUME NEW i, NEW v \in Nat,
           Ignore(Message(i, v)) \/ Drop(Message(i, v)) \/ Accept(Message(i, v))
    PROVE  /\ seen' \subseteq seen \union {i} /\ seen \subseteq seen'
           /\ i \notin seen /\ i \in seen' => Accept(Message(i, v)) /\ Matters(Message(i, v))
<1>1. Message(i, v).id = 0 \/ Message(i, v).id = i
  BY MessageFacts
<1>2. CASE seen' = seen
  BY <1>2
<1>3. CASE Accept(Message(i, v)) /\ seen' # seen
  BY <1>1, <1>3 DEF Accept
<1> QED
  BY <1>2, <1>3 DEF Ignore, Drop, Accept

LEMMA ToldByReceive ==
    ASSUME PageOK, ToldInv, Receive
    PROVE  ToldInv'
<1>1. PICK e \in Update :
            /\ stream.queue # <<>> /\ e = stream.queue[1]
            /\ UNCHANGED <<readVars, markers>> /\ stream'.state = stream.state
            /\ stream'.queue = Tail(stream.queue)
            /\ Len(stream'.queue) = Len(stream.queue) - 1
            /\ \A k \in 1..Len(stream'.queue) : stream'.queue[k] = stream.queue[k + 1]
            /\ LET m == Message(e.write, e.version) IN Ignore(m) \/ Drop(m) \/ Accept(m)
  BY ReceiveFacts
<1>2. UNCHANGED <<writes, pubs>> /\ Ids' = Ids /\ Len(stream.queue) \in Nat \ {0}
  BY <1>1, EmptySeq DEF readVars, pubVars, Ids, PageOK, StreamTypeOK
<1>3. Queued(e.write)
  BY <1>1, <1>2 DEF Queued
<1>4. e.write \in Ids /\ ~ InPubs(e.write)
  BY <1>1, <1>2, <1>3 DEF ToldInv
<1>5. \A k \in 1..Len(stream'.queue) : Queued(stream'.queue[k].write) /\ stream'.queue[k].write \in Ids
  BY <1>1, <1>2 DEF Queued, ToldInv
<1>6. seen' \subseteq seen \union {e.write}
  BY <1>1, SeenFacts DEF Update
<1>7. \A i : (InPubs(i)' <=> InPubs(i)) /\ (Queued(i)' => Queued(i))
  BY <1>2, <1>5 DEF InPubs, Queued
<1>8. stream.state = "open"
  BY <1>1 DEF ToldInv
<1> QED
  BY <1>1, <1>2, <1>4, <1>5, <1>6, <1>7, <1>8 DEF ToldInv

\* Steps that only take updates away.
LEMMA ToldByLess ==
    ASSUME ToldInv, UNCHANGED writes,
           \A p \in pubs' : \E q \in pubs : p.id = q.id,
           \A p, q \in pubs' : p.id = q.id => p = q,
           markers' \subseteq markers, seen' = seen,
           stream' \in {stream, Connection("open"), Connection("down")}
    PROVE  ToldInv'
<1>1. Ids' = Ids
  BY DEF Ids
<1>2. stream' = stream \/ (stream'.queue = <<>> /\ stream'.dropped = {})
  BY DEF Connection
<1>3. \A i : (InPubs(i)' => InPubs(i)) /\ (Queued(i)' => Queued(i))
  BY <1>2, EmptySeq DEF InPubs, Queued
<1>4. \A k \in 1..Len(stream'.queue) : stream'.queue[k].write \in Ids
  BY <1>2, EmptySeq DEF ToldInv
<1> QED
  BY <1>1, <1>2, <1>3, <1>4 DEF ToldInv

LEMMA ToldInvStep ==
    ASSUME PageOK, ToldInv, [PageNext]_pageVars
    PROVE  ToldInv'
<1>1. CASE UNCHANGED <<writes, pubs, markers, seen, stream>>
  BY <1>1, ToldByLess DEF ToldInv
<1>2. CASE ReadStep \/ SchedulerStep \/ OwnAnswer \/ UNCHANGED pageVars
  BY <1>1, <1>2 DEF ReadStep, SchedulerStep, Timer, Refreshed, RefreshFails, Pause, Resume, CloseQuietly, Load, Loaded, LoadFailed,
                    OwnFails, Served, NotServed, Reply, Fail, OwnAnswer, readVars, pubVars, client, pageVars
<1>3. CASE InvalidateCache
  <2>1. PICK p \in pubs : Invalidate(p)
    BY <1>3 DEF InvalidateCache
  <2>2. PICK q : q.id = p.id /\ pubs' = (pubs \ {p}) \union {q}
    BY <2>1, InvalidateFacts DEF PageOK
  <2>3. \A x, y \in pubs' : x.id = y.id => x = y
    BY <2>2 DEF ToldInv
  <2>4. UNCHANGED <<writes, markers, seen, stream>>
    BY <1>3, <2>1 DEF InvalidateCache, Invalidate, client
  <2> QED
    BY <2>2, <2>3, <2>4, ToldByLess
<1>4. ASSUME NEW i \in markers, Notified(i) PROVE ToldInv'
  <2>1. /\ UNCHANGED <<readVars, stream>> /\ markers' = markers \ {i}
        /\ Accept(Message(i, 0)) \/ Drop(Message(i, 0))
    BY <1>4 DEF Notified
  <2>2. seen' \subseteq seen \union {i}
    BY <2>1, SeenFacts
  <2>3. UNCHANGED <<writes, pubs>> /\ Ids' = Ids /\ i \in Ids
    BY <2>1 DEF readVars, pubVars, Ids, ToldInv
  <2> QED
    BY <2>1, <2>2, <2>3 DEF ToldInv, InPubs, Queued
<1>5. CASE Connect
  <2>1. UNCHANGED <<readVars, markers, seen>> /\ stream' = Connection("open")
    BY <1>5 DEF Connect
  <2> QED
    BY <2>1, ToldByLess DEF readVars, pubVars, ToldInv
<1>6. CASE Disconnect
  <2>1. UNCHANGED <<writes, pubs, markers, seen>> /\ stream' = Cut /\ stream.state = "open"
    BY <1>6 DEF Disconnect
  <2> QED
    BY <2>1, ToldByLess DEF ToldInv, Cut
<1>7. CASE RestartMES
  <2>1. UNCHANGED <<writes, markers, seen>> /\ pubs' = {} /\ stream' = Cut
    BY <1>7, RestartFacts
  <2> QED
    BY <2>1, ToldByLess DEF ToldInv, Cut
<1> QED
  BY <1>2, <1>3, <1>4, <1>5, <1>6, <1>7, PageNextCases, ToldByWrite, ToldByEnqueue, ToldByReceive DEF StreamStep

LEMMA ToldInvInit == PageInit => ToldInv
<1> SUFFICES ASSUME PageInit PROVE ToldInv
  OBVIOUS
<1>1. writes = <<>> /\ pubs = {} /\ markers = {} /\ seen = {}
  BY DEF PageInit, PubInit
<1>2. stream.queue = <<>> /\ stream.dropped = {}
  BY DEF PageInit, Connection
<1> QED
  BY <1>1, <1>2, EmptySeq DEF ToldInv, Queued, InPubs, Ids

-----------------------------------------------------------------------------
(* What the page keeps.                                                     *)

\* A write that is shown no more is one the page may lack.
LEMMA ShownStays ==
    ASSUME [PageNext]_pageVars
    PROVE  shown \union untold \subseteq (shown \union untold)'
<1>1. CASE Refreshed \/ Loaded
  BY <1>1 DEF Refreshed, Loaded, Overwritten
<1>2. CASE ~ (Refreshed \/ Loaded)
  BY <1>2 DEF PageNext, WriteElsewhere, WriteOwn, OwnAnswer, OwnFails, InvalidateCache, Enqueue, Receive, Notified,
       Connect, Disconnect, RestartMES, Timer, RefreshFails, Load, LoadFailed, Pause, Resume, CloseQuietly, Served, NotServed,
       client, pageVars
<1> QED
  BY <1>1, <1>2

\* Answering, failing and interrupting a read keep what it covers.
LEMMA CoversStays ==
    ASSUME PageOK, NEW r \in Readers, NEW i \in Ids, Covers(r, i),
           \/ \E q \in Readers : Served(q) \/ NotServed(q)
           \/ RestartMES
           \/ read'[r] = read[r]
    PROVE  Covers(r, i)'
<1>1. read \in [Readers -> Request] /\ Len(writes) \in Nat
  BY DEF PageOK, ReadTypeOK, PubTypeOK
<1>2. ASSUME NEW q \in Readers, Served(q) PROVE Covers(r, i)'
  <2>1. read[q].state = "asked" /\ \E n \in read[q].n..Len(writes) : read' = [read EXCEPT ![q] = Answer(n)]
    BY <1>2 DEF Served, Reply
  <2>2. PICK n \in read[q].n..Len(writes) : read' = [read EXCEPT ![q] = Answer(n)]
    BY <2>1
  <2>3. CASE q = r
    <3>1. i <= read[r].n /\ read[r].n \in Nat
      BY <1>1, <2>1, <2>3 DEF Covers, Request
    <3>2. read'[r].state = "answered" /\ read'[r].n = n
      BY <1>1, <2>2, <2>3 DEF Answer
    <3> QED
      BY <1>1, <2>2, <2>3, <3>1, <3>2 DEF Covers, Ids
  <2>4. CASE q # r
    BY <1>1, <2>2, <2>4 DEF Covers
  <2> QED
    BY <2>3, <2>4
<1>3. ASSUME NEW q \in Readers, NotServed(q) PROVE Covers(r, i)'
  BY <1>1, <1>3 DEF NotServed, Fail, Covers, Failed
<1>4. CASE RestartMES
  BY <1>4, RestartFacts DEF Covers, Failed
<1>5. CASE read'[r] = read[r]
  BY <1>5 DEF Covers
<1> QED
  BY <1>2, <1>3, <1>4, <1>5

\* The stream only adds to what the scheduler has to do.
LEMMA StreamKeepsPending ==
    ASSUME PageOK, StreamStep
    PROVE  page'.keys = page.keys /\ page.pending \subseteq page'.pending /\ (Asks(page) => Asks(page'))
<1>1. CASE Receive
  <2>1. PICK e \in Update : LET m == Message(e.write, e.version) IN Ignore(m) \/ Drop(m) \/ Accept(m)
    BY <1>1, ReceiveFacts
  <2> QED
    BY <2>1, MessageFacts, HeardFacts DEF Update
<1>2. ASSUME NEW i \in markers, Notified(i) 
      PROVE  page'.keys = page.keys /\ page.pending \subseteq page'.pending /\ (Asks(page) => Asks(page'))
  <2>1. Accept(Message(i, 0)) \/ Drop(Message(i, 0))
    BY <1>2 DEF Notified
  <2> QED
    BY <2>1, MessageFacts, HeardFacts
<1>3. CASE Connect
  <2>1. page' = page \/ page' = Requested(Reconnected)
    BY <1>3 DEF Connect
  <2> QED
    BY <2>1, RequestedFacts DEF PageOK, Reconnected
<1>4. CASE UNCHANGED page
  BY <1>4
<1> QED
  BY <1>1, <1>2, <1>3, <1>4 DEF StreamStep, OwnAnswer, InvalidateCache, Enqueue, Disconnect, RestartMES, client

\* Only the end of a read outside the scheduler, or a new one, concerns "direct".
LEMMA RefreshReadFacts ==
    ASSUME PageOK, ReadStep
    PROVE  /\ UNCHANGED page
           /\ \/ \E q \in Readers : Served(q) \/ NotServed(q)
              \/ read'["refresh"] = read["refresh"]
<1>1. "refresh" \in Readers /\ read \in [Readers -> Request]
  BY PageAssumption DEF PageOK, ReadTypeOK
<1> QED
  BY <1>1 DEF ReadStep, Load, Loaded, LoadFailed, OwnFails, Served, NotServed, client

\* A published write stays kept by the scheduler's steps: a refresh that starts now
\* asks for all that is published, one that ends shows it or gives it up.
LEMMA SchedulerKeeps ==
    ASSUME PageOK, SchedulerStep, NEW i \in Ids, ~ InPubs(i), Kept(i), Ids' = Ids, UNCHANGED writes
    PROVE  Kept(i)'
<1> DEFINE key == writes[i].key
<1>1. PubTypeOK /\ ReadTypeOK /\ page \in Scheduler /\ Awake(page) /\ "refresh" \in Readers
  BY PageAssumption DEF PageOK
<1>2. Asking.state = "asked" /\ i <= Asking.n
  BY <1>1, AskingFacts
<1>3. i \in shown \union untold => (i \in shown \union untold)'
  BY ShownStays DEF PageNext, SchedulerStep
<1>4. key' = key
  OBVIOUS
<1>5. ASSUME NEW p \in Scheduler, p.keys = page.keys, p.pending = page.pending, Becomes(Executed(p)),
             i \notin shown \union untold
      PROVE  Kept(i)'
  <2>1. /\ page' = Executed(p)
        /\ read'["refresh"] = IF page.keys # Executed(p).keys /\ Executed(p).keys # {} THEN Asking ELSE read["refresh"]
    BY <1>1, <1>5, BecomesFacts
  <2>2. CASE page.keys # {}
    <3>1. page'.keys = page.keys /\ page'.pending = page.pending /\ read'["refresh"] = read["refresh"]
      BY <1>5, <2>1, <2>2, ExecutedFacts
    <3> QED
      BY <1>4, <1>5, <2>2, <3>1 DEF Kept, Covers, Asks
  <2>3. CASE page.keys = {}
    <3>1. key \in page.pending
      BY <1>5, <2>3 DEF Kept
    <3>2. page'.keys = page.pending
      BY <1>5, <2>1, <2>3, ExecutedFacts
    <3>3. read'["refresh"] = Asking
      BY <2>1, <2>3, <3>1, <3>2
    <3> QED
      BY <1>2, <1>4, <3>1, <3>2, <3>3 DEF Kept, Covers
  <2> QED
    BY <2>2, <2>3
<1>6. ASSUME SettleReader(page'), page' = Settled(page), key \in page.pending PROVE Kept(i)'
  <2>1. read'["refresh"] = IF page'.keys # {} THEN Asking ELSE NoRead
    BY <1>1, <1>6, SettleReaderFacts
  <2>2. CASE page'.keys = page.pending
    BY <1>2, <1>4, <1>6, <2>1, <2>2 DEF Kept, Covers
  <2>3. CASE page'.pending = page.pending /\ page'.paused
    BY <1>4, <1>6, <2>3 DEF Kept, Asks
  <2> QED
    BY <1>1, <1>6, <2>2, <2>3, SettledFacts
<1>7. CASE i \in shown \union untold
  BY <1>3, <1>7 DEF Kept
<1>8. CASE i \notin shown \union untold /\ Timer
  <2> DEFINE p == [page EXCEPT !.timer = FALSE]
  <2>1. p \in Scheduler /\ p.keys = page.keys /\ p.pending = page.pending
    BY <1>1 DEF Scheduler
  <2>2. Becomes(Executed(p))
    BY <1>8 DEF Timer
  <2> HIDE DEF p
  <2> QED
    BY <1>5, <1>8, <2>1, <2>2
<1>9. CASE i \notin shown \union untold /\ Refreshed
  <2>1. read["refresh"].state = "answered" /\ page' = Settled(page) /\ SettleReader(page')
    BY <1>9 DEF Refreshed
  <2>2. CASE key \in page.pending
    BY <1>6, <2>1, <2>2
  <2>3. CASE key \in page.keys /\ Covers("refresh", i)
    <3>1. i \in Of(read["refresh"].n, page.keys)
      BY <1>1, <2>1, <2>3 DEF Covers, Of, Ids, ReadTypeOK, Request
    <3> QED
      BY <1>9, <3>1 DEF Refreshed, Kept
  <2> QED
    BY <1>9, <2>2, <2>3 DEF Kept
<1>10. CASE i \notin shown \union untold /\ RefreshFails
  <2>1. page' = Settled(page) /\ SettleReader(page')
    BY <1>10 DEF RefreshFails
  <2>2. CASE key \in page.pending
    BY <1>6, <2>1, <2>2
  <2>3. CASE key \in page.keys
    <3>1. i \in Of(Len(writes), page.keys)
      BY <2>3 DEF Of, Ids
    <3> QED
      BY <1>10, <3>1 DEF RefreshFails, Kept
  <2> QED
    BY <1>10, <2>2, <2>3 DEF Kept
<1>11. CASE i \notin shown \union untold /\ Pause
  <2>1. page'.keys = page.keys /\ page'.pending = page.pending /\ page'.paused /\ UNCHANGED read
    BY <1>1, <1>11 DEF Pause, readVars, Scheduler
  <2> QED
    BY <1>4, <1>11, <2>1 DEF Kept, Covers, Asks
<1>12. CASE i \notin shown \union untold /\ Resume
  <2> DEFINE p == [page EXCEPT !.paused = FALSE]
             q == [p EXCEPT !.hasPending = FALSE, !.timer = FALSE]
  <2>1. /\ q \in Scheduler /\ q.keys = page.keys /\ q.pending = page.pending
        /\ p \in Scheduler /\ p.keys = page.keys /\ p.pending = page.pending
    BY <1>1 DEF Scheduler
  <2>2. Becomes(IF page.hasPending THEN Executed(q) ELSE p)
    BY <1>12 DEF Resume
  <2> HIDE DEF p, q
  <2>3. CASE page.hasPending
    BY <1>5, <1>12, <2>1, <2>2, <2>3
  <2>4. CASE ~ page.hasPending
    <3>1. page' = p /\ read'["refresh"] = read["refresh"]
      BY <1>1, <2>1, <2>2, <2>4, BecomesFacts
    <3>2. key \in page.pending => Asks(page')
      BY <1>1, <2>1, <2>4, <3>1 DEF Awake, Asks, Scheduler, p
    <3> QED
      BY <1>4, <1>12, <2>1, <3>1, <3>2 DEF Kept, Covers
  <2> QED
    BY <2>3, <2>4
<1>13. CASE i \notin shown \union untold /\ CloseQuietly
  <2>1. page'.keys = page.keys /\ page'.pending = page.pending /\ UNCHANGED read
    BY <1>1, <1>13 DEF CloseQuietly, readVars, Scheduler
  <2>2. CASE key \in page.pending /\ ~ Asks(page')
    <3>1. i \in Of(Len(writes), page.pending)
      BY <2>2 DEF Of, Ids
    <3> QED
      BY <1>13, <2>2, <3>1 DEF CloseQuietly, Kept
  <2> QED
    BY <1>4, <1>13, <2>1, <2>2 DEF Kept, Covers
<1> QED
  BY <1>7, <1>8, <1>9, <1>10, <1>11, <1>12, <1>13 DEF SchedulerStep

LEMMA KeptStays ==
    ASSUME PageOK, [PageNext]_pageVars, NEW i \in Ids, ~ InPubs(i), Kept(i)
    PROVE  Kept(i)'
<1>1. (i \in shown \union untold => (i \in shown \union untold)') /\ writes'[i].key = writes[i].key
  BY ShownStays, WritesStay DEF PageOK
<1>2. "refresh" \in Readers
  BY PageAssumption
<1>3. ASSUME page'.keys = page.keys, page.pending \subseteq page'.pending, Asks(page) => Asks(page'),
             Covers("refresh", i) => Covers("refresh", i)'
      PROVE  Kept(i)'
  BY <1>1, <1>3 DEF Kept
<1>4. CASE WriteStep \/ UNCHANGED pageVars
  <2>1. UNCHANGED <<page, read>>
    BY <1>4, WriteStepFacts DEF PageOK, pageVars, readVars, client
  <2> QED
    BY <1>3, <2>1 DEF Covers
<1>5. CASE StreamStep
  <2>1. RestartMES \/ UNCHANGED read
    BY <1>5 DEF StreamStep, OwnAnswer, InvalidateCache, Enqueue, Receive, Notified, Connect, Disconnect, readVars
  <2>2. Covers("refresh", i) => Covers("refresh", i)'
    BY <1>2, <2>1, CoversStays
  <2> QED
    BY <1>3, <1>5, <2>2, StreamKeepsPending
<1>6. CASE ReadStep
  <2>1. Covers("refresh", i) => Covers("refresh", i)'
    BY <1>2, <1>6, RefreshReadFacts, CoversStays
  <2> QED
    BY <1>3, <1>6, <2>1, RefreshReadFacts
<1>7. CASE SchedulerStep
  <2>1. UNCHANGED writes
    BY <1>7 DEF SchedulerStep, Timer, Refreshed, RefreshFails, Pause, Resume, CloseQuietly, readVars, pubVars
  <2> QED
    BY <1>7, <2>1, SchedulerKeeps DEF Ids
<1> QED
  BY <1>4, <1>5, <1>6, <1>7, PageNextCases

\* An accepted update of a shown key makes the key pending.
LEMMA AcceptKeeps ==
    ASSUME PageOK, NEW i \in WatchedIds, NEW v \in Nat, Accept(Message(i, v)), UNCHANGED writes
    PROVE  Kept(i)'
<1>1. writes[i].key \in Watched
  BY DEF WatchedIds
<1>2. writes[i].key \in page'.pending /\ Asks(page')
  BY <1>1, MessageFacts, HeardFacts
<1> QED
  BY <1>2 DEF Kept

LEMMA SeenInvStep ==
    ASSUME PageOK, ToldInv, SeenInv, [PageNext]_pageVars
    PROVE  SeenInv'
<1>1. ASSUME NEW i \in seen, i \in WatchedIds' PROVE Kept(i)'
  <2>1. i \in Ids /\ ~ InPubs(i)
    BY DEF ToldInv
  <2>2. i \in WatchedIds
    BY <1>1, <2>1, WritesStay DEF WatchedIds, PageOK
  <2> QED
    BY <2>1, <2>2, KeptStays DEF SeenInv
<1>2. ASSUME NEW i, i \notin seen, NEW v \in Nat, i \in seen', i \in WatchedIds', UNCHANGED writes,
             Ignore(Message(i, v)) \/ Drop(Message(i, v)) \/ Accept(Message(i, v))
      PROVE  Kept(i)'
  <2>1. i \in WatchedIds /\ Accept(Message(i, v))
    BY <1>2, SeenFacts DEF WatchedIds, Ids
  <2> QED
    BY <1>2, <2>1, AcceptKeeps
<1>3. CASE seen' \subseteq seen
  BY <1>1, <1>3 DEF SeenInv
<1>4. CASE Receive
  <2>1. PICK e \in Update :
            /\ UNCHANGED readVars
            /\ LET m == Message(e.write, e.version) IN Ignore(m) \/ Drop(m) \/ Accept(m)
    BY <1>4, ReceiveFacts
  <2>2. seen' \subseteq seen \union {e.write} /\ e.version \in Nat /\ UNCHANGED writes
    BY <2>1, SeenFacts DEF Update, readVars, pubVars
  <2> QED
    BY <1>1, <1>2, <2>1, <2>2 DEF SeenInv
<1>5. ASSUME NEW i \in markers, Notified(i) PROVE SeenInv'
  <2>1. UNCHANGED readVars /\ (Accept(Message(i, 0)) \/ Drop(Message(i, 0)))
    BY <1>5 DEF Notified
  <2>2. seen' \subseteq seen \union {i} /\ UNCHANGED writes
    BY <2>1, SeenFacts DEF readVars, pubVars
  <2> QED
    BY <1>1, <1>2, <2>1, <2>2 DEF SeenInv
<1>6. Receive \/ (\E i \in markers : Notified(i)) \/ seen' \subseteq seen
  BY WriteStepFacts, EnqueueFacts, RestartFacts, PageNextCases DEF PageOK, StreamStep, OwnAnswer, InvalidateCache, Connect,
       Disconnect, ReadStep, SchedulerStep, Timer, Refreshed, RefreshFails, Pause, Resume, CloseQuietly, Load, Loaded, LoadFailed,
       OwnFails, Served, NotServed, pageVars, client
<1> QED
  BY <1>3, <1>4, <1>5, <1>6

\* Only writers add writes.
LEMMA WriteStepOrNot ==
    ASSUME PageOK, [PageNext]_pageVars
    PROVE  WriteStep \/ UNCHANGED writes
  BY RestartFacts, EnqueueFacts, InvalidateFacts, PageNextCases DEF PageOK, StreamStep, OwnAnswer, InvalidateCache, Receive,
     Notified, Connect, Disconnect, ReadStep, SchedulerStep, Timer, Refreshed, RefreshFails, Pause, Resume, CloseQuietly, Load, Loaded,
     LoadFailed, OwnFails, Served, NotServed, Reply, Fail, pageVars, readVars, pubVars

\* A write of the page is in progress until it is shown or given up.
LEMMA OwnStays ==
    ASSUME PageOK, [PageNext]_pageVars, NEW i \in Ids, InOwn(i)
    PROVE  InOwn(i)' \/ (i \in shown \union untold)'
<1>1. CASE OwnAnswer \/ OwnFails
  BY <1>1 DEF OwnAnswer, OwnFails, InOwn
<1>2. CASE RestartMES
  BY <1>2, RestartFacts DEF InOwn
<1>3. CASE WriteStep
  BY <1>3, WriteStepFacts DEF InOwn, PageOK
<1>4. CASE ~ (OwnAnswer \/ OwnFails \/ RestartMES \/ WriteStep)
  <2>1. UNCHANGED own
    BY <1>4 DEF PageNext, WriteStep, InvalidateCache, Enqueue, Receive, Notified, Connect, Disconnect, Timer, Refreshed,
       RefreshFails, Load, Loaded, LoadFailed, Pause, Resume, CloseQuietly, Served, NotServed, client, pageVars
  <2> QED
    BY <2>1 DEF InOwn
<1> QED
  BY <1>1, <1>2, <1>3, <1>4

LEMMA OwnInvStep ==
    ASSUME PageOK, OwnInv, [PageNext]_pageVars
    PROVE  OwnInv'
<1>1. ASSUME NEW i \in Ids, writes'[i].by = "own" PROVE (i \in shown \union untold)' \/ InOwn(i)'
  <2>1. writes[i].by = "own"
    BY <1>1, WritesStay DEF PageOK
  <2> QED
    BY <2>1, ShownStays, OwnStays DEF OwnInv
<1>2. CASE UNCHANGED writes
  <2>1. Ids' = Ids
    BY <1>2 DEF Ids
  <2> QED
    BY <1>1, <2>1 DEF OwnInv
<1>3. CASE WriteStep
  <2>1. PICK w \in Write :
            /\ Commit(w)
            /\ \/ w.by # "own"
               \/ own' = [pc |-> "sent", id |-> Len(writes) + 1]
    BY <1>3, WriteStepFacts DEF PageOK
  <2>2. Ids' = Ids \union {Len(writes) + 1} /\ writes'[Len(writes) + 1] = w
    BY <2>1, CommitFacts DEF PageOK
  <2>3. ASSUME NEW i, i = Len(writes) + 1, w.by = "own" PROVE InOwn(i)'
    BY <2>1, <2>3 DEF InOwn
  <2>4. ASSUME NEW i \in Ids', writes'[i].by = "own" PROVE (i \in shown \union untold)' \/ InOwn(i)'
    BY <1>1, <2>2, <2>3, <2>4
  <2> QED
    BY <2>4 DEF OwnInv
<1>4. WriteStep \/ UNCHANGED writes
  BY WriteStepOrNot
<1> QED
  BY <1>2, <1>3, <1>4

LEMMA SeenInvInit == PageInit => SeenInv
  BY DEF PageInit, SeenInv

LEMMA OwnInvInit == PageInit => OwnInv
<1> SUFFICES ASSUME PageInit PROVE OwnInv
  OBVIOUS
<1>1. writes = <<>>
  BY DEF PageInit, PubInit
<1> QED
  BY <1>1, EmptySeq DEF OwnInv, Ids

-----------------------------------------------------------------------------
(* Nothing is forgotten.                                                    *)

\* What is being published ends up on its way to the page, if it can.
LEMMA PublishedStays ==
    ASSUME PageOK, [PageNext]_pageVars, NEW i \in Ids, InPubs(i)
    PROVE  OnTheWay(i)' \/ Kept(i)'
<1>1. CASE WriteStep
  <2>1. PICK w \in Write : Commit(w)
    BY <1>1, WriteStepFacts DEF PageOK
  <2>2. pubs \subseteq pubs'
    BY <2>1, CommitFacts DEF PageOK
  <2> QED
    BY <2>2 DEF OnTheWay, InPubs
<1>2. CASE InvalidateCache
  <2>1. PICK p \in pubs : Invalidate(p)
    BY <1>2 DEF InvalidateCache
  <2>2. PICK q : q.id = p.id /\ pubs' = (pubs \ {p}) \union {q}
    BY <2>1, InvalidateFacts DEF PageOK
  <2> QED
    BY <2>2 DEF OnTheWay, InPubs
<1>3. ASSUME NEW p \in pubs, Enqueue(p) PROVE OnTheWay(i)' \/ Kept(i)'
  <2>1. /\ pubs' = pubs \ {p} /\ stream'.state = stream.state /\ stream.state \in {"new", "open", "down"}
        /\ stream.state = "open" => \E k \in 1..Len(stream'.queue) : stream'.queue[k].write = p.id
        /\ untold' = IF stream.state = "new" THEN untold \union {p.id} ELSE untold
    BY <1>3, EnqueueFacts DEF PageOK, StreamTypeOK
  <2>2. CASE p.id # i
    BY <2>1, <2>2 DEF OnTheWay, InPubs
  <2>3. CASE p.id = i
    BY <2>1, <2>3 DEF OnTheWay, Queued, Kept
  <2> QED
    BY <2>2, <2>3
<1>4. CASE RestartMES
  <2>1. /\ stream'.state = (IF stream.state = "open" THEN "down" ELSE stream.state)
        /\ untold' = IF stream.state = "new" THEN untold \union {p.id : p \in pubs} ELSE untold
        /\ stream.state \in {"new", "open", "down"}
    BY <1>4, RestartFacts, ConnectionFacts DEF PageOK, StreamTypeOK
  <2> QED
    BY <2>1 DEF OnTheWay, InPubs, Kept
<1>5. CASE UNCHANGED pubs
  BY <1>5 DEF OnTheWay, InPubs
<1>6. ReadStep => UNCHANGED pubs
  BY DEF ReadStep, Load, Loaded, LoadFailed, OwnFails, Served, NotServed, Reply, Fail, readVars, pubVars
<1>7. SchedulerStep => UNCHANGED pubs
  BY DEF SchedulerStep, Timer, Refreshed, RefreshFails, Pause, Resume, CloseQuietly, readVars, pubVars
<1>8. OwnAnswer \/ Receive \/ (\E q \in markers : Notified(q)) \/ Connect \/ Disconnect \/ UNCHANGED pageVars => UNCHANGED pubs
  BY DEF OwnAnswer, Receive, Notified, Connect, Disconnect, readVars, pubVars, pageVars
<1> QED
  BY <1>1, <1>2, <1>3, <1>4, <1>5, <1>6, <1>7, <1>8, PageNextCases DEF StreamStep

\* The update that arrives leaves its write kept, or was of the page itself; the
\* others stay queued, and what the queue lost is asked for or given up.
LEMMA ReceivedStays ==
    ASSUME PageOK, ToldInv, SeenInv, OwnInv, Receive, NEW i \in WatchedIds, OnTheWay(i), ~ InPubs(i)
    PROVE  Tracked(i)'
<1>1. PICK e \in Update :
            /\ stream.queue # <<>> /\ e = stream.queue[1]
            /\ UNCHANGED <<readVars, kind, markers, own, shown>>
            /\ stream'.state = stream.state
            /\ Len(stream'.queue) = Len(stream.queue) - 1
            /\ \A k \in 1..Len(stream'.queue) : stream'.queue[k] = stream.queue[k + 1]
            /\ \/ /\ Ignore(Message(e.write, e.version))
                  /\ stream'.dropped = stream.dropped /\ UNCHANGED untold
               \/ /\ Drop(Message(e.write, e.version))
                  /\ stream'.dropped = {} /\ untold' = untold \union stream.dropped
               \/ /\ Accept(Message(e.write, e.version)) /\ stream'.dropped = {}
                  /\ untold' = IF Gap(Message(e.write, e.version)) THEN untold ELSE untold \union stream.dropped
  BY ReceiveFacts
<1> DEFINE m == Message(e.write, e.version)
<1>2. /\ UNCHANGED writes /\ i \in Ids /\ writes[i].key \in Watched /\ [PageNext]_pageVars
      /\ Len(stream.queue) \in Nat /\ e.version \in Nat
  BY <1>1 DEF readVars, pubVars, WatchedIds, PageNext, PageOK, StreamTypeOK, Update
<1>3. m.version \in Nat /\ (m.id = 0 \/ m.id = e.write)
  BY <1>2, MessageFacts
<1> HIDE DEF m
<1>4. CASE e.write = i
  <2>1. CASE Ignore(m)
    <3>1. writes[i].by = "own"
      BY <1>3, <1>4, <2>1 DEF Ignore, Mine
    <3>2. i \in shown \union untold \/ InOwn(i)
      BY <1>2, <3>1 DEF OwnInv
    <3> QED
      BY <1>1, <1>2, <3>2, ShownStays DEF Tracked, Kept, InOwn
  <2>2. CASE Drop(m)
    <3>1. m.id \in seen /\ 0 \notin Ids
      BY <2>2 DEF Drop, Repeated, Ids
    <3>2. i \in seen
      BY <1>3, <1>4, <3>1 DEF ToldInv
    <3> QED
      BY <1>2, <3>2, KeptStays DEF SeenInv, Tracked
  <2>3. CASE Accept(m)
    BY <1>2, <1>4, <2>3, AcceptKeeps DEF Tracked, m
  <2> QED
    BY <1>1, <2>1, <2>2, <2>3 DEF m
<1>5. CASE Queued(i) /\ e.write # i
  <2>1. PICK k \in 1..Len(stream.queue) : stream.queue[k].write = i
    BY <1>5 DEF Queued
  <2>2. k - 1 \in 1..Len(stream'.queue) /\ stream'.queue[k - 1] = stream.queue[k]
    BY <1>1, <1>2, <1>5, <2>1
  <2> QED
    BY <2>1, <2>2 DEF Tracked, OnTheWay, Queued
<1>6. CASE i \in stream.dropped
  <2>1. CASE Accept(m) /\ Gap(m)
    <3>1. Watched \subseteq page'.pending /\ Asks(page')
      BY <1>3, <2>1, HeardFacts
    <3> QED
      BY <1>2, <3>1 DEF Tracked, Kept
  <2>2. CASE i \in untold' \/ i \in stream'.dropped
    BY <2>2 DEF Tracked, Kept, OnTheWay
  <2> QED
    BY <1>1, <1>6, <2>1, <2>2 DEF m
<1>7. CASE stream.state = "down"
  BY <1>1, <1>7 DEF Tracked, OnTheWay
<1> QED
  BY <1>4, <1>5, <1>6, <1>7 DEF OnTheWay

\* Losing the connection leaves everything to the next one, which asks for all.
LEMMA OnTheWayStays ==
    ASSUME PageOK, ToldInv, SeenInv, OwnInv, [PageNext]_pageVars, UNCHANGED writes,
           NEW i \in WatchedIds, OnTheWay(i), ~ InPubs(i)
    PROVE  Tracked(i)'
<1>1. CASE Receive
  BY <1>1, ReceivedStays
<1>2. CASE UNCHANGED stream
  BY <1>2 DEF Tracked, OnTheWay, Queued
<1>3. CASE Connect
  <2>1. /\ stream.state = "down"
        /\ page' = Requested(Reconnected)
    BY <1>3, EmptySeq DEF Connect, ToldInv, OnTheWay, Queued
  <2>2. Watched \subseteq page'.pending /\ Asks(page')
    BY <2>1, RequestedFacts, PageAssumption DEF PageOK, Reconnected
  <2> QED
    BY <2>2 DEF Tracked, Kept, WatchedIds
<1>4. CASE Disconnect \/ RestartMES
  <2>1. stream' = Cut
    BY <1>4, RestartFacts DEF Disconnect
  <2>2. stream.state \in {"open", "down"}
    BY EmptySeq DEF ToldInv, OnTheWay, Queued, PageOK, StreamTypeOK
  <2> QED
    BY <2>1, <2>2, ConnectionFacts DEF Tracked, OnTheWay
<1>5. ASSUME NEW p \in pubs, Enqueue(p) PROVE Tracked(i)'
  <2>1. /\ stream.dropped \subseteq stream'.dropped /\ stream'.state = stream.state
        /\ stream.state # "open" => stream' = stream
        /\ stream.state = "open" =>
              \A k \in 1..Len(stream.queue) :
                 \/ \E j \in 1..Len(stream'.queue) : stream'.queue[j] = stream.queue[k]
                 \/ stream.queue[k].write \in stream'.dropped
    BY <1>5, EnqueueFacts
  <2> QED
    BY <2>1 DEF Tracked, OnTheWay, Queued
<1>6. WriteStep => UNCHANGED stream
  BY WriteStepFacts DEF PageOK
<1>7. ReadStep \/ SchedulerStep \/ UNCHANGED pageVars => UNCHANGED stream
  BY DEF ReadStep, Load, Loaded, LoadFailed, OwnFails, Served, NotServed, SchedulerStep, Timer, Refreshed,
         RefreshFails, Pause, Resume, CloseQuietly, client, pageVars
<1>8. OwnAnswer \/ InvalidateCache \/ (\E q \in markers : Notified(q)) => UNCHANGED stream
  BY DEF OwnAnswer, InvalidateCache, Notified, client
<1> QED
  BY <1>1, <1>2, <1>3, <1>4, <1>5, <1>6, <1>7, <1>8, PageNextCases DEF StreamStep

\* A read outside the scheduler ends with the write shown or given up.
LEMMA DirectStays ==
    ASSUME PageOK, [PageNext]_pageVars, UNCHANGED writes, NEW i \in WatchedIds, Covers("direct", i)
    PROVE  Tracked(i)'
<1>1. /\ "direct" \in Readers /\ "refresh" \in Readers /\ i \in Ids /\ writes[i].key \in Watched
      /\ read \in [Readers -> Request] /\ PubTypeOK /\ ReadTypeOK /\ page \in Scheduler
  BY PageAssumption DEF WatchedIds, PageOK, ReadTypeOK
<1>2. CASE \/ \E q \in Readers : Served(q) \/ NotServed(q)
           \/ RestartMES
           \/ read'["direct"] = read["direct"]
  BY <1>1, <1>2, CoversStays DEF Tracked
<1>3. CASE Load \/ OwnFails
  <2>1. read["direct"] # NoRead
    BY DEF Covers, NoRead
  <2>2. UNCHANGED read
    BY <1>3, <2>1 DEF Load, OwnFails
  <2> QED
    BY <1>2, <2>2
<1>4. CASE Loaded
  <2>1. i \in Of(read["direct"].n, Watched)
    BY <1>1, <1>4 DEF Loaded, Covers, Of, Ids, Request, PubTypeOK
  <2> QED
    BY <1>4, <2>1 DEF Loaded, Tracked, Kept
<1>5. CASE LoadFailed
  BY <1>5 DEF LoadFailed, Tracked, Kept
<1>6. CASE Timer \/ Resume
  <2>1. \E p : Becomes(p)
    BY <1>6 DEF Timer, Resume
  <2> QED
    BY <1>1, <1>2, <2>1, BecomesFacts
<1>7. CASE Refreshed \/ RefreshFails
  <2>1. SettleReader(page')
    BY <1>7 DEF Refreshed, RefreshFails
  <2> QED
    BY <1>1, <1>2, <2>1, SettleReaderFacts
<1>8. WriteStep \/ Pause \/ CloseQuietly \/ UNCHANGED pageVars => UNCHANGED read
  BY WriteStepFacts DEF PageOK, Pause, CloseQuietly, readVars, pageVars
<1>9. StreamStep => RestartMES \/ UNCHANGED read
  BY DEF StreamStep, OwnAnswer, InvalidateCache, Enqueue, Receive, Notified, Connect, Disconnect, readVars
<1> QED
  BY <1>2, <1>3, <1>4, <1>5, <1>6, <1>7, <1>8, <1>9, PageNextCases DEF ReadStep, SchedulerStep

LEMMA NothingForgottenStep ==
    ASSUME PageOK, ToldInv, SeenInv, OwnInv, NothingForgotten, [PageNext]_pageVars
    PROVE  NothingForgotten'
<1>1. ASSUME NEW i \in WatchedIds, UNCHANGED writes PROVE Tracked(i)'
  <2>1. i \in Ids /\ Tracked(i)
    BY <1>1 DEF NothingForgotten, WatchedIds
  <2>2. CASE InPubs(i)
    BY <2>1, <2>2, PublishedStays DEF Tracked
  <2>3. CASE ~ InPubs(i)
    <3>1. CASE OnTheWay(i)
      BY <1>1, <2>3, <3>1, OnTheWayStays
    <3>2. CASE Kept(i)
      BY <2>1, <2>3, <3>2, KeptStays DEF Tracked
    <3>3. CASE Covers("direct", i)
      BY <1>1, <3>3, DirectStays
    <3>4. CASE InOwn(i)
      BY <2>1, <3>4, OwnStays DEF Tracked, Kept
    <3> QED
      BY <2>1, <3>1, <3>2, <3>3, <3>4 DEF Tracked
  <2> QED
    BY <2>2, <2>3
<1>2. CASE UNCHANGED writes
  <2>1. WatchedIds' = WatchedIds
    BY <1>2 DEF WatchedIds, Ids
  <2> QED
    BY <1>1, <1>2, <2>1 DEF NothingForgotten
<1>3. CASE WriteStep
  <2>1. PICK w \in Write :
            /\ Commit(w) /\ UNCHANGED <<read, stream, page, shown, untold>>
            /\ own.pc # "idle" => UNCHANGED own
    BY <1>3, WriteStepFacts DEF PageOK
  <2>2. /\ Ids' = Ids \union {Len(writes) + 1} /\ \A i \in Ids : writes'[i] = writes[i]
        /\ pubs' = pubs \union {[id |-> Len(writes) + 1, version |-> 0]}
    BY <2>1, CommitFacts DEF PageOK
  <2>3. ASSUME NEW i, i = Len(writes) + 1 PROVE Tracked(i)'
    <3> DEFINE p == [id |-> i, version |-> 0]
    <3>1. p \in pubs' /\ p.id = i
      BY <2>2, <2>3
    <3> HIDE DEF p
    <3>2. InPubs(i)'
      BY <3>1 DEF InPubs
    <3> QED
      BY <3>2 DEF Tracked, OnTheWay
  <2>4. ASSUME NEW i \in Ids, i \in WatchedIds' PROVE Tracked(i)'
    <3>1. i \in WatchedIds /\ Tracked(i) /\ writes'[i] = writes[i]
      BY <2>2, <2>4 DEF WatchedIds, NothingForgotten
    <3>2. OnTheWay(i) => OnTheWay(i)'
      BY <2>1, <2>2 DEF OnTheWay, InPubs, Queued
    <3>3. Kept(i) => Kept(i)'
      BY <2>1, <3>1 DEF Kept, Covers
    <3>4. Covers("direct", i) => Covers("direct", i)'
      BY <2>1 DEF Covers
    <3>5. InOwn(i) => InOwn(i)'
      BY <2>1 DEF InOwn
    <3> QED
      BY <3>1, <3>2, <3>3, <3>4, <3>5 DEF Tracked
  <2> QED
    BY <2>2, <2>3, <2>4 DEF NothingForgotten, WatchedIds
<1>4. WriteStep \/ UNCHANGED writes
  BY WriteStepOrNot
<1> QED
  BY <1>2, <1>3, <1>4

LEMMA NothingForgottenInit == PageInit => NothingForgotten
<1> SUFFICES ASSUME PageInit PROVE NothingForgotten
  OBVIOUS
<1>1. writes = <<>>
  BY DEF PageInit, PubInit
<1> QED
  BY <1>1, EmptySeq DEF NothingForgotten, WatchedIds, Ids

\* A page at rest shows every write of its keys but those it missed: with nothing
\* on its way and nothing left that asks, a write that is tracked is shown, given up or
\* lost by the full queue. No order of updates, answers, reads and faults leaves
\* old data on a page at rest in another way.
THEOREM QuietMeansFreshHolds == PageSpec => []QuietMeansFresh
<1>1. PageInit => ToldInv /\ SeenInv /\ OwnInv /\ NothingForgotten
  BY ToldInvInit, SeenInvInit, OwnInvInit, NothingForgottenInit
<1>2. PageOK /\ ToldInv /\ SeenInv /\ OwnInv /\ NothingForgotten /\ [PageNext]_pageVars
        => ToldInv' /\ SeenInv' /\ OwnInv' /\ NothingForgotten'
  BY ToldInvStep, SeenInvStep, OwnInvStep, NothingForgottenStep
<1>3. NothingForgotten => QuietMeansFresh
  <2> SUFFICES ASSUME NothingForgotten, Quiet, NEW i \in WatchedIds PROVE i \in shown \union Missed
    BY DEF QuietMeansFresh
  <2>1. ~ Queued(i) /\ ~ InPubs(i) /\ stream.state # "down"
    BY EmptySeq DEF Quiet, Queued, InPubs
  <2>2. ~ Covers("direct", i) /\ ~ InOwn(i)
    BY DEF Quiet, Covers, NoRead, InOwn
  <2>3. Kept(i) => i \in shown \union untold
    BY DEF Quiet, Kept, Asks
  <2> QED
    BY <2>1, <2>2, <2>3 DEF NothingForgotten, Tracked, OnTheWay, Missed
<1> QED
  BY <1>1, <1>2, <1>3, PageTypes, PTL DEF PageSpec
=============================================================================
