----------------------- MODULE LimsCommunication_proofs -----------------------
(***************************************************************************)
(* Proofs about LimsOutbox and LimsCommunication.  The outbox on its own:  *)
(* no committed event is lost, the state of a completion record is true of *)
(* its latest revision, and the outbox implements LimsRelay (safety).      *)
(* Under the guard of the communication: the same, the alarm is about the  *)
(* active fault and stays until a complete check, and "online" means       *)
(* reconciled.                                                             *)
(***************************************************************************)
EXTENDS LimsCommunication, TLAPS

-----------------------------------------------------------------------------
(* The outbox.                                                              *)

\* What the worker holds: events of committed transactions; after an
\* acknowledgement the event is kept, and once it is marked no record that has it
\* as its latest revision is still queued.
WorkerInv ==
    /\ worker.pc \in {"journal", "mark", "finish", "failed"} => worker.todo # <<>>
    /\ worker.pc = "journal" => Journaling
    /\ worker.pc \in {"mark", "finish"} => Event \in Kept
    /\ worker.pc = "finish" =>
          \A c \in Completions : Current(c) = Event => record[c].state # "queued"

\* Only committed events travel.
OnlyCommitted ==
    /\ Elements(outbox) \subseteq Committed
    /\ Elements(worker.todo) \subseteq Committed
    /\ Elements(journal) \subseteq Committed
    /\ lims \subseteq Committed

\* A record has a revision exactly when it was materialized.
RevisionInv ==
    \A c \in Completions : record[c].revision = 0 <=> record[c].state \in {"none", "pending"}

IInv ==
    /\ TypeOK /\ NothingLost /\ RecordIsTruthful
    /\ WorkerInv /\ OnlyCommitted /\ RevisionInv

-----------------------------------------------------------------------------
(* Sequences.                                                               *)

\* Append adds one element.
LEMMA AppendElements ==
    ASSUME NEW S, NEW s \in Seq(S), NEW e \in S
    PROVE  /\ Append(s, e) \in Seq(S)
           /\ Elements(Append(s, e)) = Elements(s) \union {e}
<1>1. Append(s, e) \in Seq(S) /\ Len(Append(s, e)) = Len(s) + 1
  OBVIOUS
<1>2. \A i \in 1..Len(s) : Append(s, e)[i] = s[i]
  OBVIOUS
<1>3. Append(s, e)[Len(s) + 1] = e
  OBVIOUS
<1>4. Len(s) \in Nat
  OBVIOUS
<1>5. 1..(Len(s) + 1) = 1..Len(s) \union {Len(s) + 1}
  BY <1>4
<1> QED
  BY <1>1, <1>2, <1>3, <1>5 DEF Elements

\* Elements of a sequence over S are in S.
LEMMA ElementsType ==
    ASSUME NEW S, NEW s \in Seq(S)
    PROVE  Elements(s) \subseteq S
  BY DEF Elements

\* A prefix has no other elements.
LEMMA PrefixElements ==
    ASSUME NEW S, NEW s \in Seq(S), NEW n \in 0..Len(s)
    PROVE  /\ SubSeq(s, 1, n) \in Seq(S)
           /\ Elements(SubSeq(s, 1, n)) \subseteq Elements(s)
<1>1. SubSeq(s, 1, n) \in Seq(S) /\ Len(SubSeq(s, 1, n)) = n
  OBVIOUS
<1>2. \A i \in 1..n : SubSeq(s, 1, n)[i] = s[i]
  OBVIOUS
<1> QED
  BY <1>1, <1>2 DEF Elements

\* The head is an element, and the tail has no others.
LEMMA HeadTailElements ==
    ASSUME NEW S, NEW s \in Seq(S), s # <<>>
    PROVE  /\ Head(s) \in S /\ Head(s) \in Elements(s)
           /\ Tail(s) \in Seq(S) /\ Elements(Tail(s)) \subseteq Elements(s)
<1>1. Len(s) \in Nat /\ Len(s) >= 1 /\ Head(s) = s[1]
  OBVIOUS
<1>2. Tail(s) \in Seq(S) /\ Len(Tail(s)) = Len(s) - 1
  OBVIOUS
<1>3. \A i \in 1..(Len(s) - 1) : Tail(s)[i] = s[i + 1] /\ i + 1 \in 1..Len(s)
  BY <1>1
<1> QED
  BY <1>1, <1>2, <1>3 DEF Elements

\* Removal loses no other element and adds none.
LEMMA WithoutElements ==
    ASSUME NEW S, NEW s \in Seq(S), NEW e
    PROVE  /\ Without(s, e) \in Seq(S)
           /\ Elements(s) \ {e} \subseteq Elements(Without(s, e))
           /\ Elements(Without(s, e)) \subseteq Elements(s)
<1>1. CASE e \notin Elements(s)
  BY <1>1 DEF Without
<1>2. CASE e \in Elements(s)
  <2> DEFINE k == CHOOSE i \in 1..Len(s) : s[i] = e
             w == [i \in 1..(Len(s) - 1) |-> IF i < k THEN s[i] ELSE s[i + 1]]
  <2>1. k \in 1..Len(s) /\ s[k] = e
    BY <1>2 DEF Elements
  <2>2. Len(s) \in Nat
    OBVIOUS
  <2> HIDE DEF k
  <2>a. \A i \in 1..Len(s) : s[i] \in S
    OBVIOUS
  <2>b. \A i \in 1..(Len(s) - 1) : i \in 1..Len(s) /\ i + 1 \in 1..Len(s)
    BY <2>2
  <2>3. \A i \in 1..(Len(s) - 1) : (IF i < k THEN s[i] ELSE s[i + 1]) \in S
    BY <2>a, <2>b
  <2>c. Len(s) - 1 \in Nat
    BY <2>1, <2>2
  <2>4. w \in Seq(S) /\ Len(w) = Len(s) - 1
    <3>1. w \in [1..(Len(s) - 1) -> S]
      BY <2>3
    <3> HIDE DEF w
    <3>2. w \in Seq(S)
      BY <3>1, <2>c
    <3> QED
      BY <3>1, <3>2, <2>c
  <2>5. Without(s, e) = w
    BY <1>2 DEF Without, k
  <2>d. \A i \in 1..(Len(s) - 1) : w[i] \in Elements(s)
    BY <2>b DEF Elements
  <2>7. ASSUME NEW i \in 1..Len(s), s[i] # e
        PROVE  s[i] \in Elements(w)
    <3>1. CASE i < k
      <4>1. i \in 1..(Len(s) - 1) /\ w[i] = s[i]
        BY <3>1, <2>1, <2>2
      <4> QED  BY <4>1, <2>4 DEF Elements
    <3>2. CASE i > k
      <4>1. i - 1 \in 1..(Len(s) - 1) /\ ~(i - 1 < k) /\ (i - 1) + 1 = i
        BY <3>2, <2>1, <2>2
      <4>2. w[i - 1] = s[i]
        BY <4>1
      <4> QED  BY <4>1, <4>2, <2>4 DEF Elements
    <3> QED  BY <3>1, <3>2, <2>1, <2>2, <2>7
  <2> HIDE DEF w
  <2>6. Elements(w) \subseteq Elements(s)
    BY <2>d, <2>4 DEF Elements
  <2>8. Elements(s) \ {e} \subseteq Elements(w)
    BY <2>7 DEF Elements
  <2> QED
    BY <2>4, <2>5, <2>6, <2>8
<1> QED  BY <1>1, <1>2

-----------------------------------------------------------------------------
(* The invariant.                                                           *)

\* Elements of the empty sequence.
LEMMA EmptyElements == Elements(<<>>) = {}
  BY DEF Elements

\* It holds initially.
LEMMA InitInv == Init => IInv
<1> SUFFICES ASSUME Init PROVE IInv
  OBVIOUS
<1> USE EmptyElements DEF Init
<1>1. TypeOK
  BY MaxRevisionAssumption, MaxCrashesAssumption DEF TypeOK, Idle
<1>2. Committed = {}
  BY MaxRevisionAssumption DEF Committed, Events
<1>3. NothingLost
  BY <1>2 DEF NothingLost
<1>4. RecordIsTruthful /\ RevisionInv
  BY DEF RecordIsTruthful, RevisionInv
<1>5. WorkerInv
  BY DEF WorkerInv, Idle
<1>6. OnlyCommitted
  BY DEF OnlyCommitted, Idle
<1> QED
  BY <1>1, <1>3, <1>4, <1>5, <1>6 DEF IInv

\* A step of the worker alone: between events it holds committed events of the
\* outbox or of its copy, and it may stop anywhere.
LEMMA WorkerStep ==
    ASSUME IInv, UNCHANGED <<record, receipts, outbox, journal, lims>>,
           TypeOK', worker'.pc \in {"idle", "next", "failed", "returned"},
           worker'.pc = "failed" => worker'.todo # <<>>,
           Elements(worker'.todo) \subseteq Committed
    PROVE  IInv'
<1> USE DEF IInv
<1>1. Committed' = Committed /\ Kept' = Kept
  BY DEF Committed, Kept
<1>2. NothingLost'
  BY <1>1 DEF NothingLost, Elements
<1>3. RecordIsTruthful' /\ RevisionInv'
  BY <1>1 DEF RecordIsTruthful, RevisionInv, Current, Elements
<1>4. WorkerInv'
  BY DEF WorkerInv
<1>5. OnlyCommitted'
  BY <1>1 DEF OnlyCommitted, Elements
<1> QED
  BY <1>2, <1>3, <1>4, <1>5

\* What the worker works on.
LEMMA EventFacts ==
    ASSUME IInv, worker.todo # <<>>
    PROVE  /\ Event \in Events /\ Event \in Committed
           /\ Tail(worker.todo) \in Seq(Events)
           /\ Elements(Tail(worker.todo)) \subseteq Committed
<1>1. worker.todo \in Seq(Events) /\ Elements(worker.todo) \subseteq Committed
  BY DEF IInv, TypeOK, OnlyCommitted
<1> QED
  BY <1>1, HeadTailElements DEF Event

\* The actions that change nothing but the worker, the deadlines and the counter.
LEMMA QuietSteps ==
    ASSUME IInv,
           Skip \/ PostFailed \/ Defer \/ Return \/ StartDelivery \/ Sleep \/ Crash
    PROVE  IInv'
<1> USE DEF Ready, Post, Goto
<1>0. TypeOK /\ WorkerInv /\ Elements(worker.todo) \subseteq Committed
       /\ Elements(outbox) \subseteq Committed
  BY DEF IInv, OnlyCommitted
<1>1. CASE Skip
  <2>1. worker' = [worker EXCEPT !.todo = Tail(@), !.error = TRUE] /\ worker.pc = "next"
    BY <1>1 DEF Skip
  <2>2. Tail(worker.todo) \in Seq(Events) /\ Elements(Tail(worker.todo)) \subseteq Committed
    BY <1>1, EventFacts DEF Skip
  <2>3. worker'.pc = "next" /\ worker'.todo = Tail(worker.todo)
    BY <2>1, <1>0 DEF TypeOK
  <2>4. TypeOK'
    BY <1>0, <1>1, <2>1, <2>2 DEF TypeOK, Skip, business
  <2> QED
    BY <1>1, <2>2, <2>3, <2>4, WorkerStep DEF Skip, business
<1>2. CASE PostFailed
  <2>1. worker'.pc = "failed" /\ worker'.todo = worker.todo /\ worker.todo # <<>>
    BY <1>0, <1>2 DEF PostFailed, TypeOK
  <2>2. TypeOK'
    BY <1>0, <1>2 DEF TypeOK, PostFailed, business
  <2> QED
    BY <1>0, <1>2, <2>1, <2>2, WorkerStep DEF PostFailed, business
<1>3. CASE Defer
  <2>1. worker.todo # <<>>
    BY <1>0, <1>3 DEF Defer, WorkerInv
  <2>2. Tail(worker.todo) \in Seq(Events) /\ Elements(Tail(worker.todo)) \subseteq Committed
        /\ Event \in Events
    BY <2>1, EventFacts
  <2>3. worker'.pc \in {"next", "returned"} /\ worker'.todo = Tail(worker.todo)
    BY <1>0, <1>3 DEF Defer, TypeOK
  <2>4. worker' \in [pc: {"idle", "next", "journal", "mark", "finish", "failed", "returned"},
                     todo: Seq(Events), ignore: BOOLEAN, error: BOOLEAN, pending: Int]
    BY <1>0, <1>3, <2>2 DEF TypeOK, Defer
  <2>5. TypeOK'
    BY <1>0, <1>3, <2>2, <2>4 DEF TypeOK, Defer, business
  <2> QED
    BY <1>3, <2>2, <2>3, <2>5, WorkerStep DEF Defer, business
<1>4. CASE Return
  <2>1. worker'.pc = "returned" /\ worker'.todo = worker.todo
    BY <1>0, <1>4 DEF Return, TypeOK
  <2>2. TypeOK'
    BY <1>0, <1>4 DEF TypeOK, Return, business
  <2> QED
    BY <1>0, <1>4, <2>1, <2>2, WorkerStep DEF Return, business
<1>5. CASE StartDelivery
  <2>1. Len(outbox) \in 0..Len(outbox) /\ outbox \in Seq(Events)
    BY <1>0 DEF TypeOK
  <2>2. worker' = [pc |-> "next", ignore |-> FALSE, error |-> FALSE, pending |-> Len(outbox),
                   todo |-> SubSeq(outbox, 1, Len(outbox))]
    BY <1>5, <2>1 DEF StartDelivery, Read
  <2>3. SubSeq(outbox, 1, Len(outbox)) \in Seq(Events)
        /\ Elements(SubSeq(outbox, 1, Len(outbox))) \subseteq Elements(outbox)
    BY <2>1, PrefixElements
  <2>4. worker'.pc = "next" /\ worker'.todo = SubSeq(outbox, 1, Len(outbox))
    BY <2>2
  <2>5. TypeOK'
    BY <1>0, <1>5, <2>2, <2>3 DEF TypeOK, StartDelivery, Read, business
  <2> QED
    BY <1>0, <1>5, <2>3, <2>4, <2>5, WorkerStep DEF StartDelivery, Read, business
<1>6. CASE Sleep \/ Crash
  <2>1. worker'.pc = "idle" /\ worker'.todo = <<>>
    BY <1>6 DEF Sleep, Crash, Idle
  <2>2. crashes' \in 0..MaxCrashes
    BY <1>0, <1>6, MaxCrashesAssumption DEF TypeOK, Sleep, Crash
  <2>3. worker' \in [pc: {"idle", "next", "journal", "mark", "finish", "failed", "returned"},
                     todo: Seq(Events), ignore: BOOLEAN, error: BOOLEAN, pending: Int]
    <3>1. worker' = Idle
      BY <1>6 DEF Sleep, Crash
    <3>2. Idle.todo \in Seq(Events)
      BY DEF Idle
    <3> QED
      BY <3>1, <3>2 DEF Idle
  <2>4. UNCHANGED <<files, record, receipts, outbox, waiting, journal, lims>>
    BY <1>6 DEF Sleep, Crash, business
  <2>5. TypeOK'
    BY <1>0, <2>2, <2>3, <2>4 DEF TypeOK
  <2> QED
    BY <2>1, <2>4, <2>5, EmptyElements, WorkerStep
<1> QED
  BY <1>1, <1>2, <1>3, <1>4, <1>5, <1>6

\* A producer commits one event and appends it to the outbox.
LEMMA ProduceStep ==
    ASSUME IInv, TypeOK', NEW e \in Events,
           Committed' = Committed \union {e},
           Elements(outbox') = Elements(outbox) \union {e},
           UNCHANGED <<journal, lims, worker>>
    PROVE  NothingLost' /\ OnlyCommitted'
<1>1. Kept' = Kept
  BY DEF Kept
<1>2. NothingLost'
  BY <1>1 DEF IInv, NothingLost, Elements
<1>3. OnlyCommitted'
  BY DEF IInv, OnlyCommitted, Elements
<1> QED
  BY <1>2, <1>3

\* materialize_completions keeps the invariant.
LEMMA MaterializeInv ==
    ASSUME IInv, NEW c \in Completions, Materialize(c)
    PROVE  IInv' /\ (\E e \in Events : Committed' = Committed \union {e})
<1> DEFINE e == <<c, record[c].revision + 1>>
<1>0. TypeOK /\ RecordIsTruthful /\ RevisionInv /\ WorkerInv
  BY DEF IInv
<1>1. record[c] \in [revision: 0..MaxRevision, files: Manifests \union {"none"},
                      state: {"none", "pending", "queued", "delivered"}]
      /\ record[c].revision < MaxRevision
  BY <1>0 DEF TypeOK, Materialize
<1>2. e \in Events
  BY <1>1, MaxRevisionAssumption DEF Events
<1>3. outbox' = Append(outbox, e) /\ outbox \in Seq(Events)
  BY <1>0 DEF Materialize, TypeOK
<1>4. outbox' \in Seq(Events) /\ Elements(outbox') = Elements(outbox) \union {e}
  BY <1>2, <1>3, AppendElements
<1>5. /\ record'[c].revision = record[c].revision + 1 /\ record'[c].state = "queued"
      /\ \A d \in Completions : d # c => record'[d] = record[d]
  BY <1>0 DEF Materialize, TypeOK
<1>6. files[c] \in Manifests \union {"none"}
  BY <1>0 DEF TypeOK
<1>7. record' \in [Completions -> [revision: 0..MaxRevision, files: Manifests \union {"none"},
                                   state: {"none", "pending", "queued", "delivered"}]]
  BY <1>0, <1>1, <1>6, MaxRevisionAssumption DEF TypeOK, Materialize
<1>8. TypeOK'
  BY <1>0, <1>4, <1>7 DEF TypeOK, Materialize
<1>9. Committed' = Committed \union {e}
  <2>1. ASSUME NEW d \in Events
        PROVE  d \in Committed' <=> d \in Committed \/ d = e
    <3>1. CASE d[1] \in Completions
      <4>1. d[1] \notin receipts /\ receipts' = receipts
        BY <1>0, <3>1, SourcesAssumption DEF TypeOK, Materialize
      <4>2. d = <<d[1], d[2]>> /\ d[2] \in Int
        BY MaxRevisionAssumption DEF Events
      <4>3. CASE d[1] = c
        <5>1. d[2] <= record[c].revision + 1 <=> d[2] <= record[c].revision \/ d[2] = record[c].revision + 1
          BY <4>2, <1>1
        <5>2. d \in Committed <=> d[2] <= record[c].revision
          BY <4>1, <4>3 DEF Committed
        <5>3. d \in Committed' <=> d[2] <= record[c].revision + 1
          BY <4>1, <4>3, <1>5 DEF Committed
        <5>4. d = e <=> d[2] = record[c].revision + 1
          BY <4>2, <4>3
        <5> QED  BY <5>1, <5>2, <5>3, <5>4
      <4>4. CASE d[1] # c
        BY <4>1, <4>4, <3>1, <1>5 DEF Committed
      <4> QED  BY <4>3, <4>4
    <3>2. CASE d[1] \notin Completions
      BY <3>2 DEF Committed, Materialize
    <3> QED  BY <3>1, <3>2
  <2> QED
    BY <2>1, <1>2 DEF Committed
<1>10. UNCHANGED <<journal, lims, worker>> /\ worker.pc = "idle"
  BY DEF Materialize
<1>11. NothingLost' /\ OnlyCommitted'
  BY <1>2, <1>4, <1>8, <1>9, <1>10, ProduceStep
<1>12. RevisionInv'
  BY <1>0, <1>1, <1>5 DEF RevisionInv
<1>13. RecordIsTruthful'
  <2>1. Current(c)' = e /\ \A d \in Completions : d # c => Current(d)' = Current(d)
    BY <1>5 DEF Current
  <2>2. Elements(outbox)' = Elements(outbox) \union {e} /\ Kept' = Kept
    BY <1>4, <1>10 DEF Kept, Elements
  <2> QED
    BY <2>1, <2>2, <1>0, <1>5 DEF RecordIsTruthful
<1>14. WorkerInv'
  BY <1>10 DEF WorkerInv
<1> QED
  BY <1>2, <1>8, <1>9, <1>11, <1>12, <1>13, <1>14 DEF IInv

\* So does the commit of a receipt.
LEMMA DecideInv ==
    ASSUME IInv, NEW r \in Receipts, Decide(r)
    PROVE  IInv' /\ (\E e \in Events : Committed' = Committed \union {e})
<1> DEFINE e == <<r, 1>>
<1>0. TypeOK /\ RecordIsTruthful /\ RevisionInv /\ WorkerInv
  BY DEF IInv
<1>1. e \in Events
  BY DEF Events
<1>2. outbox' \in Seq(Events) /\ Elements(outbox') = Elements(outbox) \union {e}
  <2>1. outbox' = IF e \in Elements(outbox) THEN outbox ELSE Append(outbox, e)
    BY DEF Decide, Add
  <2>2. outbox \in Seq(Events)
    BY <1>0 DEF TypeOK
  <2>3. CASE e \in Elements(outbox)
    BY <2>1, <2>2, <2>3
  <2>4. CASE e \notin Elements(outbox)
    <3>1. outbox' = Append(outbox, e)
      BY <2>1, <2>4
    <3> QED
      BY <3>1, <1>1, <2>2, AppendElements
  <2> QED
    BY <2>3, <2>4
<1>3. UNCHANGED <<files, record, waiting, journal, lims, worker, crashes>>
      /\ receipts' = receipts \union {r}
  BY DEF Decide
<1>4. TypeOK'
  BY <1>0, <1>2, <1>3 DEF TypeOK
<1>5. Committed' = Committed \union {e}
  <2>1. ASSUME NEW d \in Events
        PROVE  d \in Committed' <=> d \in Committed \/ d = e
    <3>1. CASE d[1] = r
      BY <3>1, <1>3, SourcesAssumption DEF Committed, Events
    <3>2. CASE d[1] # r
      BY <3>2, <1>3 DEF Committed
    <3> QED  BY <3>1, <3>2
  <2> QED
    BY <2>1, <1>1 DEF Committed
<1>6. NothingLost' /\ OnlyCommitted'
  BY <1>1, <1>2, <1>3, <1>4, <1>5, ProduceStep
<1>7. RecordIsTruthful' /\ RevisionInv'
  BY <1>0, <1>2, <1>3 DEF RecordIsTruthful, RevisionInv, Current, Kept, Elements
<1>8. WorkerInv'
  BY <1>0, <1>3 DEF WorkerInv, Event, Kept, Current
<1> QED
  BY <1>1, <1>4, <1>5, <1>6, <1>7, <1>8 DEF IInv

\* So do the completion of an experiment, which has no event yet, changes of the
\* report files, and the clock.
LEMMA CompleteInv ==
    ASSUME IInv, NEW c \in Completions, Complete(c)
    PROVE  IInv'
<1>0. TypeOK /\ RecordIsTruthful /\ RevisionInv /\ WorkerInv /\ NothingLost /\ OnlyCommitted
  BY DEF IInv
<1>1. UNCHANGED <<receipts, outbox, waiting, journal, lims, worker, crashes>>
  BY DEF Complete
<1>2. /\ record[c].state = "none" /\ record'[c].state = "pending"
      /\ \A d \in Completions : record'[d].revision = record[d].revision
      /\ \A d \in Completions : d # c => record'[d].state = record[d].state
  BY <1>0 DEF Complete, TypeOK
<1>3. TypeOK'
  BY <1>0, <1>1 DEF TypeOK, Complete, Manifests
<1>4. Committed' = Committed /\ Kept' = Kept
  BY <1>1, <1>2 DEF Committed, Kept, Elements
<1>5. NothingLost' /\ OnlyCommitted'
  BY <1>0, <1>1, <1>4 DEF NothingLost, OnlyCommitted, Elements
<1>6. RevisionInv'
  BY <1>0, <1>2 DEF RevisionInv
<1>7. \A d \in Completions : Current(d)' = Current(d)
  BY <1>2 DEF Current
<1>8. RecordIsTruthful'
  BY <1>0, <1>1, <1>2, <1>4, <1>7 DEF RecordIsTruthful, Elements
<1>9. WorkerInv'
  BY <1>0, <1>1, <1>2, <1>4, <1>7 DEF WorkerInv, Event
<1> QED
  BY <1>0, <1>3, <1>5, <1>6, <1>8, <1>9 DEF IInv

LEMMA FilesInv ==
    ASSUME IInv, (\E c \in Completions : FilesChange(c)) \/ (\E e \in Events : DeadlinePasses(e))
                 \/ UNCHANGED vars
    PROVE  IInv'
<1>0. TypeOK
  BY DEF IInv
<1>1. UNCHANGED <<record, receipts, outbox, journal, lims, worker, crashes>>
  BY DEF FilesChange, DeadlinePasses, vars, business
<1>2. files' \in [Completions -> Manifests \union {"none"}]
  <2>1. \A c \in Completions : (CHOOSE m \in Manifests : m # files[c]) \in Manifests
    BY DEF Manifests
  <2> QED
    BY <1>0, <2>1 DEF TypeOK, FilesChange, DeadlinePasses, vars, business
<1>3. waiting' \subseteq Events
  BY <1>0 DEF TypeOK, FilesChange, DeadlinePasses, vars, business
<1>4. TypeOK'
  BY <1>0, <1>1, <1>2, <1>3 DEF TypeOK
<1>5. Committed' = Committed /\ Kept' = Kept
  BY <1>1 DEF Committed, Kept, Elements
<1> QED
  BY <1>1, <1>4, <1>5 DEF IInv, NothingLost, RecordIsTruthful, WorkerInv, OnlyCommitted,
                          RevisionInv, Current, Event, Elements

-----------------------------------------------------------------------------
(* The delivery of one event.                                               *)

\* What LIMS or the journal keeps only grows, and only by the event at hand.
LEMMA KeepStep ==
    ASSUME IInv, TypeOK', Event \in Committed,
           UNCHANGED <<record, receipts, outbox>>,
           lims \subseteq lims', lims' \subseteq lims \union {Event},
           Elements(journal) \subseteq Elements(journal'),
           Elements(journal') \subseteq Elements(journal) \union {Event},
           worker'.todo = worker.todo,
           worker'.pc # "finish"
    PROVE  /\ NothingLost' /\ RecordIsTruthful' /\ OnlyCommitted' /\ RevisionInv'
           /\ Kept \subseteq Kept'
<1>1. Committed' = Committed /\ Elements(outbox)' = Elements(outbox)
      /\ Elements(worker.todo)' = Elements(worker.todo)
  BY DEF Committed, Elements
<1>2. Elements(journal)' = Elements(journal')
  BY DEF Elements
<1>3. Kept \subseteq Kept'
  BY <1>2 DEF Kept
<1>4. NothingLost' /\ RecordIsTruthful' /\ RevisionInv'
  BY <1>1, <1>3 DEF IInv, NothingLost, RecordIsTruthful, RevisionInv, Current
<1>5. OnlyCommitted'
  BY <1>1, <1>2 DEF IInv, OnlyCommitted
<1> QED
  BY <1>3, <1>4, <1>5

\* The answers that LIMS gives to an event.
LEMMA PostInv ==
    ASSUME IInv, PostAccepted \/ PostMissed \/ PostUnacknowledged
    PROVE  IInv'
<1>0. TypeOK /\ worker.pc = "next" /\ worker.todo # <<>>
  BY DEF IInv, PostAccepted, PostMissed, PostUnacknowledged, Post, Ready
<1>1. Event \in Events /\ Event \in Committed
  BY <1>0, EventFacts
<1>2. /\ UNCHANGED <<files, record, receipts, outbox, waiting, journal, crashes>>
      /\ lims \subseteq lims' /\ lims' \subseteq lims \union {Event}
  BY DEF PostAccepted, PostMissed, PostUnacknowledged, business
<1>3. PICK pc \in {"journal", "mark", "failed"} :
         /\ worker' = [worker EXCEPT !.pc = pc]
         /\ pc = "journal" => Journaling
         /\ pc = "mark" => ~Journaling /\ Event \in lims'
  BY KeptAssumption DEF PostAccepted, PostMissed, PostUnacknowledged, Goto
<1>4. worker'.pc = pc /\ worker'.todo = worker.todo
  BY <1>0, <1>3 DEF TypeOK
<1>5. TypeOK'
  BY <1>0, <1>1, <1>2, <1>3 DEF TypeOK
<1>6. /\ NothingLost' /\ RecordIsTruthful' /\ OnlyCommitted' /\ RevisionInv'
  BY <1>1, <1>2, <1>4, <1>5, KeepStep
<1>7. WorkerInv'
  <2>1. pc = "mark" => Event \in Kept'
    BY <1>3 DEF Kept
  <2>2. Event' = Event
    BY <1>4 DEF Event
  <2> QED
    BY <1>0, <1>3, <1>4, <2>1, <2>2 DEF WorkerInv
<1> QED
  BY <1>5, <1>6, <1>7 DEF IInv

\* The journal, before the record is marked.
LEMMA JournalInv ==
    ASSUME IInv, Journal
    PROVE  IInv'
<1>0. TypeOK /\ WorkerInv /\ worker.pc = "journal"
  BY DEF IInv, Journal
<1>1. worker.todo # <<>> /\ Journaling
  BY <1>0 DEF WorkerInv
<1>2. Event \in Events /\ Event \in Committed
  BY <1>1, EventFacts
<1>3. UNCHANGED <<files, record, receipts, outbox, waiting, lims, crashes>>
  BY DEF Journal, business
<1>4. journal' \in Seq(Events) /\ Elements(journal') = Elements(journal) \union {Event}
  <2>1. journal' = IF Event \in Elements(journal) THEN journal ELSE Append(journal, Event)
    BY DEF Journal, Add
  <2>2. journal \in Seq(Events)
    BY <1>0 DEF TypeOK
  <2>3. CASE Event \in Elements(journal)
    BY <2>1, <2>2, <2>3
  <2>4. CASE Event \notin Elements(journal)
    <3>1. journal' = Append(journal, Event)
      BY <2>1, <2>4
    <3> QED
      BY <3>1, <1>2, <2>2, AppendElements
  <2> QED
    BY <2>3, <2>4
<1>5. worker'.pc = "mark" /\ worker'.todo = worker.todo
      /\ worker' = [worker EXCEPT !.pc = "mark"]
  BY <1>0 DEF Journal, Goto, TypeOK
<1>6. TypeOK'
  BY <1>0, <1>3, <1>4, <1>5 DEF TypeOK
<1>7. NothingLost' /\ RecordIsTruthful' /\ OnlyCommitted' /\ RevisionInv'
  BY <1>2, <1>3, <1>4, <1>5, <1>6, KeepStep
<1>8. WorkerInv'
  <2>1. Event' = Event
    BY <1>5 DEF Event
  <2>2. Elements(journal)' = Elements(journal')
    BY DEF Elements
  <2>3. Event \in Kept'
    BY <1>1, <1>4, <2>2 DEF Kept
  <2> QED
    BY <1>1, <1>5, <2>1, <2>3 DEF WorkerInv
<1> QED
  BY <1>6, <1>7, <1>8 DEF IInv

\* Only the record whose latest revision this is is marked.
LEMMA MarkInv ==
    ASSUME IInv, Mark
    PROVE  IInv'
<1>0. TypeOK /\ WorkerInv /\ RecordIsTruthful /\ RevisionInv /\ NothingLost /\ OnlyCommitted
      /\ worker.pc = "mark"
  BY DEF IInv, Mark
<1>1. worker.todo # <<>> /\ Event \in Kept
  BY <1>0 DEF WorkerInv
<1>2. Event \in Events
  BY <1>1, EventFacts
<1>3. UNCHANGED <<files, receipts, outbox, waiting, journal, lims, crashes>>
  BY DEF Mark
<1>4. worker'.pc = "finish" /\ worker'.todo = worker.todo
      /\ worker' = [worker EXCEPT !.pc = "finish"]
  BY <1>0 DEF Mark, Goto, TypeOK
<1>5. \A c \in Completions :
         /\ record'[c].revision = record[c].revision
         /\ record'[c].files = record[c].files
         /\ Current(c) = Event => record'[c].state = "delivered"
         /\ Current(c) # Event => record'[c].state = record[c].state
  BY <1>0 DEF Mark, TypeOK
<1>6. record' \in [Completions -> [revision: 0..MaxRevision, files: Manifests \union {"none"},
                                   state: {"none", "pending", "queued", "delivered"}]]
  BY <1>0 DEF Mark, TypeOK
<1>7. TypeOK'
  BY <1>0, <1>3, <1>4, <1>6 DEF TypeOK
<1>8. /\ Committed' = Committed /\ Kept' = Kept
      /\ \A c \in Completions : Current(c)' = Current(c)
      /\ Event' = Event
  BY <1>3, <1>4, <1>5 DEF Committed, Kept, Current, Event, Elements
<1>9. NothingLost' /\ OnlyCommitted'
  BY <1>0, <1>3, <1>4, <1>8 DEF NothingLost, OnlyCommitted, Elements
<1>10. RecordIsTruthful'
  BY <1>0, <1>1, <1>3, <1>5, <1>8 DEF RecordIsTruthful, Elements
<1>11. WorkerInv'
  BY <1>1, <1>4, <1>5, <1>8 DEF WorkerInv
<1>12. RevisionInv'
  <2>1. ASSUME NEW c \in Completions, Current(c) = Event
        PROVE  record[c].revision # 0
    BY <1>2, <2>1, SourcesAssumption, MaxRevisionAssumption DEF Current, Events
  <2> QED
    BY <1>0, <1>5, <2>1 DEF RevisionInv
<1> QED
  BY <1>7, <1>9, <1>10, <1>11, <1>12 DEF IInv

\* The event leaves the outbox when it is kept and its record is no longer queued.
LEMMA FinishInv ==
    ASSUME IInv, Finish
    PROVE  IInv'
<1>0. TypeOK /\ WorkerInv /\ RecordIsTruthful /\ RevisionInv /\ NothingLost /\ OnlyCommitted
      /\ worker.pc = "finish"
  BY DEF IInv, Finish
<1>1. worker.todo # <<>> /\ Event \in Kept
      /\ \A c \in Completions : Current(c) = Event => record[c].state # "queued"
  BY <1>0 DEF WorkerInv
<1>2. Tail(worker.todo) \in Seq(Events) /\ Elements(Tail(worker.todo)) \subseteq Committed
  BY <1>1, EventFacts
<1>3. UNCHANGED <<files, record, receipts, journal, lims, crashes>>
      /\ waiting' = waiting \ {Event}
  BY DEF Finish, business
<1>4. /\ outbox' \in Seq(Events)
      /\ Elements(outbox) \ {Event} \subseteq Elements(outbox')
      /\ Elements(outbox') \subseteq Elements(outbox)
  BY <1>0, WithoutElements DEF Finish, TypeOK
<1>5. worker' = [worker EXCEPT !.pc = "next", !.todo = Tail(@), !.pending = @ - 1]
  BY DEF Finish
<1>6. worker'.pc = "next" /\ worker'.todo = Tail(worker.todo)
  BY <1>0, <1>5 DEF TypeOK
<1>7. worker' \in [pc: {"idle", "next", "journal", "mark", "finish", "failed", "returned"},
                   todo: Seq(Events), ignore: BOOLEAN, error: BOOLEAN, pending: Int]
  <2>1. worker \in [pc: {"idle", "next", "journal", "mark", "finish", "failed", "returned"},
                    todo: Seq(Events), ignore: BOOLEAN, error: BOOLEAN, pending: Int]
    BY <1>0 DEF TypeOK
  <2>2. worker.pending - 1 \in Int
    BY <2>1
  <2>3. worker' = [pc |-> "next", todo |-> Tail(worker.todo), ignore |-> worker.ignore,
                   error |-> worker.error, pending |-> worker.pending - 1]
    BY <1>5, <2>1
  <2> QED
    BY <1>2, <2>1, <2>2, <2>3
<1>8. TypeOK'
  BY <1>0, <1>3, <1>4, <1>7 DEF TypeOK
<1>9. /\ Committed' = Committed /\ Kept' = Kept
      /\ Elements(outbox)' = Elements(outbox') /\ Elements(worker.todo)' = Elements(worker'.todo)
      /\ \A c \in Completions : Current(c)' = Current(c)
  BY <1>3 DEF Committed, Kept, Elements, Current
<1>10. NothingLost'
  BY <1>0, <1>1, <1>4, <1>9 DEF NothingLost
<1>11. OnlyCommitted'
  BY <1>0, <1>2, <1>3, <1>4, <1>6, <1>9 DEF OnlyCommitted, Elements
<1>12. RecordIsTruthful' /\ RevisionInv'
  BY <1>0, <1>1, <1>3, <1>4, <1>9 DEF RecordIsTruthful, RevisionInv
<1>13. WorkerInv'
  BY <1>6 DEF WorkerInv
<1> QED
  BY <1>8, <1>10, <1>11, <1>12, <1>13 DEF IInv

-----------------------------------------------------------------------------
(* Theorems.                                                                *)

\* Every step keeps the invariant.
LEMMA NextInv == IInv /\ [Next]_vars => IInv'
<1> SUFFICES ASSUME IInv, [Next]_vars PROVE IInv'
  OBVIOUS
<1>1. CASE Produce
  <2>1. ASSUME NEW c \in Completions, Complete(c) \/ FilesChange(c) \/ Materialize(c)
        PROVE  IInv'
    BY <2>1, CompleteInv, FilesInv, MaterializeInv
  <2> QED
    BY <1>1, <2>1, DecideInv DEF Produce
<1>2. CASE Deliver
  BY <1>2, QuietSteps, PostInv, MarkInv, FinishInv DEF Deliver
<1>3. CASE (\E e \in Events : DeadlinePasses(e)) \/ UNCHANGED vars
  BY <1>3, FilesInv
<1>4. CASE StartDelivery \/ Sleep \/ Crash
  BY <1>4, QuietSteps
<1> QED
  BY <1>1, <1>2, <1>3, <1>4 DEF Next

\* The inductive invariant holds.
THEOREM Invariance == Spec => []IInv
  BY InitInv, NextInv, PTL DEF Spec

\* Every variable keeps its type, for any sets of completions and receipts.
THEOREM TypeCorrect == Spec => []TypeOK
  BY Invariance, PTL DEF IInv

\* No committed event is lost: it is in the outbox or it is kept.
THEOREM NeverLost == Spec => []NothingLost
  BY Invariance, PTL DEF IInv

\* The state of a completion record is true of its latest revision.
THEOREM RecordsAreTruthful == Spec => []RecordIsTruthful
  BY Invariance, PTL DEF IInv

\* A step commits at most one event.
LEMMA CommitStep ==
    ASSUME IInv, [Next]_vars
    PROVE  Committed' = Committed \/ \E e \in Events : Committed' = Committed \union {e}
<1>1. CASE \E c \in Completions : Materialize(c)
  BY <1>1, MaterializeInv
<1>2. CASE \E r \in Receipts : Decide(r)
  BY <1>2, DecideInv
<1>3. CASE \E c \in Completions : Complete(c)
  <2>1. receipts' = receipts
        /\ \A d \in Completions : record'[d].revision = record[d].revision
    BY <1>3 DEF Complete, IInv, TypeOK
  <2> QED
    BY <2>1 DEF Committed
<1>4. CASE Mark
  <2>1. receipts' = receipts
        /\ \A d \in Completions : record'[d].revision = record[d].revision
    BY <1>4 DEF Mark, IInv, TypeOK
  <2> QED
    BY <2>1 DEF Committed
<1>5. CASE UNCHANGED <<record, receipts>>
  BY <1>5 DEF Committed
<1> QED
  BY <1>1, <1>2, <1>3, <1>4, <1>5
  DEF Next, Produce, Deliver, FilesChange, Skip, PostAccepted, PostFailed,
      PostUnacknowledged, Defer, Finish, Return, DeadlinePasses, StartDelivery, Read,
      Sleep, Crash, vars, business

\* A step of the outbox is a commit, a storage, or nothing for LimsRelay.
LEMMA RelayStep ==
    ASSUME IInv, IInv', [Next]_vars
    PROVE  [Relay!Next]_Relay!vars
<1> USE DEF Relay!Next, Relay!vars
<1>1. CASE lims' # lims
  <2>1. PostAccepted \/ PostUnacknowledged
    BY <1>1 DEF Next, Produce, Deliver, Complete, FilesChange, Materialize, Decide, Skip,
       PostFailed, Defer, Mark, Finish, Return, DeadlinePasses,
       StartDelivery, Read, Sleep, Crash, vars
  <2>2. Event \in Events /\ Event \in Committed
    BY <2>1, EventFacts DEF PostAccepted, PostUnacknowledged, Post, Ready
  <2>3. /\ lims' = lims \union {Event} /\ Event \notin Rejected
        /\ UNCHANGED <<record, receipts>>
    BY <2>1 DEF PostAccepted, PostUnacknowledged, business
  <2>4. Committed' = Committed
    BY <2>3 DEF Committed
  <2>5. Relay!Store(Event)
    BY <1>1, <2>2, <2>3, <2>4 DEF Relay!Store
  <2> QED
    BY <2>2, <2>3, <2>5
<1>2. CASE lims' = lims /\ Committed' = Committed
  BY <1>2
<1>3. CASE lims' = lims /\ Committed' # Committed
  <2>1. ASSUME NEW e \in Events, Committed' = Committed \union {e}
        PROVE  [Relay!Next]_Relay!vars
    <3>1. CASE e \in Rejected
      BY <1>3, <2>1, <3>1
    <3>2. CASE e \notin Rejected
      <4>1. Committed' \ Rejected = (Committed \ Rejected) \union {e}
        BY <2>1, <3>2
      <4> QED
        BY <1>3, <3>2, <4>1 DEF Relay!Commit
    <3> QED  BY <3>1, <3>2
  <2> QED
    BY <1>3, <2>1, CommitStep
<1> QED
  BY <1>1, <1>2, <1>3

\* Nothing is committed in the beginning.
LEMMA RelayInit == Init => Relay!Init
<1> SUFFICES ASSUME Init PROVE Relay!Init
  OBVIOUS
<1>1. Committed = {}
  BY MaxRevisionAssumption DEF Init, Committed, Events
<1> QED
  BY <1>1 DEF Init, Relay!Init

\* The outbox implements the safety part of LimsRelay, for any sets of completions and
\* receipts, any faults and any number of crashes.
THEOREM OutboxImplementsRelay == Spec => RelayRefinement
<1>1. IInv /\ IInv' /\ [Next]_vars => [Relay!Next]_Relay!vars
  BY RelayStep
<1> QED
  BY <1>1, RelayInit, Invariance, PTL DEF Spec, RelayRefinement, Relay!Spec

-----------------------------------------------------------------------------
(* The guarded outbox.                                                      *)

\* The first n rows of the journal are stored by LIMS.
Compared(n) == n <= Len(journal) /\ \A i \in 1..n : journal[i] \in lims

\* The cursors stand behind rows that LIMS has; a batch without a gap may be passed.
CursorInv ==
    /\ Compared(comm.out) /\ Compared(round.s.out)
    /\ round.pc \in {"replay", "deliver"} => round.snap <= Len(journal)
    /\ round.pc = "replay" =>
          /\ round.missing \subseteq Elements(journal)
          /\ ~round.outGap => Compared(round.s.out + round.size)

AlarmOk(s) ==
    /\ s.alarm # "none" <=> s.fault
    /\ s.alarm = "critical" => s.retry >= 3
    /\ s.phase = "online" => ~s.fault /\ s.out = 0

\* A check works on a copy of the saved state: the same fault and alarm, and from
\* the reservation on the same retry count.
RoundInv ==
    /\ AlarmOk(comm) /\ AlarmOk(round.s)
    /\ round.pc = "idle" => round.s = comm
    /\ round.s.alarm = comm.alarm /\ round.s.fault = comm.fault
    /\ round.pc = "quick" => comm.phase = "online"
    /\ round.pc \notin {"idle", "quick"} => round.s.phase = "checking"
    /\ round.pc = "reserve" => (comm.fault => round.s.retry = Increment(comm.retry))
    /\ round.pc \notin {"idle", "quick", "reserve"} => round.s.retry = comm.retry

\* Every probe since the fault was recorded was counted before it was sent.
AttemptInv ==
    /\ AttemptsAreCounted
    /\ round.pc = "probe" => (comm.fault => Increment(attempts) <= comm.retry)

CommIInv == IInv /\ CommTypeOK /\ CursorInv /\ RoundInv /\ AttemptInv

-----------------------------------------------------------------------------
(* The outbox inside a tick.                                                *)

\* A delivery starts from the outbox as it is.
LEMMA ReadInv ==
    ASSUME IInv, NEW ignore \in BOOLEAN, NEW max \in Nat, Read(ignore, max)
    PROVE  IInv'
<1> DEFINE n == IF max < Len(outbox) THEN max ELSE Len(outbox)
<1>0. TypeOK /\ Elements(outbox) \subseteq Committed
  BY DEF IInv, OnlyCommitted
<1>1. n \in 0..Len(outbox) /\ outbox \in Seq(Events)
  BY <1>0 DEF TypeOK
<1>2. worker' = [pc |-> "next", ignore |-> ignore, error |-> FALSE, pending |-> Len(outbox),
                 todo |-> SubSeq(outbox, 1, n)]
  BY DEF Read
<1>3. SubSeq(outbox, 1, n) \in Seq(Events)
      /\ Elements(SubSeq(outbox, 1, n)) \subseteq Elements(outbox)
  BY <1>1, PrefixElements
<1> HIDE DEF n
<1>4. worker'.pc = "next" /\ worker'.todo = SubSeq(outbox, 1, n)
  BY <1>2
<1>5. TypeOK'
  BY <1>0, <1>2, <1>3 DEF TypeOK, Read, business
<1> QED
  BY <1>0, <1>3, <1>4, <1>5, WorkerStep DEF Read, business

\* The worker may stop anywhere: at the end of a check, at its time limit, in a crash.
LEMMA StopInv ==
    ASSUME IInv, UNCHANGED <<business, outbox, waiting, journal, lims>>,
           crashes' \in 0..MaxCrashes,
           \/ worker' = Idle
           \/ worker' = [worker EXCEPT !.pc = "returned"]
    PROVE  IInv'
<1>0. TypeOK /\ Elements(worker.todo) \subseteq Committed
  BY DEF IInv, OnlyCommitted
<1>1. worker'.pc \in {"idle", "returned"} /\ worker'.todo \in {<<>>, worker.todo}
  BY <1>0 DEF Idle, TypeOK
<1>2. worker' \in [pc: {"idle", "next", "journal", "mark", "finish", "failed", "returned"},
                   todo: Seq(Events), ignore: BOOLEAN, error: BOOLEAN, pending: Int]
  <2>1. CASE worker' = Idle
    <3>1. Idle.todo \in Seq(Events)
      BY DEF Idle
    <3> QED  BY <2>1, <3>1 DEF Idle
  <2>2. CASE worker' = [worker EXCEPT !.pc = "returned"]
    BY <1>0, <2>2 DEF TypeOK
  <2> QED  BY <2>1, <2>2
<1>3. TypeOK'
  BY <1>0, <1>2 DEF TypeOK, business
<1>4. Elements(worker'.todo) \subseteq Committed
  BY <1>0, <1>1, EmptyElements
<1> QED
  BY <1>1, <1>3, <1>4, WorkerStep DEF business

\* A row of the journal is enqueued again.
LEMMA ReplayInv ==
    ASSUME IInv, NEW e \in Elements(journal), outbox' = Add(outbox, e),
           UNCHANGED <<business, waiting, journal, lims, worker, crashes>>
    PROVE  IInv'
<1>0. TypeOK /\ NothingLost /\ RecordIsTruthful /\ OnlyCommitted /\ RevisionInv /\ WorkerInv
  BY DEF IInv
<1>1. e \in Events /\ e \in Committed
  BY <1>0, ElementsType DEF TypeOK, OnlyCommitted
<1>2. outbox' \in Seq(Events) /\ Elements(outbox') = Elements(outbox) \union {e}
  <2>1. outbox \in Seq(Events)
    BY <1>0 DEF TypeOK
  <2>2. CASE e \in Elements(outbox)
    BY <2>1, <2>2 DEF Add
  <2>3. CASE e \notin Elements(outbox)
    <3>1. outbox' = Append(outbox, e)
      BY <2>3 DEF Add
    <3> QED  BY <1>1, <2>1, <3>1, AppendElements
  <2> QED  BY <2>2, <2>3
<1>3. TypeOK'
  BY <1>0, <1>2 DEF TypeOK, business
<1>4. Committed' = Committed /\ Kept' = Kept /\ Elements(outbox)' = Elements(outbox')
      /\ Elements(journal)' = Elements(journal) /\ Elements(worker.todo)' = Elements(worker.todo)
  BY DEF business, Committed, Kept, Elements
<1>5. NothingLost' /\ OnlyCommitted'
  BY <1>0, <1>1, <1>2, <1>4 DEF NothingLost, OnlyCommitted
<1>6. RecordIsTruthful' /\ RevisionInv' /\ WorkerInv'
  BY <1>0, <1>2, <1>4 DEF RecordIsTruthful, RevisionInv, WorkerInv, Current, Event, business
<1> QED
  BY <1>3, <1>5, <1>6 DEF IInv

\* What the producers and the worker do keeps the invariant of the outbox.
LEMMA OutboxInv ==
    ASSUME IInv, OutboxStep
    PROVE  IInv'
<1>1. CASE Deliver
  BY <1>1, NextInv DEF Next
<1>2. CASE PostMissed \/ Journal
  BY <1>2, PostInv, JournalInv
<1>3. CASE \E c \in Completions : Complete(c) \/ FilesChange(c) \/ Materialize(c)
  BY <1>3, NextInv DEF Next, Produce
<1>4. CASE \E r \in Receipts : Decide(r)
  BY <1>4, NextInv DEF Next, Produce
<1>5. CASE \E e \in Events : DeadlinePasses(e)
  BY <1>5, NextInv DEF Next
<1> QED
  BY <1>1, <1>2, <1>3, <1>4, <1>5 DEF OutboxStep, DeliverGuarded

\* Every step of the guarded outbox keeps the invariant of the outbox.
LEMMA GuardedInv ==
    ASSUME CommIInv, [CommNext]_commVars
    PROVE  IInv'
<1> USE DEF CommIInv
<1>0. crashes \in 0..MaxCrashes
  BY DEF IInv, TypeOK
<1>1. CASE OutboxStep
  BY <1>1, OutboxInv
<1>2. CASE UNCHANGED vars
  BY <1>2, FilesInv
<1>3. CASE UNCHANGED <<business, outbox, waiting, journal, lims, crashes>> /\ worker' = Idle
  BY <1>0, <1>3, StopInv
<1>4. CASE \E ignore \in BOOLEAN : Read(ignore, BatchSize)
  BY <1>4, ReadInv, BatchSizeAssumption
<1>5. ASSUME NEW e \in Events, Replay(e)
      PROVE  IInv'
  <2>1. e \in Elements(journal)
    BY <1>5 DEF Replay, CursorInv
  <2> QED
    BY <1>5, <2>1, ReplayInv DEF Replay
<1>6. CASE StopEarly
  BY <1>0, <1>6, StopInv DEF StopEarly, Goto
<1>7. CASE CommCrash
  <2>1. crashes' \in 0..MaxCrashes
    BY <1>0, <1>7, MaxCrashesAssumption DEF CommCrash
  <2> QED
    BY <1>7, <2>1, StopInv DEF CommCrash
<1>8. CASE Tick
  <2>1. CASE BeginCheck \/ Wait \/ Reserve \/ Probe \/ Reconcile
    BY <2>1, <1>2 DEF BeginCheck, Wait, Reserve, Probe, Reconcile
  <2>2. CASE BeginDelivery \/ Resume
    BY <2>2, <1>4 DEF BeginDelivery, Resume
  <2>3. CASE \/ ProbeFailed \/ ReconcileFailed \/ EndDelivery \/ DeliveryFailed
             \/ Online \/ SyncingWithGap \/ SyncingMore
    BY <2>3, <1>3 DEF ProbeFailed, ReconcileFailed, EndDelivery, DeliveryFailed, Online,
       SyncingWithGap, SyncingMore, FailCheck, Save
  <2> QED
    BY <1>5, <1>6, <1>8, <2>1, <2>2, <2>3 DEF Tick
<1>9. CASE UNCHANGED commVars \/ (\E action \in Commands : Command(action)) \/ DeadlineComes
  BY <1>2, <1>9 DEF commVars, Command, DeadlineComes
<1> QED
  BY <1>1, <1>7, <1>8, <1>9 DEF CommNext

-----------------------------------------------------------------------------
(* Steps that change the guard, and steps that do not.                      *)

\* The journal is only appended to and LIMS forgets nothing.
JournalGrows ==
    /\ Len(journal') \in Nat /\ Len(journal) <= Len(journal')
    /\ \A i \in 1..Len(journal) : journal'[i] = journal[i]
    /\ lims \subseteq lims'

LEMMA OutboxGrows ==
    ASSUME TypeOK, OutboxStep \/ StopEarly
    PROVE  JournalGrows /\ UNCHANGED guard
<1>1. UNCHANGED guard
  BY DEF OutboxStep, StopEarly
<1>2. lims \subseteq lims'
  BY DEF OutboxStep, StopEarly, Complete, FilesChange, Materialize, Decide, DeliverGuarded, Deliver,
     Skip, PostAccepted, PostMissed, PostFailed, PostUnacknowledged, Defer, Journal, Mark, Finish,
     Return, DeadlinePasses
<1>3. journal' = journal \/ \E e : journal' = Append(journal, e)
  BY DEF OutboxStep, StopEarly, Complete, FilesChange, Materialize, Decide, DeliverGuarded, Deliver,
     Skip, PostAccepted, PostMissed, PostFailed, PostUnacknowledged, Defer, Journal, Mark, Finish,
     Return, DeadlinePasses, Add
<1>4. journal \in Seq(Events)
  BY DEF TypeOK
<1>5. Len(journal') \in Nat /\ Len(journal) <= Len(journal')
      /\ \A i \in 1..Len(journal) : journal'[i] = journal[i]
  BY <1>3, <1>4
<1> QED
  BY <1>1, <1>2, <1>5 DEF JournalGrows

\* Every other step keeps the journal and what LIMS has.
LEMMA GuardKeeps ==
    ASSUME [CommNext]_commVars, ~OutboxStep, ~StopEarly
    PROVE  UNCHANGED <<journal, lims>>
BY DEF CommNext, Tick, Command, DeadlineComes, CommCrash, BeginCheck, BeginDelivery, Wait, Reserve,
   Probe, ProbeFailed, Reconcile, Replay, Resume, ReconcileFailed, EndDelivery, DeliveryFailed, Online,
   SyncingWithGap, SyncingMore, Read, FailCheck, Save, commVars, vars

\* What was compared stays compared.
LEMMA ComparedKept ==
    ASSUME TypeOK, JournalGrows, NEW n \in Nat, Compared(n)
    PROVE  Compared(n)'
<1>1. Len(journal) \in Nat
  BY DEF TypeOK
<1> QED
  BY <1>1 DEF Compared, JournalGrows

-----------------------------------------------------------------------------
(* The alarm.                                                               *)

\* A failed check keeps the retry count of an active fault and starts a new fault at
\* zero; it never takes a critical alarm back.
LEMMA FailFacts ==
    ASSUME NEW s \in States, NEW phase \in {"offline", "syncing"}, AlarmOk(s)
    PROVE  /\ Fail(s, phase) \in States /\ AlarmOk(Fail(s, phase))
           /\ Fail(s, phase).fault /\ Fail(s, phase).phase = phase
           /\ Fail(s, phase).retry = IF s.fault THEN s.retry ELSE 0
           /\ Fail(s, phase).out \in {s.out, 0}
           /\ s.alarm = "critical" => Fail(s, phase).alarm = "critical"
<1>1. CASE s.fault
  <2>1. Fail(s, phase) = [s EXCEPT !.phase = phase,
                                   !.alarm = IF s.retry >= 3 THEN "critical" ELSE "warning"]
    BY <1>1 DEF Fail
  <2> QED
    BY <1>1, <2>1 DEF States, Phases, AlarmOk, MaxRetries
<1>2. CASE ~s.fault
  <2> DEFINE t == [s EXCEPT !.fault = TRUE, !.retry = 0, !.ack = FALSE, !.out = 0]
  <2>1. t \in States /\ t.retry = 0 /\ t.fault = TRUE /\ t.out = 0
    <3>1. 0 \in 0..MaxRetries /\ 0 \in Nat
      BY DEF MaxRetries
    <3> QED  BY <3>1 DEF States
  <2>2. Fail(s, phase) = [t EXCEPT !.phase = phase, !.alarm = "warning"]
    BY <1>2, <2>1 DEF Fail
  <2> HIDE DEF t
  <2> QED
    BY <1>2, <2>1, <2>2 DEF States, Phases, AlarmOk, MaxRetries
<1> QED
  BY <1>1, <1>2

LEMMA IncrementFacts ==
    ASSUME NEW n \in 0..MaxRetries
    PROVE  Increment(n) \in 0..MaxRetries /\ n <= Increment(n)
           /\ \A m \in 0..MaxRetries : m <= n => Increment(m) <= Increment(n)
BY DEF Increment, MaxRetries

\* A new state saved at the end of a check, after which the worker is idle.
LEMMA SaveInv ==
    ASSUME CommIInv, IInv', NEW s \in States, AlarmOk(s), comm' = s, round' = NoRound(s),
           due' \in BOOLEAN, control' \subseteq Commands,
           UNCHANGED <<journal, lims>>, Compared(s.out),
           attempts' \in 0..MaxRetries,
           s.fault => attempts' <= s.retry
    PROVE  CommIInv'
<1>1. round' = [pc |-> "idle", s |-> s, snap |-> 0, size |-> 0, missing |-> {},
                outGap |-> FALSE, inGap |-> FALSE, more |-> FALSE]
  BY DEF NoRound
<1>2. CommTypeOK'
  BY <1>1 DEF CommTypeOK, IInv
<1>3. CursorInv'
  BY <1>1 DEF CursorInv, Compared
<1>4. RoundInv'
  BY <1>1 DEF RoundInv, AlarmOk
<1>5. AttemptInv'
  BY <1>1 DEF AttemptInv, AttemptsAreCounted
<1> QED
  BY <1>2, <1>3, <1>4, <1>5 DEF CommIInv

\* A failed check.
LEMMA FailCheckInv ==
    ASSUME CommIInv, IInv', UNCHANGED <<journal, lims>>,
           round.pc \notin {"idle", "quick", "reserve"},
           NEW phase \in {"offline", "syncing"}, Save(Fail(round.s, phase)),
           \/ attempts' = IF round.s.fault THEN attempts ELSE 0
           \/ round.pc = "probe" /\ attempts' = IF round.s.fault THEN Increment(attempts) ELSE 0
    PROVE  CommIInv' /\ (comm.alarm = "critical" => comm'.alarm = "critical")
           /\ comm'.phase = phase
<1>0. CommTypeOK /\ RoundInv /\ AttemptInv /\ CursorInv
  BY DEF CommIInv
<1>1. round.s \in States /\ AlarmOk(round.s) /\ Compared(round.s.out)
      /\ attempts \in 0..MaxRetries
  BY <1>0 DEF CommTypeOK, RoundInv, CursorInv
<1> DEFINE s == Fail(round.s, phase)
<1>2. /\ s \in States /\ AlarmOk(s) /\ s.fault /\ s.phase = phase
      /\ s.retry = IF round.s.fault THEN round.s.retry ELSE 0
      /\ s.out \in {round.s.out, 0}
      /\ round.s.alarm = "critical" => s.alarm = "critical"
  BY <1>1, FailFacts
<1> HIDE DEF s
<1>3. comm' = s /\ round' = NoRound(s) /\ due' = FALSE /\ control' = control
  BY DEF Save, s
<1>4. attempts' \in 0..MaxRetries
  BY <1>1, IncrementFacts DEF MaxRetries
<1>5. s.fault => attempts' <= s.retry
  <2>1. CASE round.s.fault
    <3>1. comm.fault /\ s.retry = comm.retry
      BY <1>0, <1>2, <2>1 DEF RoundInv
    <3> QED
      BY <1>0, <2>1, <3>1 DEF AttemptInv, AttemptsAreCounted
  <2>2. CASE ~round.s.fault
    BY <1>2, <2>2
  <2> QED  BY <2>1, <2>2
<1>6. Compared(s.out)
  <2>1. Compared(0)
    BY <1>1 DEF Compared, CommTypeOK, TypeOK, States
  <2> QED  BY <1>1, <1>2, <2>1
<1>7. control \subseteq Commands
  BY <1>0 DEF CommTypeOK
<1>8. CommIInv'
  BY <1>2, <1>3, <1>4, <1>5, <1>6, <1>7, SaveInv
<1> QED
  BY <1>0, <1>2, <1>3, <1>8 DEF RoundInv

-----------------------------------------------------------------------------
(* One lemma for each kind of step.                                         *)

\* The producers and the worker.
LEMMA OutboxStepInv ==
    ASSUME CommIInv, IInv', OutboxStep \/ StopEarly
    PROVE  CommIInv'
<1>0. TypeOK /\ CommTypeOK /\ CursorInv /\ RoundInv /\ AttemptInv
  BY DEF CommIInv, IInv
<1>1. JournalGrows /\ UNCHANGED <<comm, due, control, round, attempts>>
  BY <1>0, OutboxGrows DEF guard
<1>2. CommTypeOK'
  BY <1>0, <1>1 DEF CommTypeOK, IInv
<1>3. RoundInv' /\ AttemptInv'
  BY <1>0, <1>1 DEF RoundInv, AttemptInv, AttemptsAreCounted
<1>4. comm.out \in Nat /\ round.s.out \in Nat /\ round.size \in Nat /\ round.snap \in Nat
  BY <1>0 DEF CommTypeOK, States
<1>5. \A n \in Nat : Compared(n) => Compared(n)'
  BY <1>0, <1>1, ComparedKept
<1>6. CursorInv'
  <2>1. Compared(comm.out)' /\ Compared(round.s.out)'
    <3>1. Compared(comm.out) /\ Compared(round.s.out)
      BY <1>0 DEF CursorInv
    <3> QED
      BY <1>1, <1>4, <1>5, <3>1 DEF Compared
  <2>2. ASSUME round.pc \in {"replay", "deliver"}
        PROVE  round.snap <= Len(journal')
    <3>1. round.snap <= Len(journal) /\ Len(journal) \in Nat
      BY <1>0, <2>2 DEF CursorInv, TypeOK
    <3> QED
      BY <1>1, <1>4, <3>1 DEF JournalGrows
  <2>3. ASSUME round.pc = "replay"
        PROVE  round.missing \subseteq Elements(journal')
    <3>1. Elements(journal) \subseteq Elements(journal')
      <4>1. Len(journal) \in Nat
        BY <1>0 DEF TypeOK
      <4> QED
        BY <1>1, <4>1 DEF Elements, JournalGrows
    <3> QED
      BY <1>0, <2>3, <3>1 DEF CursorInv
  <2>4. ASSUME round.pc = "replay", ~round.outGap
        PROVE  Compared(round.s.out + round.size)'
    <3>1. Compared(round.s.out + round.size) /\ round.s.out + round.size \in Nat
      BY <1>0, <1>4, <2>4 DEF CursorInv
    <3> QED
      BY <1>1, <1>5, <3>1 DEF Compared
  <2> QED
    BY <1>1, <2>1, <2>2, <2>3, <2>4 DEF CursorInv, Elements
<1> QED
  BY <1>2, <1>3, <1>6 DEF CommIInv

\* The saved state with its commands.
LEMMA TakenFacts ==
    ASSUME CommIInv
    PROVE  /\ Taken \in States
           /\ \E ack \in BOOLEAN : Taken = [comm EXCEPT !.ack = ack]
<1>1. comm \in States
  BY DEF CommIInv, CommTypeOK
<1>2. ((comm.ack \/ ("acknowledge" \in control /\ comm.alarm # "none"))) \in BOOLEAN
  OBVIOUS
<1>3. PICK ack \in BOOLEAN : Taken = [comm EXCEPT !.ack = ack]
  BY <1>2 DEF Taken
<1> QED
  BY <1>1, <1>3 DEF States

\* A check begins with a copy of the saved state.
LEMMA BeginCheckInv ==
    ASSUME CommIInv, IInv', BeginCheck
    PROVE  CommIInv'
<1>0. CommTypeOK /\ CursorInv /\ RoundInv /\ AttemptInv /\ comm \in States
  BY DEF CommIInv, CommTypeOK
<1>1. PICK ack \in BOOLEAN : Taken = [comm EXCEPT !.ack = ack]
  BY TakenFacts
<1> DEFINE retry == IF comm.fault THEN Increment(comm.retry) ELSE comm.retry
           s == [comm EXCEPT !.ack = ack, !.phase = "checking", !.retry = retry]
<1>2. retry \in 0..MaxRetries /\ comm.retry <= retry
  BY <1>0, IncrementFacts DEF States, MaxRetries
<1>3. [Taken EXCEPT !.phase = "checking", !.retry = IF comm.fault THEN Increment(@) ELSE @] = s
  BY <1>0, <1>1 DEF States
<1>r. comm.fault => retry = Increment(comm.retry)
  OBVIOUS
<1> HIDE DEF retry
<1>4. s \in States
  BY <1>0, <1>2 DEF States, Phases
<1>5. s.alarm = comm.alarm /\ s.fault = comm.fault /\ s.phase = "checking" /\ s.out = comm.out
      /\ s.retry = retry
  BY <1>0 DEF States
<1> HIDE DEF s
<1>a. AlarmOk(s)
  <2>1. AlarmOk(comm) /\ comm.retry \in 0..3 /\ retry \in 0..3
    BY <1>0, <1>2 DEF RoundInv, States, MaxRetries
  <2> QED  BY <1>2, <1>5, <2>1 DEF AlarmOk
<1>6. round' = [pc |-> "reserve", s |-> s, snap |-> 0, size |-> 0, missing |-> {},
                outGap |-> FALSE, inGap |-> FALSE, more |-> FALSE]
  BY <1>3 DEF BeginCheck, NoRound
<1>7. control' = {} /\ UNCHANGED <<journal, lims, comm, due, attempts>>
  BY DEF BeginCheck, vars
<1>8. CommTypeOK'
  BY <1>0, <1>4, <1>6, <1>7 DEF CommTypeOK, IInv
<1>9. CursorInv'
  BY <1>0, <1>5, <1>6, <1>7 DEF CursorInv, Compared
<1>10. RoundInv'
  BY <1>0, <1>a, <1>r, <1>5, <1>6, <1>7 DEF RoundInv
<1>11. AttemptInv'
  BY <1>0, <1>6, <1>7 DEF AttemptInv, AttemptsAreCounted
<1> QED
  BY <1>8, <1>9, <1>10, <1>11 DEF CommIInv

\* A delivery between two checks, or an acknowledgement while nothing is due.
LEMMA BeginDeliveryInv ==
    ASSUME CommIInv, IInv', BeginDelivery \/ Wait
    PROVE  CommIInv'
<1>0. CommTypeOK /\ CursorInv /\ RoundInv /\ AttemptInv /\ comm \in States
  BY DEF CommIInv, CommTypeOK
<1>1. PICK ack \in BOOLEAN : Taken = [comm EXCEPT !.ack = ack]
  BY TakenFacts
<1> DEFINE s == [comm EXCEPT !.ack = ack]
<1>2. s \in States /\ AlarmOk(s)
  BY <1>0 DEF States, AlarmOk, RoundInv
<1>3. s.alarm = comm.alarm /\ s.fault = comm.fault /\ s.out = comm.out /\ s.retry = comm.retry
  BY <1>0 DEF States
<1>4. Taken = s
  BY <1>1
<1> HIDE DEF s
<1>6. CASE BeginDelivery
  <2>1. round' = [pc |-> "quick", s |-> s, snap |-> 0, size |-> 0, missing |-> {},
                  outGap |-> FALSE, inGap |-> FALSE, more |-> FALSE]
    <3>1. round' = [NoRound(Taken) EXCEPT !.pc = "quick"]
      BY <1>6 DEF BeginDelivery
    <3>2. round' = [NoRound(s) EXCEPT !.pc = "quick"]
      BY <1>4, <3>1
    <3> QED  BY <3>2 DEF NoRound
  <2>2. control' = {} /\ UNCHANGED <<journal, lims, comm, due, attempts>>
        /\ comm.phase = "online"
    BY <1>6 DEF BeginDelivery, Read
  <2>3. CommTypeOK'
    BY <1>0, <1>2, <2>1, <2>2 DEF CommTypeOK, IInv
  <2>4. CursorInv'
    BY <1>0, <1>3, <2>1, <2>2 DEF CursorInv, Compared
  <2>5. RoundInv'
    BY <1>0, <1>2, <1>3, <2>1, <2>2 DEF RoundInv
  <2>6. AttemptInv'
    BY <1>0, <2>1, <2>2 DEF AttemptInv, AttemptsAreCounted
  <2> QED
    BY <2>3, <2>4, <2>5, <2>6 DEF CommIInv
<1>7. CASE Wait
  <2>1. comm' = s /\ round' = NoRound(s) /\ control' = {}
        /\ UNCHANGED <<journal, lims, due, attempts>>
    BY <1>4, <1>7 DEF Wait, vars
  <2>2. Compared(s.out)
    BY <1>0, <1>3 DEF CursorInv
  <2>3. s.fault => attempts <= s.retry
    BY <1>0, <1>3 DEF AttemptInv, AttemptsAreCounted
  <2>4. attempts \in 0..MaxRetries /\ due \in BOOLEAN
    BY <1>0 DEF CommTypeOK
  <2> QED
    BY <1>2, <2>1, <2>2, <2>3, <2>4, SaveInv
<1> QED
  BY <1>6, <1>7

\* The attempt is saved; its retry count counts the probe that follows.
LEMMA ReserveInv ==
    ASSUME CommIInv, IInv', Reserve
    PROVE  CommIInv'
<1>0. CommTypeOK /\ CursorInv /\ RoundInv /\ AttemptInv /\ round.pc = "reserve"
  BY DEF CommIInv, Reserve
<1>1. comm' = round.s /\ due' = FALSE /\ UNCHANGED <<journal, lims, control, attempts>>
      /\ round' = [round EXCEPT !.pc = "probe"]
  BY DEF Reserve, vars
<1>2. round'.pc = "probe" /\ round'.s = round.s /\ round' \in [pc: {"probe"},
          s: States, snap: Nat, size: Nat, missing: SUBSET Events,
          outGap: BOOLEAN, inGap: BOOLEAN, more: BOOLEAN]
  BY <1>0, <1>1 DEF CommTypeOK
<1>3. CommTypeOK'
  BY <1>0, <1>1, <1>2 DEF CommTypeOK, IInv
<1>4. CursorInv'
  BY <1>0, <1>1, <1>2 DEF CursorInv, Compared
<1>5. RoundInv'
  BY <1>0, <1>1, <1>2 DEF RoundInv
<1>6. AttemptInv'
  <2>1. ASSUME comm'.fault
        PROVE  attempts <= comm'.retry /\ Increment(attempts) <= comm'.retry
    <3>1. comm.fault /\ comm'.retry = Increment(comm.retry) /\ attempts <= comm.retry
      BY <1>0, <1>1, <2>1 DEF RoundInv, AttemptInv, AttemptsAreCounted
    <3>2. comm.retry \in 0..MaxRetries /\ attempts \in 0..MaxRetries
      BY <1>0 DEF CommTypeOK, States
    <3>3. Increment(attempts) <= Increment(comm.retry) /\ attempts <= Increment(attempts)
      BY <3>1, <3>2, IncrementFacts
    <3>4. Increment(attempts) \in 0..MaxRetries /\ Increment(comm.retry) \in 0..MaxRetries
      BY <3>2, IncrementFacts
    <3> QED
      BY <3>1, <3>2, <3>3, <3>4 DEF MaxRetries
  <2> QED
    BY <1>1, <2>1 DEF AttemptInv, AttemptsAreCounted
<1> QED
  BY <1>3, <1>4, <1>5, <1>6 DEF CommIInv

\* A step inside a check, after the reservation, that keeps its copy of the state
\* except for the cursor.
LEMMA MidCheckInv ==
    ASSUME CommIInv, IInv', UNCHANGED <<journal, lims, comm, due, control>>,
           round.pc \in {"probe", "reconcile", "replay"},
           round' \in [pc: {"reconcile", "replay", "deliver"}, s: States, snap: Nat, size: Nat,
                       missing: SUBSET Events, outGap: BOOLEAN, inGap: BOOLEAN, more: BOOLEAN],
           \E out \in Nat : round'.s = [round.s EXCEPT !.out = out],
           CursorInv', attempts' \in 0..MaxRetries, comm.fault => attempts' <= comm.retry
    PROVE  CommIInv'
<1>0. CommTypeOK /\ RoundInv
  BY DEF CommIInv
<1>1. /\ round'.s.alarm = round.s.alarm /\ round'.s.fault = round.s.fault
      /\ round'.s.phase = round.s.phase /\ round'.s.retry = round.s.retry
  BY <1>0 DEF CommTypeOK, States
<1>2. CommTypeOK'
  BY <1>0 DEF CommTypeOK, IInv
<1>3. RoundInv'
  BY <1>0, <1>1 DEF RoundInv, AlarmOk
<1>4. AttemptInv'
  BY DEF AttemptInv, AttemptsAreCounted
<1> QED
  BY <1>2, <1>3, <1>4 DEF CommIInv

\* A probe that is answered.
LEMMA ProbeInv ==
    ASSUME CommIInv, IInv', Probe
    PROVE  CommIInv'
<1>0. CommTypeOK /\ CursorInv /\ RoundInv /\ AttemptInv /\ round.pc = "probe"
  BY DEF CommIInv, Probe
<1>1. round' = [round EXCEPT !.pc = "reconcile"]
      /\ UNCHANGED <<journal, lims, comm, due, control>>
      /\ attempts' = IF round.s.fault THEN Increment(attempts) ELSE 0
  BY DEF Probe, vars
<1>2. round' \in [pc: {"reconcile"}, s: States, snap: Nat, size: Nat,
                  missing: SUBSET Events, outGap: BOOLEAN, inGap: BOOLEAN, more: BOOLEAN]
      /\ round'.pc = "reconcile" /\ round'.s = round.s
  BY <1>0, <1>1 DEF CommTypeOK
<1>3. round.s.out \in Nat /\ round.s = [round.s EXCEPT !.out = round.s.out]
  BY <1>0 DEF CommTypeOK, States
<1>4. CursorInv'
  BY <1>0, <1>1, <1>2 DEF CursorInv, Compared
<1>5. attempts \in 0..MaxRetries /\ comm.retry \in 0..MaxRetries
  BY <1>0 DEF CommTypeOK, States
<1>6. attempts' \in 0..MaxRetries
  BY <1>1, <1>5, IncrementFacts DEF MaxRetries
<1>7. comm.fault => attempts' <= comm.retry
  BY <1>0, <1>1 DEF AttemptInv, RoundInv
<1> QED
  BY <1>0, <1>1, <1>2, <1>3, <1>4, <1>6, <1>7, MidCheckInv

\* A batch of the journal behind the cursor.
LEMMA BatchFacts ==
    ASSUME TypeOK, NEW out \in Nat, out <= Len(journal),
           NEW end \in Nat, out <= end, end <= Len(journal)
    PROVE  /\ Len(SubSeq(journal, out + 1, end)) = end - out
           /\ Elements(SubSeq(journal, out + 1, end)) \subseteq Elements(journal)
           /\ Compared(out) /\ Elements(SubSeq(journal, out + 1, end)) \subseteq lims => Compared(end)
<1> DEFINE b == SubSeq(journal, out + 1, end)
<1>0. journal \in Seq(Events) /\ Len(journal) \in Nat
  BY DEF TypeOK
<1>1. Len(b) = end - out /\ \A i \in 1..(end - out) : b[i] = journal[out + i]
  BY <1>0
<1> HIDE DEF b
<1>2. \A i \in 1..(end - out) : out + i \in 1..Len(journal)
  BY <1>0
<1>3. Elements(b) \subseteq Elements(journal)
  BY <1>1, <1>2 DEF Elements
<1>4. ASSUME Compared(out), Elements(b) \subseteq lims
      PROVE  Compared(end)
  <2>1. ASSUME NEW i \in 1..end
        PROVE  journal[i] \in lims
    <3>1. CASE i <= out
      BY <1>4, <3>1 DEF Compared
    <3>2. CASE i > out
      <4>1. i - out \in 1..(end - out) /\ out + (i - out) = i
        BY <3>2
      <4>2. b[i - out] \in Elements(b) /\ b[i - out] = journal[i]
        BY <1>1, <4>1 DEF Elements
      <4> QED
        BY <1>4, <4>2
    <3> QED  BY <3>1, <3>2
  <2> QED
    BY <2>1 DEF Compared
<1> QED
  BY <1>1, <1>3, <1>4 DEF b

\* A batch is compared.
LEMMA ReconcileInv ==
    ASSUME CommIInv, IInv', Reconcile
    PROVE  CommIInv'
<1> DEFINE last  == round.s.out + BatchSize
           end   == IF last < Len(journal) THEN last ELSE Len(journal)
           batch == SubSeq(journal, round.s.out + 1, end)
<1>0. TypeOK /\ CommTypeOK /\ CursorInv /\ RoundInv /\ AttemptInv /\ round.pc = "reconcile"
  BY DEF CommIInv, IInv, Reconcile
<1>1. PICK inGap \in BOOLEAN, more \in BOOLEAN :
         round' = [round EXCEPT !.pc = "replay", !.snap = Len(journal), !.size = Len(batch),
                                !.missing = Elements(batch) \ lims,
                                !.outGap = ~(Elements(batch) \subseteq lims),
                                !.inGap = inGap, !.more = more]
  BY DEF Reconcile
<1>2. UNCHANGED <<journal, lims, comm, due, control, attempts>>
  BY DEF Reconcile, vars
<1>3. round.s.out \in Nat /\ round.s.out <= Len(journal) /\ Len(journal) \in Nat
      /\ Compared(round.s.out) /\ Compared(comm.out)
  BY <1>0 DEF CommTypeOK, States, CursorInv, Compared, TypeOK
<1>4. end \in Nat /\ round.s.out <= end /\ end <= Len(journal)
  BY <1>3, BatchSizeAssumption
<1> HIDE DEF end
<1>5. /\ Len(batch) = end - round.s.out /\ Len(batch) \in Nat
      /\ Elements(batch) \subseteq Elements(journal)
      /\ Elements(batch) \subseteq lims => Compared(end)
  BY <1>0, <1>3, <1>4, BatchFacts
<1> HIDE DEF batch
<1>6. Elements(batch) \subseteq Events
  BY <1>0, <1>5, ElementsType DEF TypeOK
<1>7. (Elements(batch) \ lims) \in SUBSET Events /\ (~(Elements(batch) \subseteq lims)) \in BOOLEAN
  BY <1>6
<1>8. round' \in [pc: {"replay"}, s: States, snap: Nat, size: Nat,
                  missing: SUBSET Events, outGap: BOOLEAN, inGap: BOOLEAN, more: BOOLEAN]
  BY <1>0, <1>1, <1>3, <1>5, <1>7 DEF CommTypeOK
<1>9. /\ round'.pc = "replay" /\ round'.s = round.s /\ round'.snap = Len(journal)
      /\ round'.size = Len(batch) /\ round'.missing = Elements(batch) \ lims
      /\ round'.outGap <=> ~(Elements(batch) \subseteq lims)
  BY <1>0, <1>1 DEF CommTypeOK
<1>10. CursorInv'
  <2>1. round.s.out + Len(batch) = end
    BY <1>3, <1>4, <1>5
  <2>2. ~round'.outGap => Compared(round'.s.out + round'.size)
    BY <1>5, <1>9, <2>1
  <2>3. round'.snap <= Len(journal)
    BY <1>3, <1>9
  <2>4. round'.missing \subseteq Elements(journal)
    BY <1>5, <1>9
  <2>5. Compared(round'.s.out) /\ Compared(comm.out)
    BY <1>3, <1>9
  <2> QED
    BY <1>2, <2>2, <2>3, <2>4, <2>5 DEF CursorInv, Compared, Elements
<1>11. round.s = [round.s EXCEPT !.out = round.s.out]
  BY <1>0 DEF CommTypeOK, States
<1>12. attempts \in 0..MaxRetries /\ (comm.fault => attempts <= comm.retry)
  BY <1>0 DEF CommTypeOK, AttemptInv, AttemptsAreCounted
<1> QED
  BY <1>0, <1>2, <1>3, <1>8, <1>9, <1>10, <1>11, <1>12, MidCheckInv

\* A missing row is enqueued.
LEMMA ReplayStepInv ==
    ASSUME CommIInv, IInv', NEW e \in Events, Replay(e)
    PROVE  CommIInv'
<1>0. CommTypeOK /\ CursorInv /\ RoundInv /\ AttemptInv /\ round.pc = "replay"
  BY DEF CommIInv, Replay
<1>1. round' = [round EXCEPT !.missing = @ \ {e}]
      /\ UNCHANGED <<journal, lims, comm, due, control, attempts>>
  BY DEF Replay
<1>2. round' \in [pc: {"replay"}, s: States, snap: Nat, size: Nat,
                  missing: SUBSET Events, outGap: BOOLEAN, inGap: BOOLEAN, more: BOOLEAN]
  BY <1>0, <1>1 DEF CommTypeOK
<1>3. /\ round'.pc = "replay" /\ round'.s = round.s /\ round'.snap = round.snap
      /\ round'.size = round.size /\ round'.missing \subseteq round.missing
      /\ round'.outGap = round.outGap
  BY <1>0, <1>1 DEF CommTypeOK
<1>4. CursorInv'
  BY <1>0, <1>1, <1>3 DEF CursorInv, Compared, Elements
<1>5. round.s.out \in Nat /\ round.s = [round.s EXCEPT !.out = round.s.out]
  BY <1>0 DEF CommTypeOK, States
<1>6. attempts \in 0..MaxRetries /\ (comm.fault => attempts <= comm.retry)
  BY <1>0 DEF CommTypeOK, AttemptInv, AttemptsAreCounted
<1> QED
  BY <1>0, <1>1, <1>2, <1>3, <1>4, <1>5, <1>6, MidCheckInv

\* The cursor passes a batch that LIMS has, and the outbox is delivered.
LEMMA ResumeInv ==
    ASSUME CommIInv, IInv', Resume
    PROVE  CommIInv'
<1> DEFINE out == IF round.outGap THEN round.s.out ELSE round.s.out + round.size
<1>0. CommTypeOK /\ CursorInv /\ RoundInv /\ AttemptInv /\ round.pc = "replay"
  BY DEF CommIInv, Resume
<1>1. round' = [round EXCEPT !.pc = "deliver",
                             !.s.out = IF round.outGap THEN @ ELSE @ + round.size]
      /\ UNCHANGED <<journal, lims, comm, due, control, attempts>>
  BY DEF Resume, Read
<1>2. out \in Nat /\ Compared(out)
  BY <1>0 DEF CommTypeOK, States, CursorInv
<1>3. round'.s = [round.s EXCEPT !.out = out] /\ round'.pc = "deliver" /\ round'.snap = round.snap
  BY <1>0, <1>1 DEF CommTypeOK
<1> HIDE DEF out
<1>4. [round.s EXCEPT !.out = out] \in States /\ [round.s EXCEPT !.out = out].out = out
  BY <1>0, <1>2 DEF CommTypeOK, States
<1>5. round' \in [pc: {"deliver"}, s: States, snap: Nat, size: Nat,
                  missing: SUBSET Events, outGap: BOOLEAN, inGap: BOOLEAN, more: BOOLEAN]
  BY <1>0, <1>1, <1>3, <1>4 DEF CommTypeOK
<1>6. CursorInv'
  BY <1>0, <1>1, <1>2, <1>3, <1>4 DEF CursorInv, Compared
<1>7. attempts \in 0..MaxRetries /\ (comm.fault => attempts <= comm.retry)
  BY <1>0 DEF CommTypeOK, AttemptInv, AttemptsAreCounted
<1> QED
  BY <1>0, <1>1, <1>2, <1>3, <1>5, <1>6, <1>7, MidCheckInv

\* The checks that fail.
LEMMA FailedInv ==
    ASSUME CommIInv, IInv',
           ProbeFailed \/ ReconcileFailed \/ DeliveryFailed \/ SyncingWithGap
    PROVE  CommIInv' /\ (comm.alarm = "critical" => comm'.alarm = "critical")
           /\ comm'.phase \in {"offline", "syncing"}
<1>1. UNCHANGED <<journal, lims>> /\ round.pc \notin {"idle", "quick", "reserve"}
  BY DEF ProbeFailed, ReconcileFailed, DeliveryFailed, SyncingWithGap, CheckDelivered
<1>2. PICK phase \in {"offline", "syncing"} :
         /\ Save(Fail(round.s, phase))
         /\ \/ attempts' = IF round.s.fault THEN attempts ELSE 0
            \/ round.pc = "probe" /\ attempts' = IF round.s.fault THEN Increment(attempts) ELSE 0
  <2>1. CASE ProbeFailed
    BY <2>1 DEF ProbeFailed
  <2>2. CASE ReconcileFailed
    BY <2>2 DEF ReconcileFailed, FailCheck
  <2>3. CASE DeliveryFailed
    BY <2>3 DEF DeliveryFailed, FailCheck
  <2>4. CASE SyncingWithGap
    BY <2>4 DEF SyncingWithGap, FailCheck
  <2> QED  BY <2>1, <2>2, <2>3, <2>4
<1> QED
  BY <1>1, <1>2, FailCheckInv

\* A check that is complete, or that has only more to compare.
LEMMA CheckedInv ==
    ASSUME CommIInv, IInv', Online \/ SyncingMore
    PROVE  CommIInv' /\ (comm.alarm = "critical" /\ SyncingMore => comm'.alarm = "critical")
           /\ (Online => comm'.phase = "online") /\ (SyncingMore => comm'.phase = "syncing")
<1>0. CommTypeOK /\ CursorInv /\ RoundInv /\ AttemptInv /\ round.pc = "deliver"
      /\ round.s \in States /\ control \subseteq Commands /\ TypeOK
  BY DEF CommIInv, CommTypeOK, IInv, Online, SyncingMore, CheckDelivered
<1>1. CASE Online
  <2> DEFINE s == [phase |-> "online", retry |-> 0, alarm |-> "none", fault |-> FALSE,
                   ack |-> FALSE, out |-> 0]
  <2>1. s \in States /\ AlarmOk(s) /\ s.fault = FALSE /\ s.out = 0 /\ s.phase = "online"
    BY DEF States, Phases, AlarmOk, MaxRetries
  <2>2. Compared(0)
    BY <1>0 DEF Compared, TypeOK
  <2> HIDE DEF s
  <2>3. comm' = s /\ round' = NoRound(s) /\ due' = FALSE /\ control' = control
        /\ UNCHANGED <<journal, lims>> /\ attempts' = 0
    BY <1>1 DEF Online, Save, s
  <2>4. 0 \in 0..MaxRetries
    BY DEF MaxRetries
  <2>5. CommIInv'
    BY <1>0, <2>1, <2>2, <2>3, <2>4, SaveInv
  <2> QED
    BY <1>1, <2>1, <2>3, <2>5 DEF SyncingMore, Save, Online
<1>2. CASE SyncingMore
  <2> DEFINE s == [round.s EXCEPT !.phase = "syncing"]
  <2>1. s \in States /\ s.out = round.s.out /\ s.fault = round.s.fault /\ s.alarm = round.s.alarm
        /\ s.retry = round.s.retry /\ s.phase = "syncing"
    BY <1>0 DEF States, Phases
  <2> HIDE DEF s
  <2>2. AlarmOk(s)
    BY <1>0, <2>1 DEF RoundInv, AlarmOk
  <2>3. comm' = s /\ round' = NoRound(s) /\ due' = FALSE /\ control' = control
        /\ UNCHANGED <<journal, lims, attempts>>
    BY <1>2 DEF SyncingMore, Save, s
  <2>4. 0 \in 0..MaxRetries /\ attempts \in 0..MaxRetries
    BY <1>0 DEF MaxRetries, CommTypeOK
  <2>5. s.fault => attempts <= s.retry
    BY <1>0, <2>1 DEF RoundInv, AttemptInv, AttemptsAreCounted
  <2>6. Compared(s.out)
    BY <1>0, <2>1 DEF CursorInv
  <2>7. CommIInv'
    BY <1>0, <2>1, <2>2, <2>3, <2>4, <2>5, <2>6, SaveInv
  <2>8. comm.alarm = "critical" => comm'.alarm = "critical"
    BY <1>0, <2>1, <2>3 DEF RoundInv
  <2>9. ~Online
    BY <1>2 DEF SyncingMore, Online
  <2> QED
    BY <2>1, <2>3, <2>7, <2>8, <2>9
<1> QED
  BY <1>1, <1>2

\* The end of a delivery between two checks; a failure starts a fault, for there is
\* none while the phase is online.
LEMMA EndDeliveryInv ==
    ASSUME CommIInv, IInv', EndDelivery
    PROVE  CommIInv' /\ comm.phase = "online" /\ comm.alarm # "critical"
<1>0. CommTypeOK /\ CursorInv /\ RoundInv /\ AttemptInv /\ round.pc = "quick"
      /\ round.s \in States /\ control \subseteq Commands /\ TypeOK /\ due \in BOOLEAN
  BY DEF CommIInv, CommTypeOK, IInv, EndDelivery
<1>1. comm.phase = "online" /\ comm.alarm # "critical" /\ comm.fault = FALSE /\ comm \in States
      /\ round.s.fault = FALSE
  BY <1>0 DEF RoundInv, AlarmOk, CommTypeOK, States
<1> DEFINE s == IF worker.error THEN Fail(round.s, "offline") ELSE round.s
<1>2. AlarmOk(round.s) /\ Compared(round.s.out) /\ Compared(0)
  BY <1>0 DEF RoundInv, CursorInv, Compared, TypeOK
<1>3. s \in States /\ AlarmOk(s) /\ s.out \in {round.s.out, 0}
      /\ (~worker.error => s.fault = FALSE) /\ (worker.error => s.retry = 0)
  BY <1>0, <1>1, <1>2, FailFacts
<1> HIDE DEF s
<1>4. comm' = s /\ round' = NoRound(s) /\ due' = (due /\ ~worker.error)
      /\ UNCHANGED <<journal, lims, control>>
      /\ attempts' = (IF worker.error THEN 0 ELSE attempts)
  BY DEF EndDelivery, s
<1>5. attempts' \in 0..MaxRetries /\ due' \in BOOLEAN
  <2>1. attempts \in 0..MaxRetries /\ 0 \in 0..MaxRetries
    BY <1>0 DEF CommTypeOK, MaxRetries
  <2>2. due' \in BOOLEAN
    BY <1>4
  <2> QED  BY <1>4, <2>1, <2>2
<1>6. s.fault => attempts' <= s.retry
  BY <1>3, <1>4
<1>7. Compared(s.out)
  BY <1>2, <1>3
<1>8. CommIInv'
  BY <1>0, <1>3, <1>4, <1>5, <1>6, <1>7, SaveInv
<1> QED
  BY <1>1, <1>8

\* Operators, the clock, and a crash, which leaves the saved state.
LEMMA OtherStepInv ==
    ASSUME CommIInv, IInv',
           \/ \E action \in Commands : Command(action)
           \/ DeadlineComes \/ CommCrash \/ UNCHANGED commVars
    PROVE  CommIInv' /\ comm' = comm
<1>0. CommTypeOK /\ CursorInv /\ RoundInv /\ AttemptInv
  BY DEF CommIInv
<1>1. CASE CommCrash
  <2>1. comm' = comm /\ round' = NoRound(comm)
        /\ UNCHANGED <<journal, lims, due, control, attempts>>
    BY <1>1 DEF CommCrash
  <2>2. comm \in States /\ due \in BOOLEAN /\ control \subseteq Commands
        /\ attempts \in 0..MaxRetries
    BY <1>0 DEF CommTypeOK
  <2>3. AlarmOk(comm) /\ Compared(comm.out) /\ (comm.fault => attempts <= comm.retry)
    BY <1>0 DEF RoundInv, CursorInv, AttemptInv, AttemptsAreCounted
  <2> QED
    BY <2>1, <2>2, <2>3, SaveInv
<1>2. CASE (\E action \in Commands : Command(action)) \/ DeadlineComes \/ UNCHANGED commVars
  <2>1. UNCHANGED <<journal, lims, comm, round, attempts>>
    BY <1>2 DEF Command, DeadlineComes, commVars, guard, vars
  <2>2. due' \in BOOLEAN /\ control' \subseteq Commands
    BY <1>0, <1>2 DEF CommTypeOK, Command, DeadlineComes, commVars, guard
  <2>3. CommTypeOK'
    BY <1>0, <2>1, <2>2 DEF CommTypeOK, IInv
  <2>4. CursorInv' /\ RoundInv' /\ AttemptInv'
    BY <1>0, <2>1 DEF CursorInv, Compared, Elements, RoundInv, AttemptInv, AttemptsAreCounted
  <2> QED
    BY <2>1, <2>3, <2>4 DEF CommIInv
<1> QED
  BY <1>1, <1>2

-----------------------------------------------------------------------------
(* Theorems.                                                                *)

LEMMA CommInitInv == CommInit => CommIInv
<1> SUFFICES ASSUME CommInit PROVE CommIInv
  OBVIOUS
<1>1. IInv
  BY InitInv DEF CommInit
<1>2. InitialState \in States /\ AlarmOk(InitialState) /\ InitialState.out = 0
      /\ ~InitialState.fault
  BY DEF InitialState, States, Phases, AlarmOk, MaxRetries
<1>3. comm = InitialState /\ round = [pc |-> "idle", s |-> InitialState, snap |-> 0, size |-> 0,
         missing |-> {}, outGap |-> FALSE, inGap |-> FALSE, more |-> FALSE]
      /\ due = TRUE /\ control = {} /\ attempts = 0 /\ journal = <<>>
  BY DEF CommInit, Init, NoRound
<1> HIDE DEF InitialState
<1>4. CommTypeOK
  BY <1>1, <1>2, <1>3 DEF CommTypeOK, IInv, MaxRetries
<1>5. CursorInv /\ RoundInv
  BY <1>2, <1>3 DEF CursorInv, Compared, RoundInv
<1>6. AttemptInv
  BY <1>2, <1>3 DEF AttemptInv, AttemptsAreCounted
<1> QED
  BY <1>1, <1>4, <1>5, <1>6 DEF CommIInv

\* Every step of the guard and of the outbox it drives keeps the invariant.
LEMMA CommNextInv == CommIInv /\ [CommNext]_commVars => CommIInv'
<1> SUFFICES ASSUME CommIInv, [CommNext]_commVars PROVE CommIInv'
  OBVIOUS
<1>0. IInv'
  BY GuardedInv
<1>1. CASE OutboxStep
  BY <1>0, <1>1, OutboxStepInv
<1>2. CASE Tick
  BY <1>0, <1>2, OutboxStepInv, BeginCheckInv, BeginDeliveryInv, ReserveInv, ProbeInv, ReconcileInv,
     ReplayStepInv, ResumeInv, FailedInv, EndDeliveryInv, CheckedInv DEF Tick
<1>3. CASE \/ \E action \in Commands : Command(action)
           \/ DeadlineComes \/ CommCrash \/ UNCHANGED commVars
  BY <1>0, <1>3, OtherStepInv
<1> QED
  BY <1>1, <1>2, <1>3 DEF CommNext

\* The inductive invariant holds.
THEOREM CommInvariance == CommSpec => []CommIInv
  BY CommInitInv, CommNextInv, PTL DEF CommSpec

\* Every variable keeps its type, for any batch size and any journal.
THEOREM CommTypeCorrect == CommSpec => []CommTypeOK
<1>1. CommIInv => CommTypeOK
  BY DEF CommIInv
<1> QED
  BY <1>1, CommInvariance, PTL

\* The outbox loses no committed event with the guard either: what has left it is in
\* the journal, which every check compares with LIMS.
THEOREM GuardedNeverLost == CommSpec => [](NothingLost /\ RecordIsTruthful)
<1>1. CommIInv => NothingLost /\ RecordIsTruthful
  BY DEF CommIInv, IInv
<1> QED
  BY <1>1, CommInvariance, PTL

\* Every probe of a fault is counted, also one that a crash cut off.
THEOREM AttemptsCounted == CommSpec => []AttemptsAreCounted
<1>1. CommIInv => AttemptsAreCounted
  BY DEF CommIInv, AttemptInv
<1> QED
  BY <1>1, CommInvariance, PTL

\* The alarm is about the active fault, critical only after three retries, and online
\* leaves nothing of a past fault.
THEOREM AlarmAgrees == CommSpec => []AlarmMatchesFault
<1>1. CommIInv => AlarmMatchesFault
  BY DEF CommIInv, RoundInv, AlarmOk, AlarmMatchesFault
<1> QED
  BY <1>1, CommInvariance, PTL

\* How the saved state changes: a critical alarm stays or the phase becomes online,
\* and the phase becomes online only by a complete check.
LEMMA StateStep ==
    ASSUME CommIInv, [CommNext]_commVars
    PROVE  /\ comm.alarm = "critical" => comm'.alarm = "critical" \/ comm'.phase = "online"
           /\ comm.phase # "online" /\ comm'.phase = "online" => Online
<1>0. IInv' /\ comm \in States /\ RoundInv
  BY GuardedInv DEF CommIInv, CommTypeOK
<1>1. CASE OutboxStep \/ BeginCheck \/ BeginDelivery \/ Probe \/ Reconcile \/ Resume \/ StopEarly
           \/ (\E e \in Events : Replay(e))
  <2>1. comm' = comm
    BY <1>1 DEF OutboxStep, BeginCheck, BeginDelivery, Probe, Reconcile, Resume, StopEarly, Replay,
       guard
  <2> QED  BY <2>1
<1>2. CASE Wait
  <2>1. comm'.alarm = comm.alarm /\ comm'.phase = comm.phase
    BY <1>0, <1>2, TakenFacts DEF Wait, States
  <2> QED  BY <2>1
<1>3. CASE Reserve
  <2>1. comm' = round.s /\ round.s.alarm = comm.alarm /\ round.s.phase = "checking"
    BY <1>0, <1>3 DEF Reserve, RoundInv
  <2> QED  BY <2>1
<1>4. CASE ProbeFailed \/ ReconcileFailed \/ DeliveryFailed \/ SyncingWithGap
  BY <1>0, <1>4, FailedInv
<1>5. CASE Online \/ SyncingMore
  BY <1>0, <1>5, CheckedInv
<1>6. CASE EndDelivery
  BY <1>0, <1>6, EndDeliveryInv
<1>7. CASE \/ \E action \in Commands : Command(action)
           \/ DeadlineComes \/ CommCrash \/ UNCHANGED commVars
  BY <1>0, <1>7, OtherStepInv
<1> QED
  BY <1>1, <1>2, <1>3, <1>4, <1>5, <1>6, <1>7 DEF CommNext, Tick

\* A critical alarm stays through crashes, probes, acknowledgements and partial syncs
\* until a complete check.
THEOREM CriticalStays == CommSpec => CriticalUntilOnline
<1>1. CommIInv /\ [CommNext]_commVars =>
        [comm.alarm = "critical" => comm'.alarm = "critical" \/ comm'.phase = "online"]_commVars
  BY StateStep
<1> QED
  BY <1>1, CommInvariance, PTL DEF CommSpec, CriticalUntilOnline

\* When a check ends online, LIMS has every event that was in the journal when the check
\* compared it, for any batch size and however many checks the comparison took.
THEOREM OnlineIsReconciled == CommSpec => OnlineMeansReconciled
<1>1. ASSUME CommIInv, [CommNext]_commVars, comm.phase # "online", comm'.phase = "online"
      PROVE  \A i \in 1..round.snap : journal[i] \in lims
  <2>1. Online
    BY <1>1, StateStep
  <2>2. round.s.out >= round.snap /\ Compared(round.s.out)
        /\ round.s.out \in Nat /\ round.snap \in Nat
    BY <1>1, <2>1 DEF Online, AllCompared, CommIInv, CursorInv, CommTypeOK, States
  <2> QED
    BY <2>2 DEF Compared
<1>2. CommIInv /\ [CommNext]_commVars =>
        [comm.phase # "online" /\ comm'.phase = "online"
           => \A i \in 1..round.snap : journal[i] \in lims]_commVars
  BY <1>1
<1> QED
  BY <1>2, CommInvariance, PTL DEF CommSpec, OnlineMeansReconciled

\* A step of the guarded outbox is a step of LimsRelay or changes nothing there.
LEMMA GuardedRelayStep ==
    ASSUME CommIInv, [CommNext]_commVars
    PROVE  [Relay!Next]_Relay!vars
<1>0. IInv /\ IInv'
  BY GuardedInv DEF CommIInv
<1>1. CASE UNCHANGED <<record, receipts, lims>>
  <2>1. Committed' = Committed
    BY <1>1 DEF Committed
  <2> QED
    BY <1>1, <2>1 DEF Relay!vars
<1>2. CASE [Next]_vars
  BY <1>0, <1>2, RelayStep
<1>3. CASE OutboxStep
  <2>1. CASE PostMissed \/ Journal
    BY <1>1, <2>1 DEF PostMissed, Journal, business
  <2>2. CASE \/ \E c \in Completions : Complete(c) \/ FilesChange(c) \/ Materialize(c)
             \/ \E r \in Receipts : Decide(r)
             \/ Deliver \/ \E e \in Events : DeadlinePasses(e)
    BY <1>2, <2>2 DEF Next, Produce
  <2> QED
    BY <1>3, <2>1, <2>2 DEF OutboxStep, DeliverGuarded
<1>4. CASE Tick
  BY <1>1, <1>4 DEF Tick, BeginCheck, BeginDelivery, Wait, Reserve, Probe, ProbeFailed, Reconcile,
     Replay, Resume, ReconcileFailed, StopEarly, EndDelivery, DeliveryFailed, Online, SyncingWithGap,
     SyncingMore, Read, business, vars
<1>5. CASE \/ \E action \in Commands : Command(action)
           \/ DeadlineComes \/ CommCrash \/ UNCHANGED commVars
  BY <1>1, <1>5 DEF Command, DeadlineComes, CommCrash, commVars, business, vars
<1> QED
  BY <1>3, <1>4, <1>5 DEF CommNext

\* The outbox under the guard, with its replays, implements the safety part of LimsRelay too.
THEOREM GuardedImplementsRelay == CommSpec => RelayRefinement
<1>1. CommInit => Relay!Init
  BY RelayInit DEF CommInit
<1>2. CommIInv /\ [CommNext]_commVars => [Relay!Next]_Relay!vars
  BY GuardedRelayStep
<1> QED
  BY <1>1, <1>2, CommInvariance, PTL DEF CommSpec, RelayRefinement, Relay!Spec
=============================================================================
