----------------------------- MODULE LimsOutbox -----------------------------
(***************************************************************************)
(* The durable MES -> LIMS outbox: completion records and their revisions, *)
(* the receipts of task intake, the outbox, the journal of sent events and *)
(* the worker that delivers the outbox over HTTP (LimsHttpRuntime).        *)
(*                                                                         *)
(* An event is <<completion, revision>> or <<receipt, 1>>: event_id is     *)
(* stable_id(completion_id, revision), and the payload of a revision never *)
(* changes.  The MES process is one; what it does between two database     *)
(* transactions is a step of the worker and a crash may fall between them. *)
(***************************************************************************)
EXTENDS Integers, Sequences

CONSTANTS
    Completions,  \* experiments of tray batches that may complete
    Receipts,     \* accepted / rejected / error receipts of task intake
    MaxRevision,  \* bound: revisions of one completion
    MaxCrashes,   \* bound: crashes of the process
    Journaling,   \* LIMS_COMMUNICATION_ENABLED
    Rejected,     \* events LIMS answers with an error whenever they are posted
    Faults        \* which faults of the environment happen

Events == (Completions \X (1..MaxRevision)) \union (Receipts \X {1})

ASSUME MaxRevisionAssumption == MaxRevision \in Nat \ {0}
ASSUME MaxCrashesAssumption == MaxCrashes \in Nat
ASSUME SourcesAssumption == Completions \intersect Receipts = {}
ASSUME JournalingAssumption == Journaling \in BOOLEAN
ASSUME RejectedAssumption == Rejected \subseteq Events
ASSUME FaultsAssumption == Faults \subseteq
    {"http_failure", "lost_ack", "missed", "link_failure", "in_gap"}
\* Without the guard nothing finds an event LIMS acknowledged and failed to store.
ASSUME KeptAssumption == Journaling \/ "missed" \notin Faults

VARIABLES
    files,     \* what data manifest the report files give: "none" before completion
    record,    \* mes.lims_completions: revision, manifest of its fingerprint, state
    receipts,  \* receipts whose intake decision is committed
    outbox,    \* mes.lims_outbox
    waiting,   \* events of the outbox whose next_attempt_at is in the future
    journal,   \* lims.communication.sent
    lims,      \* events LIMS has stored
    worker,    \* the lims-http-outbox task, inside deliver_once
    crashes    \* how often the process has died, up to MaxCrashes

business == <<files, record, receipts>>
vars     == <<business, outbox, waiting, journal, lims, worker, crashes>>

Manifests == {"pending", "ready"}
Elements(s) == {s[i] : i \in 1..Len(s)}

\* s without its element e.
Without(s, e) ==
    IF e \notin Elements(s) THEN s
    ELSE LET k == CHOOSE i \in 1..Len(s) : s[i] = e
         IN  [i \in 1..(Len(s) - 1) |-> IF i < k THEN s[i] ELSE s[i + 1]]

\* Appended unless the same id is there (an id that is new in the intake transaction).
Add(s, e) == IF e \in Elements(s) THEN s ELSE Append(s, e)

Current(c) == <<c, record[c].revision>>

Idle == [pc |-> "idle", todo |-> <<>>, ignore |-> FALSE, error |-> FALSE, pending |-> 0]

Init ==
    /\ files = [c \in Completions |-> "none"]
    /\ record = [c \in Completions |-> [revision |-> 0, files |-> "none", state |-> "none"]]
    /\ receipts = {}
    /\ outbox = <<>> /\ waiting = {} /\ journal = <<>> /\ lims = {}
    /\ worker = Idle /\ crashes = 0

-----------------------------------------------------------------------------
(* The producers of events.                                                 *)

\* prepare_completion_updates, in the transaction that completes the experiment; a
\* batch that has a record is never recorded again.
Complete(c) ==
    /\ record[c].state = "none"
    /\ record' = [record EXCEPT ![c].state = "pending"]
    /\ files' = [files EXCEPT ![c] = "pending"]
    /\ UNCHANGED <<receipts, outbox, waiting, journal, lims, worker, crashes>>

\* Reports are archived, fail, or are removed.
FilesChange(c) ==
    /\ files[c] # "none" /\ record[c].revision < MaxRevision
    /\ files' = [files EXCEPT ![c] = CHOOSE m \in Manifests : m # files[c]]
    /\ UNCHANGED <<record, receipts, outbox, waiting, journal, lims, worker, crashes>>

\* materialize_completions, called by the worker between two deliveries: records
\* and outbox in one transaction.  One record here: a record whose manifest
\* cannot be built is skipped, and the records do not depend on each other.
Materialize(c) ==
    /\ worker.pc = "idle" /\ record[c].state # "none"
    /\ files[c] # record[c].files /\ record[c].revision < MaxRevision
    /\ record' = [record EXCEPT ![c] = [revision |-> @.revision + 1, files |-> files[c],
                                        state |-> "queued"]]
    /\ outbox' = Append(outbox, <<c, record[c].revision + 1>>)
    /\ UNCHANGED <<files, receipts, waiting, journal, lims, worker, crashes>>

\* Mutated: the receipt is enqueued in a transaction before the decision.
DecideReceiptFirst(r) ==
    /\ r \notin receipts
    /\ IF <<r, 1>> \in Elements(outbox) THEN receipts' = receipts \union {r}
                                        ELSE UNCHANGED receipts
    /\ outbox' = Add(outbox, <<r, 1>>)
    /\ UNCHANGED <<files, record, waiting, journal, lims, worker, crashes>>

\* The decision on an intake and its receipt, in one transaction of an API or
\* RabbitMQ thread.
Decide(r) ==
    /\ r \notin receipts
    /\ receipts' = receipts \union {r}
    /\ outbox' = Add(outbox, <<r, 1>>)
    /\ UNCHANGED <<files, record, waiting, journal, lims, worker, crashes>>

-----------------------------------------------------------------------------
(* deliver_once.                                                            *)

\* The first max events of the outbox as it is now.
Read(ignore, max) ==
    /\ worker' = [pc |-> "next", ignore |-> ignore, error |-> FALSE, pending |-> Len(outbox),
                  todo |-> SubSeq(outbox, 1, IF max < Len(outbox) THEN max ELSE Len(outbox))]
    /\ UNCHANGED <<business, outbox, waiting, journal, lims, crashes>>

Event == Head(worker.todo)
Goto(pc) == worker' = [worker EXCEPT !.pc = pc]
Ready == worker.pc = "next" /\ worker.todo # <<>>

\* Its retry deadline has not come.
Skip ==
    /\ Ready /\ Event \in waiting /\ ~worker.ignore
    /\ worker' = [worker EXCEPT !.todo = Tail(@), !.error = TRUE]
    /\ UNCHANGED <<business, outbox, waiting, journal, lims, crashes>>

Post == Ready /\ (Event \notin waiting \/ worker.ignore)

\* _post: LIMS stores the event and acknowledges its id.
PostAccepted ==
    /\ Post /\ Event \notin Rejected
    /\ lims' = lims \union {Event}
    /\ Goto(IF Journaling THEN "journal" ELSE "mark")
    /\ UNCHANGED <<business, outbox, waiting, journal, crashes>>

\* LIMS acknowledges an event it then fails to store.
PostMissed ==
    /\ Post /\ "missed" \in Faults /\ Event \notin Rejected
    /\ Goto(IF Journaling THEN "journal" ELSE "mark")
    /\ UNCHANGED <<business, outbox, waiting, journal, lims, crashes>>

PostFailed ==
    /\ Post /\ ("http_failure" \in Faults \/ Event \in Rejected)
    /\ Goto("failed")
    /\ UNCHANGED <<business, outbox, waiting, journal, lims, crashes>>

\* LIMS stores the event and its acknowledgement is lost.
PostUnacknowledged ==
    /\ Post /\ "lost_ack" \in Faults /\ Event \notin Rejected
    /\ lims' = lims \union {Event}
    /\ Goto("failed")
    /\ UNCHANGED <<business, outbox, waiting, journal, crashes>>

\* Mutated: a failed event is removed as a delivered one is.
DeferByRemoving ==
    /\ worker.pc = "failed"
    /\ outbox' = Without(outbox, Event)
    /\ worker' = [worker EXCEPT !.todo = Tail(@), !.error = TRUE,
                                !.pc = IF Journaling THEN "returned" ELSE "next"]
    /\ UNCHANGED <<business, waiting, journal, lims, crashes>>

\* _finish with an error: a new deadline; with the guard enabled the delivery
\* stops here.
Defer ==
    /\ worker.pc = "failed"
    /\ waiting' = waiting \union ({Event} \intersect Elements(outbox))
    /\ worker' = [worker EXCEPT !.todo = Tail(@), !.error = TRUE,
                                !.pc = IF Journaling THEN "returned" ELSE "next"]
    /\ UNCHANGED <<business, outbox, journal, lims, crashes>>

\* repository.record(SENT_KEY, ...).
Journal ==
    /\ worker.pc = "journal"
    /\ journal' = Add(journal, Event)
    /\ Goto("mark")
    /\ UNCHANGED <<business, outbox, waiting, lims, crashes>>

\* Mutated: the record of the completion is marked whichever revision was sent.
MarkAnyRevision ==
    /\ worker.pc = "mark"
    /\ record' = [c \in Completions |->
                     IF c = Event[1] THEN [record[c] EXCEPT !.state = "delivered"] ELSE record[c]]
    /\ Goto("finish")
    /\ UNCHANGED <<files, receipts, outbox, waiting, journal, lims, crashes>>

\* _record_completion_delivery: only the record whose event_id this is.
Mark ==
    /\ worker.pc = "mark"
    /\ record' = [c \in Completions |->
                     IF Current(c) = Event THEN [record[c] EXCEPT !.state = "delivered"]
                     ELSE record[c]]
    /\ Goto("finish")
    /\ UNCHANGED <<files, receipts, outbox, waiting, journal, lims, crashes>>

\* Mutated: what is written back is what was read when the delivery started.
FinishStale ==
    /\ worker.pc = "finish"
    /\ outbox' = Tail(worker.todo)
    /\ waiting' = waiting \ {Event}
    /\ worker' = [worker EXCEPT !.pc = "next", !.todo = Tail(@), !.pending = @ - 1]
    /\ UNCHANGED <<business, journal, lims, crashes>>

\* _finish without an error.
Finish ==
    /\ worker.pc = "finish"
    /\ outbox' = Without(outbox, Event)
    /\ waiting' = waiting \ {Event}
    /\ worker' = [worker EXCEPT !.pc = "next", !.todo = Tail(@), !.pending = @ - 1]
    /\ UNCHANGED <<business, journal, lims, crashes>>

Return ==
    /\ worker.pc = "next" /\ worker.todo = <<>>
    /\ Goto("returned")
    /\ UNCHANGED <<business, outbox, waiting, journal, lims, crashes>>

DeadlinePasses(e) ==
    /\ e \in waiting
    /\ waiting' = waiting \ {e}
    /\ UNCHANGED <<business, outbox, journal, lims, worker, crashes>>

-----------------------------------------------------------------------------
(* _run without the communication guard: deliver_once every second.         *)

StartDelivery == worker.pc = "idle" /\ Read(FALSE, Len(outbox))

Sleep ==
    /\ worker.pc = "returned"
    /\ worker' = Idle
    /\ UNCHANGED <<business, outbox, waiting, journal, lims, crashes>>

Crash ==
    /\ crashes < MaxCrashes /\ worker # Idle
    /\ crashes' = crashes + 1
    /\ worker' = Idle
    /\ UNCHANGED <<business, outbox, waiting, journal, lims>>

Produce ==
    \/ \E c \in Completions : Complete(c) \/ FilesChange(c) \/ Materialize(c)
    \/ \E r \in Receipts : Decide(r)

Deliver ==
    \/ Skip \/ PostAccepted \/ PostFailed \/ PostUnacknowledged
    \/ Defer \/ Mark \/ Finish \/ Return

\* With the communication guard, whose tick calls deliver_once (LimsCommunication).
DeliverGuarded == Deliver \/ PostMissed \/ Journal

Next ==
    \/ Produce \/ Deliver
    \/ \E e \in Events : DeadlinePasses(e)
    \/ StartDelivery \/ Sleep \/ Crash

Spec == Init /\ [][Next]_vars

\* The worker and the clock run; LIMS stores and acknowledges an event that is
\* posted again and again.
Fairness ==
    /\ \A c \in Completions : WF_vars(Materialize(c))
    /\ WF_vars(Deliver) /\ WF_vars(StartDelivery) /\ WF_vars(Sleep)
    /\ \A e \in Events :
          /\ WF_vars(DeadlinePasses(e))
          /\ SF_vars(PostAccepted /\ Event = e)

FairSpec == Spec /\ Fairness

-----------------------------------------------------------------------------
(* Properties                                                               *)

\* Every variable keeps its type.
TypeOK ==
    /\ files \in [Completions -> Manifests \union {"none"}]
    /\ record \in [Completions -> [revision: 0..MaxRevision, files: Manifests \union {"none"},
                                   state: {"none", "pending", "queued", "delivered"}]]
    /\ receipts \subseteq Receipts
    /\ outbox \in Seq(Events) /\ waiting \subseteq Events
    /\ journal \in Seq(Events) /\ lims \subseteq Events
    /\ worker \in [pc: {"idle", "next", "journal", "mark", "finish", "failed", "returned"},
                   todo: Seq(Events), ignore: BOOLEAN, error: BOOLEAN, pending: Int]
    /\ crashes \in 0..MaxCrashes

\* The events of committed transactions.
Committed ==
    {e \in Events : e[1] \in receipts
                    \/ (e[1] \in Completions /\ e[2] <= record[e[1]].revision)}

\* What vouches for an event that left the outbox: the journal, which LIMS is
\* reconciled with, or LIMS itself.
Kept == IF Journaling THEN Elements(journal) ELSE lims

\* A committed event stays in the outbox until it is delivered, whatever is
\* appended while the worker holds its copy of the outbox and wherever it dies.
NothingLost == Committed \subseteq Elements(outbox) \union Kept

\* The state of a completion record is about its latest revision: "queued" while
\* that one is in the outbox, "delivered" only when LIMS acknowledged that one,
\* though older revisions may be acknowledged after it was queued.
RecordIsTruthful ==
    \A c \in Completions :
        /\ record[c].state = "queued" => Current(c) \in Elements(outbox)
        /\ record[c].state = "delivered" => Current(c) \in Kept

\* The delivery as an implementation of LimsRelay, for the events that LIMS does not
\* reject for good.
Relay == INSTANCE LimsRelay WITH Events <- Events \ Rejected,
                                 committed <- Committed \ Rejected, stored <- lims

\* Safety: LIMS stores an event only after MES has committed it, and keeps it.
RelayRefinement == Relay!Spec

\* Liveness: every committed event is stored by LIMS in the end, behind events that
\* fail or are rejected, and after crashes.
EventuallyStored == Relay!FairSpec
=============================================================================
