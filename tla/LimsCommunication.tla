-------------------------- MODULE LimsCommunication --------------------------
(***************************************************************************)
(* The LIMS communication guard (LimsCommunicationRuntime) over the outbox *)
(* of LimsOutbox: every second the worker runs tick, which probes both     *)
(* directions when a check is due, reconciles the journal of sent events   *)
(* with LIMS in batches, replays what LIMS misses, delivers the outbox and *)
(* keeps the phase, the retry count and the alarm.                         *)
(*                                                                         *)
(* The LIMS -> MES direction of a reconciliation is its outcome: nothing,  *)
(* a gap that is replayed, or more to compare.                             *)
(***************************************************************************)
EXTENDS LimsOutbox

CONSTANTS
    BatchSize,   \* BATCH_SIZE, also max_events of a delivery
    Commands     \* the commands operators give: "acknowledge", "check"

ASSUME BatchSizeAssumption == BatchSize \in Nat \ {0}
ASSUME CommandsAssumption == Commands \subseteq {"acknowledge", "check"}
ASSUME GuardAssumption == Journaling = TRUE

VARIABLES
    comm,      \* lims.communication.state
    due,       \* clock() >= next_check_at of the saved state
    control,   \* lims.communication.control: commands of operators
    round,     \* tick: where it is, its copy of the state, the manifest it compares
    attempts   \* history: probes sent since the fault was recorded

guard    == <<comm, due, control, round, attempts>>
commVars == <<vars, guard>>

MaxRetries == 3   \* bound: retry_count and attempts saturate
Increment(n) == IF n < MaxRetries THEN n + 1 ELSE n

NoRound(s) == [pc |-> "idle", s |-> s, snap |-> 0, size |-> 0, missing |-> {},
               outGap |-> FALSE, inGap |-> FALSE, more |-> FALSE]

\* initial_state().
InitialState == [phase |-> "unknown", retry |-> 0, alarm |-> "none", fault |-> FALSE,
                 ack |-> FALSE, out |-> 0]

CommInit ==
    /\ Init
    /\ comm = InitialState
    /\ due = TRUE
    /\ control = {}
    /\ round = NoRound(InitialState)
    /\ attempts = 0

-----------------------------------------------------------------------------
\* Mutated: the alarm is critical only while the link is down.
FailByPhase(s, phase) ==
    LET t == IF s.fault THEN s
             ELSE [s EXCEPT !.fault = TRUE, !.retry = 0, !.ack = FALSE, !.out = 0]
    IN  [t EXCEPT !.phase = phase,
                  !.alarm = IF t.retry >= 3 /\ phase = "offline" THEN "critical" ELSE "warning"]

\* _fail, and the phase tick gives a failed check.
Fail(s, phase) ==
    LET t == IF s.fault THEN s
             ELSE [s EXCEPT !.fault = TRUE, !.retry = 0, !.ack = FALSE, !.out = 0]
    IN  [t EXCEPT !.phase = phase, !.alarm = IF t.retry >= 3 THEN "critical" ELSE "warning"]

\* save_state at the end of a check.
Save(s) ==
    /\ comm' = s /\ due' = FALSE
    /\ round' = NoRound(s) /\ worker' = Idle
    /\ UNCHANGED control

\* A check that fails: a retry of the active fault, or the start of a fault.
FailCheck(phase) ==
    /\ Save(Fail(round.s, phase))
    /\ attempts' = IF round.s.fault THEN attempts ELSE 0

-----------------------------------------------------------------------------
(* tick.                                                                    *)

\* The state and the commands, which are taken.
Taken == [comm EXCEPT !.ack = @ \/ ("acknowledge" \in control /\ comm.alarm # "none")]
CheckDue == due \/ ("check" \in control /\ comm.phase = "online")

Awake == worker.pc = "idle" /\ round.pc = "idle"

BeginCheck ==
    /\ Awake /\ CheckDue
    /\ control' = {}
    /\ round' = [NoRound([Taken EXCEPT !.phase = "checking",
                                       !.retry = IF comm.fault THEN Increment(@) ELSE @])
                    EXCEPT !.pc = "reserve"]
    /\ UNCHANGED <<vars, comm, due, attempts>>

\* Between two checks the outbox is delivered while the phase is online.
BeginDelivery ==
    /\ Awake /\ ~CheckDue /\ comm.phase = "online"
    /\ control' = {}
    /\ Read(FALSE, BatchSize)
    /\ round' = [NoRound(Taken) EXCEPT !.pc = "quick"]
    /\ UNCHANGED <<comm, due, attempts>>

\* Otherwise only an acknowledgement is saved.
Wait ==
    /\ Awake /\ ~CheckDue /\ comm.phase # "online"
    /\ control # {}
    /\ control' = {}
    /\ comm' = Taken
    /\ round' = NoRound(Taken)
    /\ UNCHANGED <<vars, due, attempts>>

\* Mutated: the attempt is not saved before the I/O.
ReserveNothing ==
    /\ round.pc = "reserve"
    /\ due' = FALSE
    /\ round' = [round EXCEPT !.pc = "probe"]
    /\ UNCHANGED <<vars, comm, control, attempts>>

\* The attempt is saved before any I/O.
Reserve ==
    /\ round.pc = "reserve"
    /\ comm' = round.s /\ due' = FALSE
    /\ round' = [round EXCEPT !.pc = "probe"]
    /\ UNCHANGED <<vars, control, attempts>>

\* _probe: the HTTP answer and the probe LIMS returns over RabbitMQ.
Probe ==
    /\ round.pc = "probe"
    /\ attempts' = IF round.s.fault THEN Increment(attempts) ELSE 0
    /\ round' = [round EXCEPT !.pc = "reconcile"]
    /\ UNCHANGED <<vars, comm, due, control>>

ProbeFailed ==
    /\ round.pc = "probe" /\ "link_failure" \in Faults
    /\ Save(Fail(round.s, "offline"))
    /\ attempts' = IF round.s.fault THEN Increment(attempts) ELSE 0
    /\ UNCHANGED <<business, outbox, waiting, journal, lims, crashes>>

\* /reconcile: the journal as it is now, from the cursor; LIMS answers for each row.
Reconcile ==
    /\ round.pc = "reconcile"
    /\ LET last  == round.s.out + BatchSize
           batch == SubSeq(journal, round.s.out + 1,
                           IF last < Len(journal) THEN last ELSE Len(journal))
       IN \E inGap, more \in BOOLEAN :
             /\ inGap \/ more => "in_gap" \in Faults
             /\ round' = [round EXCEPT !.pc = "replay", !.snap = Len(journal), !.size = Len(batch),
                                       !.missing = Elements(batch) \ lims,
                                       !.outGap = ~(Elements(batch) \subseteq lims),
                                       !.inGap = inGap, !.more = more]
    /\ UNCHANGED <<vars, comm, due, control, attempts>>

\* Mutated: the missing rows are reported and not enqueued.
ReplayNothing(e) ==
    /\ round.pc = "replay" /\ e \in round.missing
    /\ round' = [round EXCEPT !.missing = @ \ {e}]
    /\ UNCHANGED <<vars, comm, due, control, attempts>>

\* enqueue_lims_event, a transaction for each missing row.
Replay(e) ==
    /\ round.pc = "replay" /\ e \in round.missing
    /\ outbox' = Add(outbox, e)
    /\ round' = [round EXCEPT !.missing = @ \ {e}]
    /\ UNCHANGED <<business, waiting, journal, lims, worker, crashes>>
    /\ UNCHANGED <<comm, due, control, attempts>>

\* Mutated: the cursor passes rows that LIMS misses.
ResumePastGap ==
    /\ round.pc = "replay" /\ round.missing = {}
    /\ Read(TRUE, BatchSize)
    /\ round' = [round EXCEPT !.pc = "deliver", !.s.out = @ + round.size]
    /\ UNCHANGED <<comm, due, control, attempts>>

\* /resume, the cursor moves when LIMS has the whole batch, and a delivery that
\* ignores the retry deadlines.
Resume ==
    /\ round.pc = "replay" /\ round.missing = {}
    /\ Read(TRUE, BatchSize)
    /\ round' = [round EXCEPT !.pc = "deliver",
                              !.s.out = IF round.outGap THEN @ ELSE @ + round.size]
    /\ UNCHANGED <<comm, due, control, attempts>>

\* A request of the reconciliation fails, LIMS answers with a conflict, or the
\* database fails inside the delivery; the cursor may have moved by then.
ReconcileFailed ==
    /\ round.pc \in {"reconcile", "replay", "deliver"} /\ "link_failure" \in Faults
    /\ FailCheck("syncing")
    /\ UNCHANGED <<business, outbox, waiting, journal, lims, crashes>>

\* max_duration_seconds.
StopEarly ==
    /\ worker.pc = "next" /\ worker.todo # <<>>
    /\ Goto("returned")
    /\ UNCHANGED <<business, outbox, waiting, journal, lims, crashes, guard>>

\* The delivery between two checks is over; a failure or a deadline that has not
\* come starts a fault.
EndDelivery ==
    /\ round.pc = "quick" /\ worker.pc = "returned"
    /\ LET s == IF worker.error THEN Fail(round.s, "offline") ELSE round.s IN
       /\ comm' = s /\ round' = NoRound(s)
    /\ due' = (due /\ ~worker.error)
    /\ worker' = Idle
    /\ attempts' = (IF worker.error THEN 0 ELSE attempts)
    /\ UNCHANGED <<business, outbox, waiting, journal, lims, crashes, control>>

CheckDelivered == round.pc = "deliver" /\ worker.pc = "returned"

\* "HTTP business delivery failed".
DeliveryFailed ==
    /\ CheckDelivered /\ worker.error
    /\ FailCheck("offline")
    /\ UNCHANGED <<business, outbox, waiting, journal, lims, crashes>>

Differences == round.outGap \/ round.inGap

\* Mutated: off by one.
AllComparedStrictly ==
    /\ ~Differences /\ worker.pending = 0
    /\ round.s.out > round.snap /\ ~round.more

\* What _reconcile returns.
AllCompared ==
    /\ ~Differences /\ worker.pending = 0
    /\ round.s.out >= round.snap /\ ~round.more

\* Mutated: the fault stays recorded.
OnlineKeepingFault ==
    /\ CheckDelivered /\ ~worker.error /\ AllCompared
    /\ Save([round.s EXCEPT !.phase = "online", !.retry = 0, !.alarm = "none",
                            !.ack = FALSE, !.out = 0])
    /\ attempts' = 0
    /\ UNCHANGED <<business, outbox, waiting, journal, lims, crashes>>

\* A complete check: online, no fault, and the next one compares from the start.
Online ==
    /\ CheckDelivered /\ ~worker.error /\ AllCompared
    /\ Save([phase |-> "online", retry |-> 0, alarm |-> "none", fault |-> FALSE,
             ack |-> FALSE, out |-> 0])
    /\ attempts' = 0
    /\ UNCHANGED <<business, outbox, waiting, journal, lims, crashes>>

\* Not complete, with a difference or a backlog: a failed check.
SyncingWithGap ==
    /\ CheckDelivered /\ ~worker.error /\ ~AllCompared
    /\ Differences \/ worker.pending > 0
    /\ FailCheck("syncing")
    /\ UNCHANGED <<business, outbox, waiting, journal, lims, crashes>>

\* Not complete, and only more batches to compare.
SyncingMore ==
    /\ CheckDelivered /\ ~worker.error /\ ~AllCompared
    /\ ~Differences /\ worker.pending = 0
    /\ Save([round.s EXCEPT !.phase = "syncing"])
    /\ UNCHANGED <<business, outbox, waiting, journal, lims, crashes, attempts>>

-----------------------------------------------------------------------------
\* A command of an operator, taken by the next tick.
Command(action) ==
    /\ action \notin control
    /\ control' = control \union {action}
    /\ UNCHANGED <<vars, comm, due, round, attempts>>

DeadlineComes ==
    /\ ~due
    /\ due' = TRUE
    /\ UNCHANGED <<vars, comm, control, round, attempts>>

\* The process dies, or a database error outside the check unwinds tick without
\* saving the state.
CommCrash ==
    /\ crashes < MaxCrashes /\ round.pc # "idle"
    /\ crashes' = crashes + 1
    /\ worker' = Idle /\ round' = NoRound(comm)
    /\ UNCHANGED <<business, outbox, waiting, journal, lims>>
    /\ UNCHANGED <<comm, due, control, attempts>>

Tick ==
    \/ BeginCheck \/ BeginDelivery \/ Wait \/ Reserve \/ Probe \/ ProbeFailed
    \/ Reconcile \/ \E e \in Events : Replay(e)
    \/ Resume \/ ReconcileFailed \/ StopEarly
    \/ EndDelivery \/ DeliveryFailed \/ Online \/ SyncingWithGap \/ SyncingMore

\* The outbox: its producers, and deliver_once inside a tick.  The worker does not
\* materialize completions while tick runs.
OutboxStep ==
    /\ \/ \E c \in Completions : Complete(c) \/ FilesChange(c)
                                \/ (round.pc = "idle" /\ Materialize(c))
       \/ \E r \in Receipts : Decide(r)
       \/ DeliverGuarded
       \/ \E e \in Events : DeadlinePasses(e)
    /\ UNCHANGED guard

CommNext ==
    \/ OutboxStep \/ Tick
    \/ \E action \in Commands : Command(action)
    \/ DeadlineComes \/ CommCrash

CommSpec == CommInit /\ [][CommNext]_commVars

\* The worker runs, the clock runs, and what LIMS is asked again and again is
\* answered in the end.
CommFairness ==
    /\ \A c \in Completions : WF_commVars(round.pc = "idle" /\ Materialize(c) /\ UNCHANGED guard)
    /\ WF_commVars((DeliverGuarded /\ UNCHANGED guard) \/ Tick)
    /\ WF_commVars(DeadlineComes)
    /\ SF_commVars(Probe) /\ SF_commVars(Reconcile) /\ SF_commVars(Resume)
    /\ \A e \in Events : SF_commVars(PostAccepted /\ Event = e /\ UNCHANGED guard)

CommFairSpec == CommSpec /\ CommFairness

-----------------------------------------------------------------------------
(* Properties                                                               *)

Phases == {"unknown", "checking", "offline", "syncing", "online"}
States == [phase: Phases, retry: 0..MaxRetries, alarm: {"none", "warning", "critical"},
           fault: BOOLEAN, ack: BOOLEAN, out: Nat]

\* Every variable keeps its type.
CommTypeOK ==
    /\ TypeOK
    /\ comm \in States /\ due \in BOOLEAN
    /\ control \subseteq Commands
    /\ round \in [pc: {"idle", "reserve", "probe", "reconcile", "replay", "deliver", "quick"},
                  s: States, snap: Nat, size: Nat, missing: SUBSET Events,
                  outGap: BOOLEAN, inGap: BOOLEAN, more: BOOLEAN]
    /\ attempts \in 0..MaxRetries

\* "Online" is never shown over a gap: when a check ends online, LIMS has every
\* event that was in the journal when the check compared it, though the journal
\* was compared in batches over several checks, with deliveries, faults and
\* crashes between them.
OnlineMeansReconciled ==
    [][comm.phase # "online" /\ comm'.phase = "online"
          => \A i \in 1..round.snap : journal[i] \in lims]_commVars

\* A critical alarm stays, acknowledged or not, through crashes, probes and partial
\* syncs, until a complete check.
CriticalUntilOnline ==
    [][comm.alarm = "critical" => comm'.alarm = "critical" \/ comm'.phase = "online"]_commVars

\* A restart does not reset the retry count: every probe sent since the fault was
\* recorded is counted, also one whose check a crash cut off.
AttemptsAreCounted == comm.fault => attempts <= comm.retry

\* The alarm is about the active fault, and "online" leaves nothing of a past one.
AlarmMatchesFault ==
    /\ comm.alarm # "none" <=> comm.fault
    /\ comm.alarm = "critical" => comm.retry >= 3
    /\ comm.phase = "online" => ~comm.fault /\ comm.out = 0

\* The link and the data recover: after faults the guard shows "online" again.
EventuallyOnline == []<>(comm.phase = "online")
=============================================================================
