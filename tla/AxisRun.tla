------------------------------- MODULE AxisRun -------------------------------
(***************************************************************************)
(* One laboratory run of a multi-axis experiment (impact, vibration): the  *)
(* axis steps MES keeps, the MQTT subscriber that applies the events of    *)
(* the upper computer ("host"), and the HTTP handlers of the READY button. *)
(*                                                                         *)
(* The run's axes are 1..N in the order sort_axis_codes gives them.  An    *)
(* experiment without axes is the case N = 1.  The trays of the run move   *)
(* together and are one state.                                             *)
(***************************************************************************)
EXTENDS Integers, FiniteSets

CONSTANTS
    N,           \* number of axes of the run
    Operators,   \* concurrent POST /mq/laboratory/ready requests
    Settings     \* the environments: whether the host sends a message_id ("payload")
                 \* or MES makes one ("generated"), and which faults happen

ASSUME NAssumption == N \in Nat \ {0}
ASSUME SettingsAssumption ==
    Settings \subseteq
        [ids : {"payload", "generated"},
         faults : SUBSET {"redelivery", "loss", "crash", "publish_failure", "publish_timeout"}]

VARIABLES
    run,        \* biz_experiment_run.run_status: "none" before the run exists
    step,       \* biz_experiment_run_step.status of each axis
    tray,       \* status of the run's trays
    lastBatch,  \* TRUE: the axes of the other runs of this experiment are completed
    notified,   \* a completion intent for LIMS was recorded
    logged,     \* keys in biz_mq_message_log that can still match a new message
    handler,    \* the MQTT subscriber thread, inside process_laboratory_event
    request,    \* the READY requests being served
    toHost,     \* axes for which a READY command reached the broker
    hostAxis,   \* the axis the host is running, 0 when idle
    hostDone,   \* axes the host has physically finished
    toMes,      \* events the host has sent
    received,   \* events delivered to MES at least once, or lost
    setting     \* constant: the environment

mes     == <<run, step, tray, lastBatch, notified>>
host    == <<hostAxis, hostDone, toMes>>
vars    == <<mes, logged, handler, request, toHost, host, received>>

MessageIds == setting.ids
Faults     == setting.faults

Axes == 1..N

StepStatus == {"pending", "running", "adjusting", "waiting_start", "completed"}
TrayStatus == {"ready", "running", "axis_partial", "completed", "moved_on"}

Started(a) == [type |-> "EXPERIMENT_STARTED", axis |-> a]
Ended(a)   == [type |-> "EXPERIMENT_ENDED", axis |-> a]
Events     == [type: {"EXPERIMENT_STARTED", "EXPERIMENT_ENDED"}, axis: Axes]

\* first_text(payload, "message_id") or generated_message_id(type, lab, second):
\* within one second a generated id only tells event types apart.
Key(e) == IF MessageIds = "payload" THEN e ELSE [type |-> e.type, axis |-> 0]
Keys   == [type: {"EXPERIMENT_STARTED", "EXPERIMENT_ENDED"}, axis: 0..N]

\* The order in which the host sends its events, which the broker keeps for
\* their first delivery.
SentBefore(d, e) ==
    \/ d.axis < e.axis
    \/ d.axis = e.axis /\ d.type = "EXPERIMENT_STARTED" /\ e.type = "EXPERIMENT_ENDED"

-----------------------------------------------------------------------------
Idle       == [phase |-> "idle", event |-> Started(1)]
NoRequest  == [phase |-> "idle", axis |-> 1]

Init ==
    /\ run = "none"
    /\ step = [a \in Axes |-> "pending"]
    /\ tray = "ready"
    /\ lastBatch \in BOOLEAN
    /\ notified = FALSE
    /\ logged = {}
    /\ handler = Idle
    /\ request = [o \in Operators |-> NoRequest]
    /\ toHost = {}
    /\ hostAxis = 0
    /\ hostDone = {}
    /\ toMes = {}
    /\ received = {}
    /\ setting \in Settings

-----------------------------------------------------------------------------
(* The host: it starts an axis it was told is ready, one at a time, never   *)
(* one it has finished, and reports the start and the end of each.          *)

HostStart(a) ==
    /\ a \in toHost /\ a \notin hostDone /\ hostAxis = 0
    /\ hostAxis' = a
    /\ toMes' = toMes \union {Started(a)}
    /\ UNCHANGED <<mes, logged, handler, request, toHost, hostDone, received>>

HostEnd ==
    /\ hostAxis # 0
    /\ hostDone' = hostDone \union {hostAxis}
    /\ toMes' = toMes \union {Ended(hostAxis)}
    /\ hostAxis' = 0
    /\ UNCHANGED <<mes, logged, handler, request, toHost, received>>

-----------------------------------------------------------------------------
(* The state changes of laboratory_start, laboratory_axis_steps and         *)
(* laboratory_completion.  Each runs under the laboratory commit lock in    *)
(* one transaction.                                                         *)

\* start_run_for_context: a new run, its first axis running, the others pending.
StartRun ==
    /\ run' = "running"
    /\ step' = [a \in Axes |-> IF a = 1 THEN "running" ELSE "pending"]
    /\ tray' = "running"
    /\ UNCHANGED <<lastBatch, notified>>

\* Mutated forms of the next two definitions: every later axis is adjusted; the
\* later axis is adjusted even when it is completed; the axis in turn is
\* completed, not the one the event names; no axis is adjusted.
IsAnyLater(a, b) == b > a /\ step[b] # "completed"
IsSuccessor(a, b) == b = a + 1
StepsAfterEndOfCurrent(a) ==
    LET turn == {b \in Axes : step[b] # "completed" /\ \A c \in Axes : c < b => step[c] = "completed"}
    IN  [b \in Axes |-> IF b \in turn THEN "completed"
                        ELSE IF b - 1 \in turn THEN "adjusting" ELSE step[b]]
StepsAfterEndOnly(a) == [step EXCEPT ![a] = "completed"]

\* The axis to adjust next: the first later one that is not completed.
IsNext(a, b) ==
    /\ b > a /\ step[b] # "completed"
    /\ \A c \in Axes : c > a /\ c < b => step[c] = "completed"

\* complete_storage_laboratory_axis_step: the axis is completed whatever its
\* status was, and the next one is set to adjusting whatever its status was.
StepsAfterEnd(a) ==
    [b \in Axes |-> IF b = a THEN "completed"
                    ELSE IF IsNext(a, b) THEN "adjusting" ELSE step[b]]

\* Mutated: whether all axes are completed is read from the old steps.
CompleteAxisStale(a) ==
    /\ step' = StepsAfterEnd(a)
    /\ IF \A b \in Axes : step[b] = "completed"
       THEN /\ run' = "completed"
            /\ tray' = IF lastBatch THEN "completed" ELSE "axis_partial"
            /\ notified' = (notified \/ lastBatch)
       ELSE UNCHANGED <<run, tray, notified>>
    /\ UNCHANGED lastBatch

CompleteAxis(a) ==
    /\ step' = StepsAfterEnd(a)
    /\ IF \A b \in Axes : step'[b] = "completed"
       THEN /\ run' = "completed"
            /\ tray' = IF lastBatch THEN "completed" ELSE "axis_partial"
            /\ notified' = (notified \/ lastBatch)
       ELSE UNCHANGED <<run, tray, notified>>
    /\ UNCHANGED lastBatch

\* Mutated: the expected statuses are not checked.
TransitionUnchecked(a, from, to) ==
    /\ step' = [step EXCEPT ![a] = to]
    /\ UNCHANGED <<run, tray, lastBatch, notified>>

\* _transition_storage_laboratory_axis_step: a target already reached is kept.
Transition(a, from, to) ==
    /\ step[a] \in {from, to}
    /\ step' = [step EXCEPT ![a] = to]
    /\ UNCHANGED <<run, tray, lastBatch, notified>>

-----------------------------------------------------------------------------
(* process_laboratory_event, in the single thread of the MQTT client.       *)

Handle(phase, e) == handler' = [phase |-> phase, event |-> e]

Deliver(e) ==
    /\ handler.phase = "idle" /\ e \in toMes
    /\ \/ e \in received /\ "redelivery" \in Faults
       \/ e \notin received /\ \A d \in toMes : SentBefore(d, e) => d \in received
    /\ received' = received \union {e}
    /\ UNCHANGED <<mes, logged, request, toHost, host>>

\* A message whose id is in the log is answered DUPLICATE.
Duplicate(e) == Deliver(e) /\ Key(e) \in logged /\ UNCHANGED handler

\* EXPERIMENT_STARTED of the first axis: a ready context and no run yet.
ReceiveFirstStart(e) ==
    /\ Deliver(e) /\ Key(e) \notin logged
    /\ e.type = "EXPERIMENT_STARTED" /\ run = "none" /\ tray = "ready"
    /\ Handle("start_run", e)

\* EXPERIMENT_STARTED of an axis of an existing run: logged before it is applied.
ReceiveAxisStart(e) ==
    /\ Deliver(e) /\ Key(e) \notin logged
    /\ e.type = "EXPERIMENT_STARTED" /\ run # "none"
    /\ Handle("log_start", e)

\* EXPERIMENT_ENDED of an existing run: applied before it is logged.
ReceiveEnd(e) ==
    /\ Deliver(e) /\ Key(e) \notin logged
    /\ e.type = "EXPERIMENT_ENDED" /\ run # "none"
    /\ Handle("complete_axis", e)

\* "active experiment run is required": on_message logs the exception and the
\* event is gone.
RefuseEnd(e) ==
    /\ Deliver(e) /\ Key(e) \notin logged
    /\ e.type = "EXPERIMENT_ENDED" /\ run = "none"
    /\ UNCHANGED handler

ApplyStartRun ==
    /\ handler.phase = "start_run"
    /\ StartRun
    /\ Handle("log", handler.event)
    /\ UNCHANGED <<logged, request, toHost, host, received>>

ApplyCompleteAxis ==
    /\ handler.phase = "complete_axis"
    /\ CompleteAxis(handler.event.axis)
    /\ Handle("log", handler.event)
    /\ UNCHANGED <<logged, request, toHost, host, received>>

\* Mutated: the message is processed and not recorded.
LogNothing ==
    /\ handler.phase \in {"log", "log_start"}
    /\ handler' = IF handler.phase = "log" THEN Idle
                  ELSE [handler EXCEPT !.phase = "start_axis"]
    /\ UNCHANGED <<mes, logged, request, toHost, host, received>>

\* record_message and record_event.
Log ==
    /\ handler.phase \in {"log", "log_start"}
    /\ logged' = logged \union {Key(handler.event)}
    /\ handler' = IF handler.phase = "log" THEN Idle
                  ELSE [handler EXCEPT !.phase = "start_axis"]
    /\ UNCHANGED <<mes, request, toHost, host, received>>

ApplyAxisStart ==
    /\ handler.phase = "start_axis"
    /\ \/ Transition(handler.event.axis, "waiting_start", "running")
       \/ step[handler.event.axis] \notin {"waiting_start", "running"} /\ UNCHANGED mes
    /\ handler' = Idle
    /\ UNCHANGED <<logged, request, toHost, host, received>>

\* The clock of now_iso() moves to the next second: generated ids are new.
NextSecond ==
    /\ MessageIds = "generated" /\ handler.phase = "idle" /\ logged # {}
    /\ logged' = {}
    /\ UNCHANGED <<mes, handler, request, toHost, host, received>>

\* A message published while the clean-session subscriber is away.
Lose(e) ==
    /\ "loss" \in Faults /\ e \in toMes \ received
    /\ received' = received \union {e}
    /\ UNCHANGED <<mes, logged, handler, request, toHost, host>>

-----------------------------------------------------------------------------
(* POST /mq/laboratory/ready.                                               *)

\* The first READY of a run: no axis state, nothing to restore.
PublishFirstReady ==
    /\ run = "none" /\ tray = "ready"
    /\ 1 \notin toHost
    /\ toHost' = toHost \union {1}
    /\ UNCHANGED <<mes, logged, handler, request, host, received>>

Serve(o, phase, a) == request' = [request EXCEPT ![o] = [phase |-> phase, axis |-> a]]

\* axis_adjustment_ready: the axis waits for the host before READY is sent.
MarkReady(o, a) ==
    /\ request[o].phase = "idle" /\ run # "none"
    /\ Transition(a, "adjusting", "waiting_start")
    /\ Serve(o, "publish", a)
    /\ UNCHANGED <<logged, handler, toHost, host, received>>

PublishReady(o) ==
    /\ request[o].phase = "publish"
    /\ toHost' = toHost \union {request[o].axis}
    /\ request' = [request EXCEPT ![o] = NoRequest]
    /\ UNCHANGED <<mes, logged, handler, host, received>>

\* RuntimeError, a non-zero return code, or no PUBACK in time; in the last case
\* the broker may have the command all the same.
PublishNotConfirmed(o) ==
    /\ request[o].phase = "publish"
    /\ \/ "publish_failure" \in Faults /\ UNCHANGED toHost
       \/ "publish_timeout" \in Faults /\ toHost' = toHost \union {request[o].axis}
    /\ Serve(o, "restore", request[o].axis)
    /\ UNCHANGED <<mes, logged, handler, host, received>>

\* Mutated: the handler returns without restoring the axis.
RestoreNothing(o) ==
    /\ request[o].phase = "restore"
    /\ request' = [request EXCEPT ![o] = NoRequest]
    /\ UNCHANGED <<mes, logged, handler, toHost, host, received>>

RestoreAdjustment(o) ==
    /\ request[o].phase = "restore"
    /\ LET a == request[o].axis IN
       \/ Transition(a, "waiting_start", "adjusting")
       \/ step[a] \notin {"waiting_start", "adjusting"} /\ UNCHANGED mes
    /\ request' = [request EXCEPT ![o] = NoRequest]
    /\ UNCHANGED <<logged, handler, toHost, host, received>>

-----------------------------------------------------------------------------
\* The trays leave the laboratory: staging, inspection or the next experiment.
MoveOn ==
    /\ tray \in {"axis_partial", "completed"}
    /\ tray' = "moved_on"
    /\ UNCHANGED <<run, step, lastBatch, notified, logged, handler, request, toHost, host, received>>

\* The API process dies: what its threads were doing is gone, the database stays.
Crash ==
    /\ "crash" \in Faults
    /\ handler # Idle \/ \E o \in Operators : request[o] # NoRequest
    /\ handler' = Idle
    /\ request' = [o \in Operators |-> NoRequest]
    /\ UNCHANGED <<mes, logged, toHost, host, received>>

Receive(e) ==
    \/ Duplicate(e) \/ ReceiveFirstStart(e) \/ ReceiveAxisStart(e)
    \/ ReceiveEnd(e) \/ RefuseEnd(e)

Subscriber ==
    \/ ApplyStartRun \/ ApplyCompleteAxis \/ Log \/ ApplyAxisStart

Next ==
    \/ \E a \in Axes : HostStart(a)
    \/ HostEnd
    \/ \E e \in toMes : Receive(e) \/ Lose(e)
    \/ Subscriber
    \/ NextSecond
    \/ PublishFirstReady
    \/ \E o \in Operators : \/ \E a \in Axes : MarkReady(o, a)
                            \/ PublishReady(o)
                            \/ PublishNotConfirmed(o)
                            \/ RestoreAdjustment(o)
    \/ MoveOn
    \/ Crash

Spec == Init /\ [][Next /\ UNCHANGED setting]_<<vars, setting>>

-----------------------------------------------------------------------------
(* Fairness: the host works off what it was told, the broker delivers, the  *)
(* subscriber thread and the request threads run, the operator presses the  *)
(* button the page shows for an adjusting axis (it is disabled while the    *)
(* axis waits for the host), and a command published again and again gets   *)
(* through in the end.                                                      *)

PressReady(o) == \E a \in Axes : step[a] = "adjusting" /\ MarkReady(o, a)

Fairness ==
    /\ WF_vars(\E a \in Axes : HostStart(a)) /\ WF_vars(HostEnd)
    /\ WF_vars(\E e \in toMes \ received : Receive(e))
    /\ WF_vars(Subscriber)
    /\ WF_vars(PublishFirstReady)
    /\ \A o \in Operators :
          /\ WF_vars(PressReady(o))
          /\ SF_vars(PublishReady(o))
          /\ WF_vars(RestoreAdjustment(o))

FairSpec == Spec /\ Fairness

-----------------------------------------------------------------------------
(* Properties                                                               *)

\* Every variable keeps its type.
TypeOK ==
    /\ run \in {"none", "running", "completed"}
    /\ step \in [Axes -> StepStatus]
    /\ tray \in TrayStatus
    /\ lastBatch \in BOOLEAN /\ notified \in BOOLEAN
    /\ logged \subseteq Keys
    /\ handler \in [phase: {"idle", "start_run", "complete_axis", "log", "log_start", "start_axis"},
                    event: Events]
    /\ request \in [Operators -> [phase: {"idle", "publish", "restore"}, axis: Axes]]
    /\ toHost \subseteq Axes
    /\ hostAxis \in 0..N
    /\ hostDone \subseteq Axes
    /\ toMes \subseteq Events
    /\ received \subseteq Events

\* MES records an axis as completed only when the host has physically finished
\* it, and never two axes in progress: everything before an axis that has left
\* "pending" is completed.
CompletionIsPhysical == \A a \in Axes : step[a] = "completed" => a \in hostDone

AxesInOrder ==
    \A a, b \in Axes : a < b /\ step[b] # "pending" => step[a] = "completed"

\* The host runs an axis only after MES has recorded every earlier axis as
\* completed, whatever was lost, repeated, restored or interrupted: the READY
\* gate between two axes.
ReadyGate ==
    \A a, b \in Axes : a < b /\ (hostAxis = b \/ b \in hostDone) => step[a] = "completed"

\* The run, its trays and the LIMS intent agree with the axes: the run is
\* completed exactly when every axis is, its trays do not leave before, and LIMS is
\* notified exactly when this was the last batch.
RunAgreesWithAxes ==
    LET done == \A a \in Axes : step[a] = "completed" IN
    /\ run = "completed" <=> done
    /\ tray \in {"axis_partial", "completed", "moved_on"} <=> done
    /\ notified <=> done /\ lastBatch

\* No event, retry or restore takes back a completed axis.
CompletedAxisIsFinal ==
    [][\A a \in Axes : step[a] = "completed" => step'[a] = "completed"]_vars

\* Processing EXPERIMENT_ENDED again for an axis that is completed changes nothing:
\* it does not pull moved trays back or stop the axis that runs now.  The message log
\* gives this when the host sends ids and no crash falls between the transaction of
\* the end and its entry in the log.
RepeatedEndIsIdempotent ==
    [][MessageIds = "payload" /\ "crash" \notin Faults =>
          (ApplyCompleteAxis /\ step[handler.event.axis] = "completed" => UNCHANGED mes)]_vars

\* An axis that waits for the host has a READY command at the broker, or a request
\* that is about to publish or restore it: no wait without a command, unless a crash
\* takes the request away between the two.
WaitingHasCommand ==
    "crash" \notin Faults =>
        \A a \in Axes : step[a] = "waiting_start" =>
            \/ a \in toHost
            \/ \E o \in Operators : request[o].phase # "idle" /\ request[o].axis = a

\* Failed and unconfirmed READY commands and repeated events do not wedge the run: it
\* completes.  Nothing in the code sends a lost event again or finishes what a crash
\* cut off, and a generated id takes two events of one second for one.
RunCompletes ==
    MessageIds = "payload" /\ Faults \intersect {"loss", "crash"} = {} => <>(run = "completed")
=============================================================================
