---------------------------- MODULE AxisRun_proofs ----------------------------
(***************************************************************************)
(* Proofs about AxisRun for every number of axes, every number of          *)
(* concurrent READY requests, either kind of message id and every set of   *)
(* faults.  AxesInOrder and ReadyGate are not inductive: they hold because *)
(* commands and messages that are still on their way are in order too.     *)
(***************************************************************************)
EXTENDS AxisRun, TLAPS

-----------------------------------------------------------------------------
(* The inductive invariant.                                                 *)

\* Whatever READY command is at the broker or about to be sent, the axes before
\* its axis are completed.
CommandsInOrder ==
    \A a, b \in Axes :
        /\ a < b
        /\ b \in toHost \/ \E o \in Operators : request[o].axis = b
        => step[a] = "completed"

\* An end event, on its way or being processed, is of an axis the host finished.
EndsArePhysical ==
    /\ \A e \in toMes : e.type = "EXPERIMENT_ENDED" => e.axis \in hostDone
    /\ handler.phase = "complete_axis" => handler.event.axis \in hostDone

\* Before the run exists no axis has moved; the subscriber creates it only once
\* and completes axes of an existing run only.
RunExists ==
    /\ run = "none" => \A a \in Axes : step[a] = "pending"
    /\ handler.phase = "start_run" => run = "none"
    /\ handler.phase = "complete_axis" => run # "none"

IInv ==
    /\ TypeOK
    /\ CompletionIsPhysical
    /\ AxesInOrder
    /\ ReadyGate
    /\ RunAgreesWithAxes
    /\ CommandsInOrder
    /\ EndsArePhysical
    /\ RunExists

-----------------------------------------------------------------------------
(* What the step updates keep.                                              *)

\* Completing an axis the host finished keeps every completed axis completed and
\* changes, besides that axis, only the first one behind it.
LEMMA StepsAfterEndFacts ==
    ASSUME TypeOK, AxesInOrder, ReadyGate, NEW a \in Axes, a \in hostDone
    PROVE  /\ StepsAfterEnd(a) \in [Axes -> StepStatus]
           /\ StepsAfterEnd(a)[a] = "completed"
           /\ \A b \in Axes : step[b] = "completed" => StepsAfterEnd(a)[b] = "completed"
           /\ \A b \in Axes : StepsAfterEnd(a)[b] = "completed" => b = a \/ step[b] = "completed"
           /\ \A b, c \in Axes : b < c /\ StepsAfterEnd(a)[c] # "pending"
                                 => StepsAfterEnd(a)[b] = "completed"
<1> DEFINE S == StepsAfterEnd(a)
<1>1. S \in [Axes -> StepStatus] /\ S[a] = "completed"
  BY DEF StepsAfterEnd, StepStatus, TypeOK
<1>2. \A b \in Axes : step[b] = "completed" => S[b] = "completed"
  BY DEF StepsAfterEnd, IsNext
<1>3. \A b \in Axes : S[b] = "completed" => b = a \/ step[b] = "completed"
  BY DEF StepsAfterEnd
<1>4. ASSUME NEW b \in Axes, NEW c \in Axes, b < c, S[c] # "pending"
      PROVE  S[b] = "completed"
  <2>1. \A d \in Axes : d < a => step[d] = "completed"
    BY DEF ReadyGate
  <2>2. CASE c = a
    BY <1>2, <1>4, <2>1, <2>2
  <2>3. CASE c # a /\ IsNext(a, c)
    <3>1. b \in Axes /\ (b < a \/ b = a \/ (b > a /\ b < c))
      BY <1>4, NAssumption DEF Axes
    <3>2. CASE b < a
      BY <1>2, <2>1, <3>2
    <3>3. CASE b = a
      BY <1>1, <3>3
    <3>4. CASE b > a /\ b < c
      BY <1>2, <2>3, <3>4 DEF IsNext
    <3> QED  BY <3>1, <3>2, <3>3, <3>4
  <2>4. CASE c # a /\ ~IsNext(a, c)
    <3>1. S[c] = step[c]
      BY <2>4 DEF StepsAfterEnd
    <3>2. step[b] = "completed"
      BY <1>4, <3>1 DEF AxesInOrder
    <3> QED  BY <1>2, <3>2
  <2> QED  BY <2>2, <2>3, <2>4
<1> QED  BY <1>1, <1>2, <1>3, <1>4

\* A transition among the statuses of an axis in turn keeps every other axis, and
\* neither completes an axis nor takes a completed one back.
LEMMA TransitionFacts ==
    ASSUME TypeOK, NEW a \in Axes,
           NEW from \in {"adjusting", "waiting_start"},
           NEW to \in {"adjusting", "waiting_start", "running"},
           Transition(a, from, to)
    PROVE  /\ step' \in [Axes -> StepStatus]
           /\ \A b \in Axes : step'[b] = "completed" <=> step[b] = "completed"
           /\ \A b \in Axes : step'[b] = "pending" <=> step[b] = "pending"
           /\ UNCHANGED <<run, tray, lastBatch, notified>>
BY DEF Transition, TypeOK, StepStatus

\* A step that keeps the completed and the pending axes, and the run, keeps
\* the part of the invariant that is about them.
LEMMA SameProgress ==
    ASSUME IInv, TypeOK',
           \A b \in Axes : step'[b] = "completed" <=> step[b] = "completed",
           \A b \in Axes : step'[b] = "pending" <=> step[b] = "pending",
           UNCHANGED <<run, tray, lastBatch, notified, hostAxis, hostDone>>
    PROVE  CompletionIsPhysical' /\ AxesInOrder' /\ ReadyGate' /\ RunAgreesWithAxes'
           /\ (run' = "none" => \A a \in Axes : step'[a] = "pending")
BY DEF IInv, CompletionIsPhysical, AxesInOrder, ReadyGate, RunAgreesWithAxes, RunExists

-----------------------------------------------------------------------------
LEMMA InitIInv == Init => IInv
<1> SUFFICES ASSUME Init PROVE IInv
  OBVIOUS
<1> USE DEF Init
<1>1. 1 \in Axes
  BY NAssumption DEF Axes
<1>2. TypeOK
  <2>1. Idle \in [phase: {"idle"}, event: Events] /\ NoRequest \in [phase: {"idle"}, axis: Axes]
    BY <1>1 DEF Idle, NoRequest, Started, Events
  <2>2. step \in [Axes -> StepStatus] /\ request \in [Operators -> [phase: {"idle"}, axis: Axes]]
    BY <2>1 DEF StepStatus
  <2>3. hostAxis \in 0..N /\ tray \in TrayStatus
    BY NAssumption DEF TrayStatus
  <2> QED
    BY <2>1, <2>2, <2>3 DEF TypeOK
<1>3. CompletionIsPhysical /\ AxesInOrder
  BY DEF CompletionIsPhysical, AxesInOrder
<1>4. ReadyGate
  BY NAssumption DEF ReadyGate, Axes
<1>5. RunAgreesWithAxes
  <2>1. ~ \A a \in Axes : step[a] = "completed"
    BY <1>1
  <2> QED  BY <2>1 DEF RunAgreesWithAxes
<1>6. CommandsInOrder
  BY NAssumption DEF CommandsInOrder, NoRequest, Axes
<1>7. EndsArePhysical /\ RunExists
  BY DEF EndsArePhysical, RunExists, Idle
<1> QED  BY <1>2, <1>3, <1>4, <1>5, <1>6, <1>7 DEF IInv

-----------------------------------------------------------------------------
(* The steps of the host, of the broker and of the trays leave the axes     *)
(* alone.                                                                   *)

LEMMA HostStartStep ==
    ASSUME IInv, NEW a \in Axes, HostStart(a) PROVE IInv'
<1> USE DEF IInv, HostStart, mes
<1>1. TypeOK'
  BY NAssumption DEF TypeOK, Started, Events, Axes
<1>2. ReadyGate'
  BY DEF ReadyGate, CommandsInOrder
<1>3. EndsArePhysical'
  BY DEF EndsArePhysical, Started
<1> QED
  BY <1>1, <1>2, <1>3 DEF CompletionIsPhysical, AxesInOrder, RunAgreesWithAxes,
     CommandsInOrder, RunExists

LEMMA HostEndStep ==
    ASSUME IInv, HostEnd PROVE IInv'
<1> USE DEF IInv, HostEnd, mes
<1>1. hostAxis \in Axes
  BY DEF TypeOK, Axes
<1>2. TypeOK'
  BY <1>1, NAssumption DEF TypeOK, Ended, Events
<1>3. CompletionIsPhysical' /\ ReadyGate'
  BY <1>1 DEF CompletionIsPhysical, ReadyGate, Axes
<1>4. EndsArePhysical'
  BY DEF EndsArePhysical, Ended
<1> QED
  BY <1>2, <1>3, <1>4 DEF AxesInOrder, RunAgreesWithAxes, CommandsInOrder, RunExists

LEMMA MoveOnStep ==
    ASSUME IInv, MoveOn PROVE IInv'
<1> USE DEF IInv, MoveOn, host
<1>1. TypeOK'
  BY DEF TypeOK, TrayStatus
<1>2. RunAgreesWithAxes'
  BY DEF RunAgreesWithAxes
<1> QED
  BY <1>1, <1>2 DEF CompletionIsPhysical, AxesInOrder, ReadyGate, CommandsInOrder,
     EndsArePhysical, RunExists

LEMMA LoseStep ==
    ASSUME IInv, NEW e \in toMes, Lose(e) PROVE IInv'
BY DEF IInv, Lose, mes, host, TypeOK, CompletionIsPhysical, AxesInOrder, ReadyGate,
   RunAgreesWithAxes, CommandsInOrder, EndsArePhysical, RunExists

LEMMA NextSecondStep ==
    ASSUME IInv, NextSecond PROVE IInv'
BY DEF IInv, NextSecond, mes, host, TypeOK, CompletionIsPhysical, AxesInOrder, ReadyGate,
   RunAgreesWithAxes, CommandsInOrder, EndsArePhysical, RunExists

LEMMA CrashStep ==
    ASSUME IInv, Crash PROVE IInv'
<1> USE DEF IInv, Crash, mes, host
<1>1. 1 \in Axes
  BY NAssumption DEF Axes
<1>2. TypeOK'
  <2>1. Idle \in [phase: {"idle"}, event: Events] /\ NoRequest \in [phase: {"idle"}, axis: Axes]
    BY <1>1 DEF Idle, NoRequest, Started, Events
  <2> QED  BY <2>1 DEF TypeOK
<1>3. CommandsInOrder'
  BY NAssumption DEF CommandsInOrder, NoRequest, Axes
<1>4. EndsArePhysical' /\ RunExists'
  BY DEF EndsArePhysical, RunExists, Idle
<1> QED
  BY <1>2, <1>3, <1>4 DEF CompletionIsPhysical, AxesInOrder, ReadyGate, RunAgreesWithAxes

-----------------------------------------------------------------------------
(* The subscriber.                                                          *)

LEMMA ReceiveStep ==
    ASSUME IInv, NEW e \in toMes, Receive(e) PROVE IInv'
<1> USE DEF IInv
<1>1. UNCHANGED <<mes, logged, request, toHost, host>> /\ received' = received \union {e}
  BY DEF Receive, Duplicate, ReceiveFirstStart, ReceiveAxisStart, ReceiveEnd, RefuseEnd, Deliver
<1>2. \/ handler' = handler
      \/ handler' = [phase |-> "start_run", event |-> e] /\ run = "none"
      \/ handler' = [phase |-> "log_start", event |-> e]
      \/ /\ handler' = [phase |-> "complete_axis", event |-> e]
         /\ e.type = "EXPERIMENT_ENDED" /\ run # "none"
  BY DEF Receive, Duplicate, ReceiveFirstStart, ReceiveAxisStart, ReceiveEnd, RefuseEnd, Handle
<1>3. TypeOK'
  BY <1>1, <1>2 DEF TypeOK, mes, host
<1>4. EndsArePhysical' /\ RunExists'
  BY <1>1, <1>2 DEF EndsArePhysical, RunExists, mes, host
<1> QED
  BY <1>1, <1>3, <1>4 DEF mes, host, CompletionIsPhysical, AxesInOrder, ReadyGate,
     RunAgreesWithAxes, CommandsInOrder

LEMMA LogStep ==
    ASSUME IInv, Log PROVE IInv'
<1> USE DEF IInv, Log
<1>1. Key(handler.event) \in Keys
  BY NAssumption DEF TypeOK, Key, Keys, Events, Axes
<1>2. Idle \in [phase: {"idle"}, event: Events]
  BY NAssumption DEF Idle, Started, Events, Axes
<1>3. TypeOK'
  BY <1>1, <1>2 DEF TypeOK, mes, host
<1>4. EndsArePhysical' /\ RunExists'
  BY DEF EndsArePhysical, RunExists, mes, host, Idle, TypeOK
<1> QED
  BY <1>3, <1>4 DEF mes, host, CompletionIsPhysical, AxesInOrder, ReadyGate,
     RunAgreesWithAxes, CommandsInOrder

LEMMA ApplyStartRunStep ==
    ASSUME IInv, ApplyStartRun PROVE IInv'
<1> USE DEF IInv, ApplyStartRun, StartRun, Handle
<1>1. 1 \in Axes /\ \A a \in Axes : a >= 1 /\ step[a] = "pending"
  BY NAssumption DEF RunExists, Axes
<1>2. TypeOK'
  BY DEF TypeOK, StepStatus, TrayStatus, host
<1>3. \A a \in Axes : step'[a] # "completed"
  OBVIOUS
<1>4. CompletionIsPhysical'
  BY <1>3 DEF CompletionIsPhysical
<1>5. AxesInOrder'
  <2> SUFFICES ASSUME NEW a \in Axes, NEW b \in Axes, a < b PROVE step'[b] = "pending"
    BY DEF AxesInOrder
  <2>1. b # 1
    BY <1>1 DEF Axes
  <2> QED  BY <2>1
<1>6. ReadyGate' /\ CommandsInOrder'
  BY <1>1 DEF ReadyGate, CommandsInOrder, host
<1>7. RunAgreesWithAxes'
  <2>1. (~ \A a \in Axes : step[a] = "completed") /\ (~ \A a \in Axes : step'[a] = "completed")
    BY <1>1, <1>3
  <2> QED  BY <2>1 DEF RunAgreesWithAxes
<1>8. EndsArePhysical' /\ RunExists'
  BY DEF EndsArePhysical, RunExists, host
<1> QED  BY <1>2, <1>4, <1>5, <1>6, <1>7, <1>8

LEMMA ApplyCompleteAxisStep ==
    ASSUME IInv, ApplyCompleteAxis PROVE IInv'
<1> USE DEF IInv, ApplyCompleteAxis, Handle
<1> DEFINE a == handler.event.axis
<1>1. a \in Axes /\ a \in hostDone /\ UNCHANGED <<logged, request, toHost, hostAxis, hostDone, toMes, received>>
  BY DEF TypeOK, Events, EndsArePhysical, host
<1>2. /\ step' \in [Axes -> StepStatus]
      /\ step'[a] = "completed"
      /\ \A b \in Axes : step[b] = "completed" => step'[b] = "completed"
      /\ \A b \in Axes : step'[b] = "completed" => b = a \/ step[b] = "completed"
      /\ \A b, c \in Axes : b < c /\ step'[c] # "pending" => step'[b] = "completed"
  <2>1. step' = StepsAfterEnd(a)
    BY DEF CompleteAxis
  <2> HIDE DEF a
  <2> QED  BY <1>1, <2>1, StepsAfterEndFacts
<1>3. TypeOK'
  BY <1>1, <1>2 DEF TypeOK, CompleteAxis, TrayStatus
<1>4. CompletionIsPhysical' /\ AxesInOrder'
  BY <1>1, <1>2 DEF CompletionIsPhysical, AxesInOrder
<1>5. ReadyGate' /\ CommandsInOrder'
  BY <1>1, <1>2 DEF ReadyGate, CommandsInOrder
<1>6. RunAgreesWithAxes'
  <2>1. CASE \A b \in Axes : step'[b] = "completed"
    BY <1>2, <2>1 DEF CompleteAxis, RunAgreesWithAxes, TypeOK
  <2>2. CASE ~ \A b \in Axes : step'[b] = "completed"
    <3>1. ~ \A b \in Axes : step[b] = "completed"
      BY <1>2, <2>2
    <3> QED  BY <2>2, <3>1 DEF CompleteAxis, RunAgreesWithAxes
  <2> QED  BY <2>1, <2>2
<1>7. EndsArePhysical'
  BY <1>1 DEF EndsArePhysical
<1>8. RunExists'
  <2>1. run' # "none"
    BY DEF RunExists, CompleteAxis
  <2> QED  BY <2>1 DEF RunExists
<1> QED  BY <1>3, <1>4, <1>5, <1>6, <1>7, <1>8

LEMMA ApplyAxisStartStep ==
    ASSUME IInv, ApplyAxisStart PROVE IInv'
<1> USE DEF IInv, ApplyAxisStart, host
<1>1. handler.event.axis \in Axes /\ Idle \in [phase: {"idle"}, event: Events]
  BY NAssumption DEF TypeOK, Events, Idle, Started, Axes
<1>2. /\ step' \in [Axes -> StepStatus]
      /\ \A b \in Axes : step'[b] = "completed" <=> step[b] = "completed"
      /\ \A b \in Axes : step'[b] = "pending" <=> step[b] = "pending"
      /\ UNCHANGED <<run, tray, lastBatch, notified>>
  <2>1. CASE Transition(handler.event.axis, "waiting_start", "running")
    BY <1>1, <2>1, TransitionFacts
  <2>2. CASE UNCHANGED mes
    BY <2>2 DEF mes, TypeOK
  <2> QED  BY <2>1, <2>2
<1>3. TypeOK'
  BY <1>1, <1>2 DEF TypeOK
<1>4. CompletionIsPhysical' /\ AxesInOrder' /\ ReadyGate' /\ RunAgreesWithAxes'
      /\ (run' = "none" => \A a \in Axes : step'[a] = "pending")
  BY <1>2, <1>3, SameProgress
<1>5. CommandsInOrder' /\ EndsArePhysical' /\ RunExists'
  BY <1>2, <1>4 DEF CommandsInOrder, EndsArePhysical, RunExists, Idle
<1> QED  BY <1>3, <1>4, <1>5

-----------------------------------------------------------------------------
(* The READY requests.                                                      *)

LEMMA PublishFirstReadyStep ==
    ASSUME IInv, PublishFirstReady PROVE IInv'
<1> USE DEF IInv, PublishFirstReady, mes, host
<1>1. TypeOK'
  BY NAssumption DEF TypeOK, Axes
<1>2. CommandsInOrder'
  BY DEF CommandsInOrder, Axes
<1> QED
  BY <1>1, <1>2 DEF CompletionIsPhysical, AxesInOrder, ReadyGate, RunAgreesWithAxes,
     EndsArePhysical, RunExists

LEMMA MarkReadyStep ==
    ASSUME IInv, NEW o \in Operators, NEW a \in Axes, MarkReady(o, a) PROVE IInv'
<1> USE DEF IInv, MarkReady, Serve, host
<1>1. /\ step' \in [Axes -> StepStatus]
      /\ \A b \in Axes : step'[b] = "completed" <=> step[b] = "completed"
      /\ \A b \in Axes : step'[b] = "pending" <=> step[b] = "pending"
      /\ UNCHANGED <<run, tray, lastBatch, notified>>
  BY TransitionFacts
<1>2. request' \in [Operators -> [phase: {"idle", "publish", "restore"}, axis: Axes]]
  BY DEF TypeOK
<1>3. TypeOK'
  BY <1>1, <1>2 DEF TypeOK
<1>4. CompletionIsPhysical' /\ AxesInOrder' /\ ReadyGate' /\ RunAgreesWithAxes'
      /\ (run' = "none" => \A b \in Axes : step'[b] = "pending")
  BY <1>1, <1>3, SameProgress
<1>5. step[a] # "pending"
  BY DEF Transition
<1>6. CommandsInOrder'
  <2> SUFFICES ASSUME NEW b \in Axes, NEW c \in Axes, b < c,
                      c \in toHost \/ \E p \in Operators : request'[p].axis = c
               PROVE  step[b] = "completed"
    BY <1>1 DEF CommandsInOrder
  <2>1. CASE c = a
    BY <1>5, <2>1 DEF AxesInOrder
  <2>2. CASE c # a
    BY <2>2 DEF CommandsInOrder, TypeOK
  <2> QED  BY <2>1, <2>2
<1>7. EndsArePhysical' /\ RunExists'
  BY <1>1, <1>4 DEF EndsArePhysical, RunExists
<1> QED  BY <1>3, <1>4, <1>6, <1>7

LEMMA PublishStep ==
    ASSUME IInv, NEW o \in Operators, PublishReady(o) \/ PublishNotConfirmed(o) PROVE IInv'
<1> USE DEF IInv, PublishReady, PublishNotConfirmed, Serve, mes, host
<1>1. request[o].axis \in Axes /\ NoRequest \in [phase: {"idle"}, axis: Axes]
  BY NAssumption DEF TypeOK, NoRequest, Axes
<1>2. TypeOK'
  BY <1>1 DEF TypeOK
<1>3. CommandsInOrder'
  <2>1. \A c \in Axes : (c \in toHost' \/ \E p \in Operators : request'[p].axis = c)
          => c = 1 \/ c \in toHost \/ \E p \in Operators : request[p].axis = c
    BY <1>1 DEF TypeOK, NoRequest
  <2> QED  BY <2>1 DEF CommandsInOrder, Axes
<1> QED
  BY <1>2, <1>3 DEF CompletionIsPhysical, AxesInOrder, ReadyGate, RunAgreesWithAxes,
     EndsArePhysical, RunExists

LEMMA RestoreStep ==
    ASSUME IInv, NEW o \in Operators, RestoreAdjustment(o) PROVE IInv'
<1> USE DEF IInv, RestoreAdjustment, host
<1>1. request[o].axis \in Axes /\ NoRequest \in [phase: {"idle"}, axis: Axes]
  BY NAssumption DEF TypeOK, NoRequest, Axes
<1>2. /\ step' \in [Axes -> StepStatus]
      /\ \A b \in Axes : step'[b] = "completed" <=> step[b] = "completed"
      /\ \A b \in Axes : step'[b] = "pending" <=> step[b] = "pending"
      /\ UNCHANGED <<run, tray, lastBatch, notified>>
  <2>1. CASE Transition(request[o].axis, "waiting_start", "adjusting")
    BY <1>1, <2>1, TransitionFacts
  <2>2. CASE UNCHANGED mes
    BY <2>2 DEF mes, TypeOK
  <2> QED  BY <2>1, <2>2
<1>3. TypeOK'
  BY <1>1, <1>2 DEF TypeOK
<1>4. CompletionIsPhysical' /\ AxesInOrder' /\ ReadyGate' /\ RunAgreesWithAxes'
      /\ (run' = "none" => \A b \in Axes : step'[b] = "pending")
  BY <1>2, <1>3, SameProgress
<1>5. CommandsInOrder'
  <2>1. \A c \in Axes : (c \in toHost' \/ \E p \in Operators : request'[p].axis = c)
          => c = 1 \/ c \in toHost \/ \E p \in Operators : request[p].axis = c
    BY <1>1 DEF TypeOK, NoRequest
  <2> QED  BY <1>2, <2>1 DEF CommandsInOrder, Axes
<1>6. EndsArePhysical' /\ RunExists'
  BY <1>2, <1>4 DEF EndsArePhysical, RunExists
<1> QED  BY <1>3, <1>4, <1>5, <1>6

-----------------------------------------------------------------------------
(* The theorems.                                                            *)

LEMMA NextIInv == IInv /\ [Next]_vars => IInv'
<1> SUFFICES ASSUME IInv, [Next]_vars PROVE IInv'
  OBVIOUS
<1>1. ASSUME NEW a \in Axes, HostStart(a) PROVE IInv'
  BY <1>1, HostStartStep
<1>2. CASE HostEnd
  BY <1>2, HostEndStep
<1>3. ASSUME NEW e \in toMes, Receive(e) \/ Lose(e) PROVE IInv'
  BY <1>3, ReceiveStep, LoseStep
<1>4. CASE Subscriber
  BY <1>4, ApplyStartRunStep, ApplyCompleteAxisStep, LogStep, ApplyAxisStartStep DEF Subscriber
<1>5. CASE NextSecond
  BY <1>5, NextSecondStep
<1>6. CASE PublishFirstReady
  BY <1>6, PublishFirstReadyStep
<1>7. ASSUME NEW o \in Operators,
             \/ \E a \in Axes : MarkReady(o, a)
             \/ PublishReady(o) \/ PublishNotConfirmed(o) \/ RestoreAdjustment(o)
      PROVE  IInv'
  BY <1>7, MarkReadyStep, PublishStep, RestoreStep
<1>8. CASE MoveOn
  BY <1>8, MoveOnStep
<1>9. CASE Crash
  BY <1>9, CrashStep
<1>10. CASE UNCHANGED vars
  BY <1>10 DEF IInv, vars, mes, host, TypeOK, CompletionIsPhysical, AxesInOrder, ReadyGate,
     RunAgreesWithAxes, CommandsInOrder, EndsArePhysical, RunExists
<1> QED
  BY <1>1, <1>2, <1>3, <1>4, <1>5, <1>6, <1>7, <1>8, <1>9, <1>10 DEF Next

\* The inductive invariant holds in every reachable state.
THEOREM Invariance == Spec => []IInv
<1>1. [Next /\ UNCHANGED setting]_<<vars, setting>> => [Next]_vars
  OBVIOUS
<1> QED  BY <1>1, InitIInv, NextIInv, PTL DEF Spec

\* Type correctness.
THEOREM TypeCorrect == Spec => []TypeOK
BY Invariance, PTL DEF IInv

\* The READY gate holds for any number of axes and requests: no axis runs at the
\* host before MES has recorded every earlier axis as completed.
THEOREM ReadyGateHolds == Spec => []ReadyGate
BY Invariance, PTL DEF IInv

\* MES completes only what the host has finished, and in the order of the axes.
THEOREM CompletionInOrder == Spec => [](CompletionIsPhysical /\ AxesInOrder)
BY Invariance, PTL DEF IInv

\* A completed axis was finished by the host, whatever was repeated, lost or late.
THEOREM CompletesWhatIsDone == Spec => []CompletionIsPhysical
BY Invariance, PTL DEF IInv

\* The run, its trays and the LIMS intent agree with the axes.
THEOREM RunAgreement == Spec => []RunAgreesWithAxes
BY Invariance, PTL DEF IInv

-----------------------------------------------------------------------------
\* A completed axis stays completed in every step.
LEMMA CompletedStays ==
    ASSUME IInv, [Next]_vars, NEW a \in Axes, step[a] = "completed"
    PROVE  step'[a] = "completed"
<1>1. CASE UNCHANGED step
  BY <1>1
<1>2. CASE ApplyStartRun
  BY <1>2 DEF ApplyStartRun, IInv, RunExists
<1>3. CASE ApplyCompleteAxis
  <2>1. handler.event.axis \in Axes /\ handler.event.axis \in hostDone
    BY <1>3 DEF ApplyCompleteAxis, IInv, TypeOK, Events, EndsArePhysical
  <2>2. step' = StepsAfterEnd(handler.event.axis)
    BY <1>3 DEF ApplyCompleteAxis, CompleteAxis
  <2> QED  BY <2>1, <2>2, StepsAfterEndFacts DEF IInv
<1>4. ASSUME NEW b \in Axes, NEW from \in {"adjusting", "waiting_start"},
             NEW to \in {"adjusting", "waiting_start", "running"}, Transition(b, from, to)
      PROVE  step'[a] = "completed"
  BY <1>4, TransitionFacts DEF IInv
<1>5. CASE ApplyAxisStart
  <2>1. handler.event.axis \in Axes
    BY DEF IInv, TypeOK, Events
  <2> QED  BY <1>1, <1>4, <1>5, <2>1 DEF ApplyAxisStart, mes
<1>6. ASSUME NEW o \in Operators, (\E b \in Axes : MarkReady(o, b)) \/ RestoreAdjustment(o)
      PROVE  step'[a] = "completed"
  <2>1. request[o].axis \in Axes
    BY DEF IInv, TypeOK
  <2> QED  BY <1>1, <1>4, <1>6, <2>1 DEF MarkReady, RestoreAdjustment, mes
<1>7. \/ UNCHANGED step \/ ApplyStartRun \/ ApplyCompleteAxis \/ ApplyAxisStart
      \/ \E o \in Operators : (\E b \in Axes : MarkReady(o, b)) \/ RestoreAdjustment(o)
  BY DEF Next, vars, mes, HostStart, HostEnd, Lose, Receive, Duplicate, ReceiveFirstStart,
     ReceiveAxisStart, ReceiveEnd, RefuseEnd, Deliver, Subscriber, Log, NextSecond,
     PublishFirstReady, PublishReady, PublishNotConfirmed, MoveOn, Crash
<1> QED  BY <1>1, <1>2, <1>3, <1>5, <1>6, <1>7

\* No event, repeated or late, and no retry takes a completed axis back.
THEOREM CompletedAxesStay == Spec => CompletedAxisIsFinal
<1>1. IInv /\ [Next]_vars => [\A a \in Axes : step[a] = "completed" => step'[a] = "completed"]_vars
  BY CompletedStays
<1>2. [Next /\ UNCHANGED setting]_<<vars, setting>> => [Next]_vars
  OBVIOUS
<1> QED  BY <1>1, <1>2, Invariance, PTL DEF Spec, CompletedAxisIsFinal

-----------------------------------------------------------------------------
(* What holds in some environments only: without crashes, with ids of the   *)
(* host.  The environment of a run does not change.                         *)

\* Only a READY request makes an axis wait, and it is served until its command is
\* at the broker or the axis is restored.
LEMMA WaitingStays ==
    ASSUME TypeOK, WaitingHasCommand, [Next]_vars, UNCHANGED setting
    PROVE  WaitingHasCommand'
<1> DEFINE HasCommand(a) ==
               a \in toHost \/ \E o \in Operators : request[o].phase # "idle" /\ request[o].axis = a
<1> SUFFICES ASSUME "crash" \notin Faults, NEW a \in Axes, step'[a] = "waiting_start" PROVE HasCommand(a)'
  BY DEF WaitingHasCommand, Faults
<1>1. step[a] = "waiting_start" => HasCommand(a)
  BY DEF WaitingHasCommand
<1>2. step \in [Axes -> StepStatus] /\ request \in [Operators -> [phase: {"idle", "publish", "restore"}, axis: Axes]]
  BY DEF TypeOK
<1>3. CASE UNCHANGED <<step, request>> /\ toHost \subseteq toHost'
  BY <1>1, <1>3
<1>4. CASE ApplyStartRun
  BY <1>4 DEF ApplyStartRun, StartRun
<1>5. CASE ApplyCompleteAxis
  <2>1. step'[a] = step[a] /\ UNCHANGED <<request, toHost>>
    BY <1>5 DEF ApplyCompleteAxis, CompleteAxis, StepsAfterEnd
  <2> QED
    BY <1>1, <2>1
<1>6. CASE ApplyAxisStart
  <2>1. step'[a] = step[a] /\ UNCHANGED <<request, toHost>>
    BY <1>2, <1>6 DEF ApplyAxisStart, Transition, mes
  <2> QED
    BY <1>1, <2>1
<1>7. ASSUME NEW o \in Operators, NEW b \in Axes, MarkReady(o, b) PROVE HasCommand(a)'
  <2>1. /\ request[o].phase = "idle" /\ request' = [request EXCEPT ![o] = [phase |-> "publish", axis |-> b]]
        /\ UNCHANGED toHost /\ (a = b \/ step'[a] = step[a])
    BY <1>2, <1>7 DEF MarkReady, Serve, Transition
  <2>2. CASE a = b
    BY <1>2, <2>1, <2>2
  <2>3. CASE step[a] = "waiting_start"
    <3>1. \A p \in Operators : request[p].phase # "idle" => request'[p] = request[p]
      BY <1>2, <2>1
    <3> QED
      BY <1>1, <2>1, <2>3, <3>1
  <2> QED
    BY <2>1, <2>2, <2>3
<1>8. ASSUME NEW o \in Operators, PublishReady(o) \/ PublishNotConfirmed(o) PROVE HasCommand(a)'
  <2>1. UNCHANGED step /\ toHost \subseteq toHost'
    BY <1>8 DEF PublishReady, PublishNotConfirmed, mes
  <2>2. \A p \in Operators : p # o => request'[p] = request[p]
    BY <1>2, <1>8 DEF PublishReady, PublishNotConfirmed, Serve
  <2>3. request[o].axis \in toHost' \/ (request'[o].phase = "restore" /\ request'[o].axis = request[o].axis)
    BY <1>2, <1>8 DEF PublishReady, PublishNotConfirmed, Serve
  <2> QED
    BY <1>1, <2>1, <2>2, <2>3
<1>9. ASSUME NEW o \in Operators, RestoreAdjustment(o) PROVE HasCommand(a)'
  <2>1. UNCHANGED toHost /\ \A p \in Operators : p # o => request'[p] = request[p]
    BY <1>2, <1>9 DEF RestoreAdjustment
  <2>2. a # request[o].axis /\ step'[a] = step[a]
    BY <1>2, <1>9 DEF RestoreAdjustment, Transition, mes
  <2> QED
    BY <1>1, <2>1, <2>2
<1>10. \/ UNCHANGED <<step, request>> /\ toHost \subseteq toHost'
       \/ ApplyStartRun \/ ApplyCompleteAxis \/ ApplyAxisStart
       \/ \E o \in Operators : \/ \E b \in Axes : MarkReady(o, b)
                               \/ PublishReady(o) \/ PublishNotConfirmed(o) \/ RestoreAdjustment(o)
  BY DEF Next, vars, mes, HostStart, HostEnd, Lose, Receive, Duplicate, ReceiveFirstStart, ReceiveAxisStart,
     ReceiveEnd, RefuseEnd, Deliver, Subscriber, Log, NextSecond, PublishFirstReady, MoveOn, Crash
<1> QED
  BY <1>3, <1>4, <1>5, <1>6, <1>7, <1>8, <1>9, <1>10

\* Without a crash no axis waits for the host without a command: whatever other
\* requests, restores and late events do in between.
THEOREM NoWaitWithoutCommand == Spec => []WaitingHasCommand
<1>1. Init => WaitingHasCommand
  BY DEF Init, WaitingHasCommand
<1>2. TypeOK /\ WaitingHasCommand /\ [Next /\ UNCHANGED setting]_<<vars, setting>> => WaitingHasCommand'
  BY WaitingStays
<1> QED
  BY <1>1, <1>2, TypeCorrect, PTL DEF Spec

\* With ids of the host and without a crash, the end of a completed axis is in the
\* log, or about to be written there before the subscriber takes another message.
EndsAreLogged ==
    MessageIds = "payload" /\ "crash" \notin Faults =>
        /\ \A a \in Axes : step[a] = "completed" =>
              Ended(a) \in logged \/ (handler.phase = "log" /\ handler.event = Ended(a))
        /\ handler.phase = "complete_axis" =>
              handler.event.type = "EXPERIMENT_ENDED" /\ handler.event \notin logged

LEMMA EndsStayLogged ==
    ASSUME IInv, EndsAreLogged, [Next]_vars, UNCHANGED setting
    PROVE  EndsAreLogged'
<1> SUFFICES ASSUME MessageIds = "payload", "crash" \notin Faults
             PROVE  /\ \A a \in Axes : step'[a] = "completed" =>
                          Ended(a) \in logged' \/ (handler'.phase = "log" /\ handler'.event = Ended(a))
                    /\ handler'.phase = "complete_axis" =>
                          handler'.event.type = "EXPERIMENT_ENDED" /\ handler'.event \notin logged'
  BY DEF EndsAreLogged, Faults, MessageIds, Ended
<1>1. /\ \A a \in Axes : step[a] = "completed" =>
            Ended(a) \in logged \/ (handler.phase = "log" /\ handler.event = Ended(a))
      /\ handler.phase = "complete_axis" =>
            handler.event.type = "EXPERIMENT_ENDED" /\ handler.event \notin logged
  BY DEF EndsAreLogged
<1>2. \A e : Key(e) = e
  BY DEF Key
<1>3. /\ handler \in [phase: {"idle", "start_run", "complete_axis", "log", "log_start", "start_axis"}, event: Events]
      /\ TypeOK
  BY DEF IInv, TypeOK
<1>4. CASE UNCHANGED <<step, logged, handler>>
  BY <1>1, <1>4
<1>5. ASSUME NEW e \in toMes, Receive(e) PROVE EndsAreLogged'
  <2>1. UNCHANGED <<step, logged>> /\ handler.phase = "idle"
    BY <1>5 DEF Receive, Duplicate, ReceiveFirstStart, ReceiveAxisStart, ReceiveEnd, RefuseEnd, Deliver, mes
  <2>2. handler'.phase = "complete_axis" => handler'.event.type = "EXPERIMENT_ENDED" /\ handler'.event \notin logged
    BY <1>1, <1>2, <1>5 DEF Receive, Duplicate, ReceiveFirstStart, ReceiveAxisStart, ReceiveEnd, RefuseEnd, Handle
  <2> QED
    BY <1>1, <2>1, <2>2 DEF EndsAreLogged, Ended
<1>6. CASE ApplyStartRun
  BY <1>6 DEF ApplyStartRun, StartRun, Handle
<1>7. CASE ApplyCompleteAxis
  <2> DEFINE x == handler.event.axis
  <2>1. /\ handler.phase = "complete_axis" /\ handler' = [phase |-> "log", event |-> handler.event]
        /\ step' = StepsAfterEnd(x) /\ UNCHANGED logged
    BY <1>7 DEF ApplyCompleteAxis, CompleteAxis, Handle
  <2>2. handler.event = Ended(x)
    BY <1>1, <1>3, <2>1 DEF Events, Ended
  <2>3. \A a \in Axes : step'[a] = "completed" => a = x \/ step[a] = "completed"
    BY <2>1 DEF StepsAfterEnd
  <2> HIDE DEF x
  <2> QED
    BY <1>1, <2>1, <2>2, <2>3
<1>8. CASE Log
  <2>1. /\ UNCHANGED step /\ logged' = logged \union {handler.event}
        /\ handler'.phase \in {"idle", "start_axis"}
    BY <1>2, <1>3, <1>8 DEF Log, mes, Idle
  <2> QED
    BY <1>1, <2>1
<1>9. CASE ApplyAxisStart
  <2>1. handler.phase = "start_axis" /\ handler' = Idle /\ UNCHANGED logged
    BY <1>9 DEF ApplyAxisStart
  <2>2. \A a \in Axes : step'[a] = "completed" => step[a] = "completed"
    BY <1>3, <1>9 DEF ApplyAxisStart, Transition, mes, TypeOK
  <2> QED
    BY <1>1, <2>1, <2>2 DEF Idle
<1>10. ASSUME NEW o \in Operators, (\E a \in Axes : MarkReady(o, a)) \/ RestoreAdjustment(o)
       PROVE  EndsAreLogged'
  <2>1. UNCHANGED <<logged, handler>>
    BY <1>10 DEF MarkReady, RestoreAdjustment
  <2>2. \A a \in Axes : step'[a] = "completed" => step[a] = "completed"
    BY <1>3, <1>10 DEF MarkReady, RestoreAdjustment, Transition, mes, TypeOK
  <2> QED
    BY <1>1, <2>1, <2>2 DEF EndsAreLogged
<1>11. \/ UNCHANGED <<step, logged, handler>> \/ Subscriber
       \/ \E e \in toMes : Receive(e)
       \/ \E o \in Operators : (\E a \in Axes : MarkReady(o, a)) \/ RestoreAdjustment(o)
  BY DEF Next, vars, mes, HostStart, HostEnd, Lose, NextSecond, PublishFirstReady, PublishReady,
     PublishNotConfirmed, MoveOn, Crash
<1> QED
  BY <1>4, <1>5, <1>6, <1>7, <1>8, <1>9, <1>10, <1>11 DEF Subscriber, EndsAreLogged, Faults, MessageIds

\* With ids of the host and without a crash, processing an end again changes nothing,
\* for the log stops it: the end of a completed axis does not reach the transaction.
THEOREM RepeatedEndsChangeNothing == Spec => RepeatedEndIsIdempotent
<1>1. Init => EndsAreLogged
  BY DEF Init, EndsAreLogged, Idle
<1>2. IInv /\ EndsAreLogged /\ [Next /\ UNCHANGED setting]_<<vars, setting>> => EndsAreLogged'
  BY EndsStayLogged
<1>3. IInv /\ EndsAreLogged /\ [Next /\ UNCHANGED setting]_<<vars, setting>>
        => [MessageIds = "payload" /\ "crash" \notin Faults =>
               (ApplyCompleteAxis /\ step[handler.event.axis] = "completed" => UNCHANGED mes)]_vars
  <2> SUFFICES ASSUME IInv, EndsAreLogged, MessageIds = "payload", "crash" \notin Faults,
                      ApplyCompleteAxis, step[handler.event.axis] = "completed"
               PROVE  FALSE
    OBVIOUS
  <2>1. /\ handler.phase = "complete_axis" /\ handler.event \in Events
        /\ handler.event.type = "EXPERIMENT_ENDED" /\ handler.event \notin logged
    BY DEF ApplyCompleteAxis, EndsAreLogged, IInv, TypeOK
  <2>2. handler.event = Ended(handler.event.axis) /\ handler.event.axis \in Axes
    BY <2>1 DEF Events, Ended
  <2> QED
    BY <2>1, <2>2 DEF EndsAreLogged
<1> QED
  BY <1>1, <1>2, <1>3, Invariance, PTL DEF Spec, RepeatedEndIsIdempotent
=============================================================================
