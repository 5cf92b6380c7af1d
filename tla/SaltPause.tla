------------------------------ MODULE SaltPause ------------------------------
(***************************************************************************)
(* Pausing, resuming and stopping one salt-spray run.  A laboratory page   *)
(* sends a command over MQTT; the upper computer executes it and confirms  *)
(* with an event; only the event changes the run.  A command that is not   *)
(* confirmed within its time is marked failed by the next request, and a   *)
(* confirmation that comes after that finds no command.                    *)
(*                                                                         *)
(* Commands and confirmations carry the pause they belong to and are       *)
(* matched by it.  The trays of the run move together.  The upper computer *)
(* may send an event again, events may overtake each other, and any time   *)
(* may pass between two steps.  One process handles the events.            *)
(***************************************************************************)
EXTENDS Integers, FiniteSets

CONSTANTS
    Pages,        \* laboratory pages
    Kinds,        \* how a run is stopped: completion, abnormal
    MaxPauses,    \* bound on the pauses
    MaxCommands,  \* bound on the commands sent
    Faults,       \* which faults happen: crash, lost, unsure
    MaxFaults     \* bound on the faults

ASSUME SaltAssumption ==
    /\ Kinds \subseteq {"completion", "abnormal"}
    /\ MaxPauses \in Nat /\ MaxCommands \in Nat /\ MaxFaults \in Nat

VARIABLES
    run,       \* run_status
    pause,     \* biz_experiment_run_pause: status and kind of stop of each pause
    steps,     \* how far each pause is on its way back (staging events)
    trays,     \* the status of the trays (mes.samples)
    shifts,    \* pauses added to the planned end of the run, and to its schedule
    log,       \* MES_TO_HOST rows of the message log
    toHost,    \* commands on their way
    device,    \* the salt chamber
    sent,      \* confirmations the upper computer sent
    received,  \* HOST_TO_MES rows of the message log, and event rows
    handler,   \* the confirmation being handled
    page,      \* useSaltSprayPauseFlow of each page, and the route it calls
    faults,    \* faults so far
    torn       \* history: pauses whose resumption was cut short by a crash

mes  == <<run, pause, steps, trays, shifts>>
host == <<toHost, device, sent>>
vars == <<mes, log, host, received, handler, page, faults, torn>>

Pauses == 1..MaxPauses
Types  == {"PAUSE", "RESUME", "STOP"}
Over   == {"COMPLETED", "ABNORMAL"}

\* The steps of a pause: at the appearance inspection, back from it; then the
\* preparation to resume: started, compared, installed, fixture ready, ready.
Inspected == 1
Returned  == 2
Started   == 3
Compared  == 4
Ready     == 7

Command(n, t, p, k) == [no |-> n, type |-> t, pause |-> p, kind |-> k]
NoCommand == Command(0, "PAUSE", 0, "completion")
NoPage    == [pc |-> "idle", command |-> NoCommand]
Idle      == [pc |-> "idle", message |-> NoCommand, kind |-> "completion"]

Fault(f) == f \in Faults /\ faults < MaxFaults /\ faults' = faults + 1

Init ==
    /\ run = "RUNNING" /\ trays = "chamber"
    /\ pause = [p \in Pauses |-> [status |-> "none", kind |-> "completion"]]
    /\ steps = [p \in Pauses |-> 0]
    /\ shifts = [run |-> 0, schedule |-> 0]
    /\ log = {} /\ toHost = {} /\ sent = {}
    /\ device = [state |-> "running", pause |-> 0, kind |-> "completion"]
    /\ received = [messages |-> {}, events |-> {}]
    /\ handler = Idle /\ page = [g \in Pages |-> NoPage]
    /\ faults = 0 /\ torn = {}

-----------------------------------------------------------------------------
(* The commands in the message log.                                         *)

Commands == {c.command : c \in log}

LatestOf(S) == CHOOSE c \in S : \A d \in S : d.no <= c.no

\* find_salt_command_payload: the latest live command of a type and a pause.
Live(t, p) == {c.command : c \in {d \in log : d.live /\ d.command.type = t /\ d.command.pause = p}}

\* find_pending_salt_command: live commands without an event of their pause.
Pending == {c.command : c \in {d \in log : d.live /\ <<d.command.type, d.command.pause>> \notin received.events}}

\* _reject_pending_salt_command lets a request pass when nothing is pending, or
\* when the latest pending command is old, which it marks failed.
PassPending ==
    log' = IF Pending = {} THEN log
           ELSE LET c == LatestOf(Pending)
                IN  {IF d.command = c THEN [d EXCEPT !.live = FALSE] ELSE d : d \in log}

PauseOpen(p) == pause[p].status = "PAUSED"

\* validate_mid_experiment_trays_ready_for_resume.
TraysBack(p) ==
    /\ steps[p] >= Returned
    /\ trays = "returned" \/ (trays = "preparing" /\ steps[p] >= Started)

ReadyToResume(p) == TraysBack(p) /\ steps[p] = Ready

\* What the routes ask of the pause after they have compared the run status.
Allowed(c) ==
    \/ c.type = "PAUSE"
    \/ c.type = "RESUME" /\ PauseOpen(c.pause) /\ ReadyToResume(c.pause)
    \/ c.type = "STOP" /\ PauseOpen(c.pause) /\ steps[c.pause] < Compared

-----------------------------------------------------------------------------
(* A page and the route it calls.                                           *)

Issued    == Cardinality(Commands)
NextPause == 1 + Cardinality({c \in Commands : c.type = "PAUSE"})

Asked == {Command(0, "PAUSE", 0, "completion")}
    \union {Command(0, "RESUME", p, "completion") : p \in Pauses}
    \union {Command(0, "STOP", p, k) : p \in Pauses, k \in Kinds}

\* publishControl: a page that neither submits nor waits calls the route, which
\* reads the run and refuses a status other than the one the command needs.  The
\* run is read before the pending commands.
Ask(g) ==
    /\ page[g].pc = "idle" /\ Issued < MaxCommands
    /\ \E c \in Asked :
        /\ run = (IF c.type = "PAUSE" THEN "RUNNING" ELSE "PAUSED")
        /\ page' = [page EXCEPT ![g] = [pc |-> "asked", command |-> c]]
    /\ UNCHANGED <<mes, log, host, received, handler, faults, torn>>

\* The pending commands and the pause are read.  A pending command that is not old
\* refuses the request, and so does, for a pause, a planned end that is over.
Check(g) ==
    /\ page[g].pc = "asked"
    /\ \/ PassPending /\ Allowed(page[g].command) /\ page' = [page EXCEPT ![g].pc = "checked"]
       \/ /\ ~Allowed(page[g].command) \/ page[g].command.type = "PAUSE"
          /\ PassPending /\ page' = [page EXCEPT ![g] = NoPage]
       \/ Pending # {} /\ page' = [page EXCEPT ![g] = NoPage] /\ UNCHANGED log
    /\ UNCHANGED <<mes, host, received, handler, faults, torn>>

\* publish_laboratory_command: the row is logged, the command is sent, the page
\* starts waiting.  A command may be lost in the broker or, when the client says
\* that it failed or the row was not written, be sent without a live row.
Publish(g) ==
    /\ page[g].pc = "checked" /\ Issued < MaxCommands
    /\ LET asked == page[g].command
           c == [asked EXCEPT !.no = Issued + 1,
                              !.pause = IF asked.type = "PAUSE" THEN NextPause ELSE @]
           row(live) == log \union {[command |-> c, live |-> live]}
       IN  /\ c.pause \in Pauses
           /\ \/ log' = row(TRUE) /\ toHost' = toHost \union {c} /\ UNCHANGED faults
              \/ Fault("lost") /\ log' \in {row(TRUE), row(FALSE)} /\ UNCHANGED toHost
              \/ Fault("unsure") /\ log' = row(FALSE) /\ toHost' = toHost \union {c}
    /\ page' = [page EXCEPT ![g].pc = "awaiting"]
    /\ UNCHANGED <<mes, device, sent, received, handler, torn>>

\* The watch sees the run in the status asked for, or 16 seconds pass.
StopWaiting(g) ==
    /\ page[g].pc = "awaiting"
    /\ page' = [page EXCEPT ![g] = NoPage]
    /\ UNCHANGED <<mes, log, host, received, handler, faults, torn>>

-----------------------------------------------------------------------------
(* The inspection during a pause, and the preparation to resume.            *)

\* Stock-in and stock-out of the trays at the appearance inspection, once a pause.
Inspect(p) ==
    /\ run = "PAUSED" /\ PauseOpen(p)
    /\ \/ steps[p] = 0 /\ trays \in {"chamber", "returned"} /\ trays' = "inspected"
       \/ steps[p] = Inspected /\ trays = "inspected" /\ trays' = "returned"
    /\ steps' = [steps EXCEPT ![p] = @ + 1]
    /\ UNCHANGED <<run, pause, shifts, log, host, received, handler, page, faults, torn>>

\* apply_salt_resume_preparation_operation: each step after the one before it.
\* Only the first looks at the trays, and it leaves their status as it is.
Prepare(p) ==
    /\ run = "PAUSED" /\ PauseOpen(p) /\ steps[p] \in Returned..Ready - 1
    /\ steps[p] = Returned => TraysBack(p)
    /\ steps' = [steps EXCEPT ![p] = @ + 1]
    /\ trays' = IF steps[p] = Returned THEN trays ELSE "preparing"
    /\ UNCHANGED <<run, pause, shifts, log, host, received, handler, page, faults, torn>>

-----------------------------------------------------------------------------
(* The upper computer.  It executes a command that fits its state and its   *)
(* pause, and confirms it; it drops any other.                              *)

Confirm(t, p, k) == sent' = sent \union {Command(Cardinality(sent) + 1, t, p, k)}

Fits(c) == IF c.type = "PAUSE" THEN device.state = "running"
                               ELSE device.state = "paused" /\ device.pause = c.pause

After == [PAUSE |-> "paused", RESUME |-> "running", STOP |-> "over"]

Execute(c) ==
    /\ toHost' = toHost \ {c}
    /\ IF Fits(c)
       THEN /\ device' = [state |-> After[c.type], pause |-> c.pause, kind |-> c.kind]
            /\ Confirm(c.type, c.pause, c.kind)
       ELSE UNCHANGED <<device, sent>>
    /\ UNCHANGED <<mes, log, received, handler, page, faults, torn>>

\* The experiment reaches its end.
EndByItself ==
    /\ device.state = "running"
    /\ device' = [device EXCEPT !.state = "over", !.kind = "completion"]
    /\ Confirm("END", 0, "completion")
    /\ UNCHANGED <<mes, log, toHost, received, handler, page, faults, torn>>

-----------------------------------------------------------------------------
(* process_laboratory_event.  The transition is committed first, in up to   *)
(* three transactions; then the message and the event are logged.           *)

Unlogged == sent \ received.messages
Goes(pc) == handler' = [handler EXCEPT !.pc = pc]
Takes(m, pc, k) == handler' = [pc |-> pc, message |-> m, kind |-> k]

\* Mutated: the status of the run is not looked at.
MayPauseAnyRun(m) == m.type = "PAUSE" /\ Live("PAUSE", m.pause) # {}

\* When mark_salt_run_paused accepts a pause: the first time of a running run, and
\* again of a paused one; pause_no is unique.
MayPause(m) ==
    /\ m.type = "PAUSE" /\ Live("PAUSE", m.pause) # {}
    /\ \/ run = "PAUSED" /\ pause[m.pause].status # "none"
       \/ run = "RUNNING" /\ pause[m.pause].status = "none"

\* When mark_salt_run_resumed accepts a resumption: validation on the trays as they
\* are now, whether or not the pause is already over.
MayResume(m) ==
    /\ m.type = "RESUME" /\ Live("RESUME", m.pause) # {} /\ ReadyToResume(m.pause)
    /\ pause[m.pause].status = "RESUMED" \/ (run = "PAUSED" /\ PauseOpen(m.pause))

\* Mutated: a pause that is stopped already is refused.
MayStopOnce(m) == m.type = "STOP" /\ Live("STOP", m.pause) # {} /\ PauseOpen(m.pause)

\* When mark_salt_run_stopped accepts a stop: of an open pause, and again.
MayStop(m) ==
    /\ m.type = "STOP" /\ Live("STOP", m.pause) # {}
    /\ pause[m.pause].status = "STOPPED" \/ PauseOpen(m.pause)

\* A confirmation is not taken for a duplicate and its transition is accepted.
Accepts(m) == m \notin received.messages /\ (MayPause(m) \/ MayResume(m) \/ MayStop(m) \/ m.type = "END")

\* mark_salt_run_paused.
Paused(m) ==
    /\ MayPause(m)
    /\ \/ pause[m.pause].status # "none" /\ UNCHANGED <<run, pause>>
       \/ /\ pause[m.pause].status = "none" /\ run' = "PAUSED"
          /\ pause' = [pause EXCEPT ![m.pause].status = "PAUSED"]
    /\ Takes(m, "log", "completion")
    /\ UNCHANGED shifts

\* Mutated: a pause that is resumed already shifts the end again.
ResumedAgain(m) ==
    /\ MayResume(m)
    /\ run' = "RUNNING"
    /\ pause' = [pause EXCEPT ![m.pause].status = "RESUMED"]
    /\ shifts' = [shifts EXCEPT !.run = @ + 1]
    /\ Takes(m, "samples", "completion")

\* mark_salt_run_resumed, up to its first commit.
Resumed(m) ==
    /\ MayResume(m)
    /\ \/ pause[m.pause].status = "RESUMED" /\ Takes(m, "samples_again", "completion")
          /\ UNCHANGED <<run, pause, shifts>>
       \/ /\ PauseOpen(m.pause) /\ run' = "RUNNING"
          /\ pause' = [pause EXCEPT ![m.pause].status = "RESUMED"]
          /\ shifts' = [shifts EXCEPT !.run = @ + 1]
          /\ Takes(m, "samples", "completion")

\* Mutated: a pause that is stopped already is taken for finished.
StoppedThenDone(m) ==
    /\ MayStop(m)
    /\ LET k == LatestOf(Live("STOP", m.pause)).kind
       IN  \/ pause[m.pause].status = "STOPPED" /\ Takes(m, "log", k) /\ UNCHANGED <<run, pause>>
           \/ /\ PauseOpen(m.pause)
              /\ pause' = [pause EXCEPT ![m.pause] = [status |-> "STOPPED", kind |-> k]]
              /\ run' = IF k = "abnormal" /\ run = "PAUSED" THEN "ABNORMAL" ELSE run
              /\ Takes(m, IF k = "abnormal" THEN "terminate" ELSE "complete", k)
    /\ UNCHANGED shifts

\* mark_salt_run_stopped, up to its first commit.  The kind is that of the latest
\* command of this pause; of a pause that is stopped already, that of its row.
Stopped(m) ==
    /\ MayStop(m)
    /\ LET k == LatestOf(Live("STOP", m.pause)).kind
           terminates == IF PauseOpen(m.pause) THEN k = "abnormal" ELSE pause[m.pause].kind = "abnormal"
           next == IF terminates THEN "terminate" ELSE IF k = "completion" THEN "complete" ELSE "log"
       IN  /\ \/ pause[m.pause].status = "STOPPED" /\ UNCHANGED <<run, pause>>
              \/ /\ PauseOpen(m.pause)
                 /\ pause' = [pause EXCEPT ![m.pause] = [status |-> "STOPPED", kind |-> k]]
                 /\ run' = IF k = "abnormal" /\ run = "PAUSED" THEN "ABNORMAL" ELSE run
           /\ Takes(m, next, k)
    /\ UNCHANGED shifts

\* A confirmation arrives, for the first time or again; one that is not accepted
\* raises, and leaves no trace.
Receive(m) ==
    /\ handler.pc = "idle" /\ Accepts(m)
    /\ \/ Paused(m) \/ Resumed(m) \/ Stopped(m)
       \/ m.type = "END" /\ Takes(m, "complete", "completion") /\ UNCHANGED <<run, pause, shifts>>
    /\ UNCHANGED <<steps, trays, log, host, received, page, faults, torn>>

\* apply_salt_resume_confirmation is written to the samples.
WriteSamples ==
    /\ handler.pc \in {"samples", "samples_again"}
    /\ trays' = "chamber"
    /\ Goes(IF handler.pc = "samples" THEN "cascade" ELSE "log")
    /\ UNCHANGED <<run, pause, steps, shifts, log, host, received, page, faults, torn>>

\* apply_run_schedule_cascade: the schedule ends when the run is planned to.
Cascade ==
    /\ handler.pc = "cascade"
    /\ shifts' = [shifts EXCEPT !.schedule = shifts.run]
    /\ Goes("log")
    /\ UNCHANGED <<run, pause, steps, trays, log, host, received, page, faults, torn>>

\* _mark_storage_run_abnormally_stopped.
Terminate ==
    /\ handler.pc = "terminate"
    /\ run' = "ABNORMAL" /\ trays' = "terminated"
    /\ Goes(IF handler.kind = "completion" THEN "complete" ELSE "log")
    /\ UNCHANGED <<pause, steps, shifts, log, host, received, page, faults, torn>>

\* mark_run_ended.
Complete ==
    /\ handler.pc = "complete"
    /\ run' = "COMPLETED" /\ trays' = "done"
    /\ Goes("log")
    /\ UNCHANGED <<pause, steps, shifts, log, host, received, page, faults, torn>>

\* record_message, and then record_event.
LogMessage ==
    /\ handler.pc = "log"
    /\ received' = [received EXCEPT !.messages = @ \union {handler.message}]
    /\ Goes("event")
    /\ UNCHANGED <<mes, log, host, page, faults, torn>>

LogEvent ==
    /\ handler.pc = "event"
    /\ received' = [received EXCEPT !.events = @ \union {<<handler.message.type, handler.message.pause>>}]
    /\ handler' = Idle
    /\ UNCHANGED <<mes, log, host, page, faults, torn>>

\* The process stops, or a transaction after the first raises.
Crash ==
    /\ handler.pc # "idle" /\ Fault("crash")
    /\ handler' = Idle
    /\ torn' = IF handler.pc \in {"samples", "samples_again", "cascade"} \/ (handler.pc = "log" /\ handler.message.type = "RESUME")
               THEN torn \union {handler.message.pause} ELSE torn
    /\ UNCHANGED <<mes, log, host, received, page>>

Next ==
    \/ \E g \in Pages : Ask(g) \/ Check(g) \/ Publish(g) \/ StopWaiting(g)
    \/ \E p \in Pauses : Inspect(p) \/ Prepare(p)
    \/ \E c \in toHost : Execute(c)
    \/ EndByItself
    \/ \E m \in Unlogged : Receive(m)
    \/ WriteSamples \/ Cascade \/ Terminate \/ Complete \/ LogMessage \/ LogEvent \/ Crash

SaltSpec == Init /\ [][Next]_vars
-----------------------------------------------------------------------------
(* Properties.                                                              *)

\* At most one pause is open.  A running run has none, and a paused run has one,
\* unless it has just been stopped and its completion is still to be written.
PauseMatchesRun ==
    LET open == {p \in Pauses : PauseOpen(p)} IN
    /\ Cardinality(open) <= 1
    /\ run = "RUNNING" => open = {}
    /\ run = "PAUSED" /\ open = {} => \E p \in Pauses : pause[p] = [status |-> "STOPPED", kind |-> "completion"]

\* Nothing is on its way and every confirmation is logged.
Quiet == toHost = {} /\ handler.pc = "idle" /\ Unlogged = {}

OneKindOfStop == \A c, d \in Commands : c.type = "STOP" /\ d.type = "STOP" /\ c.pause = d.pause => c.kind = d.kind

\* When nothing is on its way, MES and the upper computer agree whether the run
\* is running, paused or over, and on how it ended, whatever was lost, given up or
\* cut short before: only requests to stop in two ways set them apart.  (A command
\* that MES gave up leaves its confirmation unlogged, which is not quiet.)
QuietMeansAgreed ==
    Quiet /\ OneKindOfStop =>
        /\ device.state = "running" => run = "RUNNING"
        /\ device.state = "paused"  => run = "PAUSED" /\ PauseOpen(device.pause)
        /\ device.state = "over"    => run = (IF device.kind = "abnormal" THEN "ABNORMAL" ELSE "COMPLETED")

\* The transition a confirmation stands for is complete.
Applied(m) ==
    CASE m.type = "PAUSE"  -> pause[m.pause].status # "none"
      [] m.type = "RESUME" -> pause[m.pause].status = "RESUMED"
      [] m.type = "STOP"   -> pause[m.pause].status = "STOPPED" /\ run \in Over
      [] m.type = "END"    -> run \in Over

\* The first confirmation that is not applied is accepted whenever it comes, also
\* after a crash in the middle of it, as long as no later one overtook it, its
\* command is not given up, the run is not asked to stop in two ways at once, and
\* no earlier resumption was cut short (its confirmation moves the trays again).
NextIsAccepted ==
    handler.pc = "idle" /\ OneKindOfStop =>
    \A m \in sent :
        (m.type = "END" \/ Live(m.type, m.pause) # {}) /\ (\A n \in sent : Applied(n) <=> n.no < m.no)
        /\ torn \subseteq {m.pause}
        => Accepts(m)

\* The planned end is shifted once for each resumed pause, and the schedule with
\* it, unless a crash came between the two.
ShiftedOnce ==
    /\ shifts.run = Cardinality({p \in Pauses : pause[p].status = "RESUMED"})
    /\ handler.pc = "idle" /\ torn = {} => shifts.schedule = shifts.run

\* Once every confirmation is logged, the trays are where the status of the run
\* says, though the two are written in different transactions.
TraysFollowRun ==
    handler.pc = "idle" /\ Unlogged = {} /\ torn = {} =>
        /\ run = "RUNNING"   => trays = "chamber"
        /\ run = "COMPLETED" => trays = "done"
        /\ run = "ABNORMAL"  => trays = "terminated"

\* A transition that was not logged can be made again with the same message, as
\* the comment above it asks ("A failed transition must remain retryable with the
\* same device message_id"): also a resumption that failed between its commits.
InterruptedIsRetryable ==
    handler.pc = "idle" =>
    \A m \in Unlogged : m.type = "RESUME" /\ m.pause \in torn /\ Live(m.type, m.pause) # {} => Accepts(m)
=============================================================================
