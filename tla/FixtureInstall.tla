---------------------------- MODULE FixtureInstall ----------------------------
(***************************************************************************)
(* The fixture installation of the trays of one experiment in a laboratory *)
(* with an upper computer ("host"): the page compares trays, asks the host *)
(* to fit them, and offers the READY button once the host's FIXTURE_READY  *)
(* has marked them.  The operator may ask again and may withdraw trays.    *)
(*                                                                         *)
(* The schedule of the trays does not change meanwhile, and a click and    *)
(* the page's first call are one step (what a page shows late is in        *)
(* PageRefresh).  Laboratories without a host are not modelled here.       *)
(***************************************************************************)
EXTENDS Integers, FiniteSets

CONSTANTS
    Trays,       \* tray_no of the trays, in their order
    Installs,    \* fixture_install_id; one no part of the system refers to is used again
    IdKinds,     \* message_id: "payload" from the host, "generated" by MES
    MaxTroubles  \* bound on faults, impatient repetitions and withdrawals together

ASSUME TraysAssumption == Trays \subseteq Int /\ IsFiniteSet(Trays) /\ Trays # {}
ASSUME InstallsAssumption == Installs \subseteq Nat \ {0}
ASSUME IdKindsAssumption == IdKinds \subseteq {"payload", "generated"}
ASSUME MaxTroublesAssumption == MaxTroubles \in Nat

VARIABLES
    tray,      \* status of the trays in the laboratory's flow
    mark,      \* fixtureReady of the trays
    named,     \* tray_codes of an installation
    rows,      \* biz_fixture_install_pending.status, per installation and tray
    request,   \* POST /mq/laboratory/fixture-install of an installation
    commands,  \* INSTALL_FIXTURE commands the host has not carried out
    answers,   \* FIXTURE_READY events on their way
    logged,    \* keys in biz_mq_message_log that can still match a new message
    handler,   \* the MQTT subscriber thread, inside process_laboratory_event
    fitted,    \* trays in the laboratory on which the host has fitted the fixture
    troubles,
    idKind,    \* constant: who makes the message_id
    markedBy,  \* history: the installation whose answer marked the tray last, or 0
    overtaken  \* history: a tray was withdrawn while this installation was open

flow    == <<tray, mark, markedBy>>
tables  == <<named, rows, logged>>
history == <<fitted, overtaken>>
vars    == <<flow, tables, request, commands, answers, handler, history, troubles>>

Statuses == {"outside", "compared", "installing", "ready"}
RowStatuses == {"none", "PENDING", "READY", "SUPERSEDED", "FAILED"}

In(status) == {t \in Trays : tray[t] = status}

\* first_text(payload, "message_id") or generated_message_id(type, lab, second).
Key(i) == IF idKind = "payload" THEN i ELSE 0

Idle == [pc |-> "idle", install |-> 0, apply |-> FALSE]

Init ==
    /\ tray = [t \in Trays |-> "outside"] /\ mark = [t \in Trays |-> FALSE]
    /\ named = [i \in Installs |-> {}]
    /\ rows = [i \in Installs |-> [t \in Trays |-> "none"]]
    /\ request = [i \in Installs |-> "idle"]
    /\ commands = {} /\ answers = {} /\ logged = {}
    /\ handler = Idle
    /\ fitted = {} /\ troubles = 0
    /\ idKind \in IdKinds
    /\ markedBy = [t \in Trays |-> 0] /\ overtaken = {}

Trouble == troubles < MaxTroubles /\ troubles' = troubles + 1

\* The command, its answer or its processing is still to come or going on.
Open(i) ==
    \/ request[i] # "idle" \/ i \in commands \/ i \in answers
    \/ handler.pc # "idle" /\ handler.install = i

\* generateFixtureInstallId: an id nothing refers to any more.
Unused(i) == ~Open(i) /\ \A t \in Trays : markedBy[t] # i
Fresh(i)  == Unused(i) /\ \A j \in Installs : j < i => ~Unused(j)

-----------------------------------------------------------------------------
(* The page and POST /laboratory/operations.                                *)

\* apply_laboratory_task_operation for "compare", "install" and "ready": the trays it
\* names get the status, whatever it was, and lose the mark.
Move(ts, status) ==
    /\ tray' = [t \in Trays |-> IF t \in ts THEN status ELSE tray[t]]
    /\ mark' = [t \in Trays |-> mark[t] /\ t \notin ts]

\* canCompare: not while a tray is installed or ready.
Compare(ts) ==
    /\ ts # {} /\ ts \subseteq In("outside")
    /\ In("installing") = {} /\ In("ready") = {}
    /\ Move(ts, "compared")
    /\ UNCHANGED <<markedBy, tables, request, commands, answers, handler, history, troubles>>

\* buildFixtureInstallPayload, then the POST is on its way.
Ask(i, ts) ==
    /\ Fresh(i)
    /\ named' = [named EXCEPT ![i] = ts]
    /\ rows' = [rows EXCEPT ![i] = [t \in Trays |-> "none"]]
    /\ logged' = logged \ {i}
    /\ request' = [request EXCEPT ![i] = "register"]
    /\ overtaken' = {p \in overtaken : p[1] # i}
    /\ UNCHANGED <<commands, answers, handler, fitted>>

\* confirmInstall of compared trays: the operation "install" first.
Install(i) ==
    /\ In("compared") # {}
    /\ Ask(i, In("compared"))
    /\ Move(In("compared"), "installing")
    /\ markedBy' = [t \in Trays |-> IF t \in In("compared") THEN 0 ELSE markedBy[t]]
    /\ UNCHANGED troubles

FixtureReadyDone == In("installing") # {} /\ \A t \in In("installing") : mark[t]

\* Mutated: the page offers the button only when no installation is pending.
CanResendOnce ==
    /\ In("installing") # {} /\ ~FixtureReadyDone /\ In("compared") = {}
    /\ \A i \in Installs, t \in Trays : rows[i][t] # "PENDING"

\* canResendFixtureInstall, and not canInstallSample.
CanResend == In("installing") # {} /\ ~FixtureReadyDone /\ In("compared") = {}

\* confirmInstall again, for all installed trays with a new id: when nothing is on its
\* way any more, or impatiently.
Resend(i) == CanResend /\ Ask(i, In("installing")) /\ UNCHANGED flow

Repeat(i)            == Resend(i) /\ (\A j \in Installs : ~Open(j)) /\ UNCHANGED troubles
RepeatImpatiently(i) == Resend(i) /\ (\E j \in Installs : Open(j)) /\ Trouble

\* Mutated: one marked tray unlocks the button.
ConfirmReadyAny ==
    /\ \E t \in In("installing") : mark[t]
    /\ Move(In("installing"), "ready")
    /\ UNCHANGED <<markedBy, tables, request, commands, answers, handler, history, troubles>>

\* canMarkReady, and the operation "ready" for the installed trays.
ConfirmReady ==
    /\ FixtureReadyDone
    /\ Move(In("installing"), "ready")
    /\ UNCHANGED <<markedBy, tables, request, commands, answers, handler, history, troubles>>

\* withdraw-current: the trays go back to where they came from without the mark; the
\* installations that name them are not touched.
Withdraw(ts) ==
    /\ Trouble
    /\ ts # {} /\ ts \intersect In("outside") = {}
    /\ Move(ts, "outside")
    /\ markedBy' = [t \in Trays |-> IF t \in ts THEN 0 ELSE markedBy[t]]
    /\ fitted' = fitted \ ts
    /\ overtaken' = overtaken \union {p \in Installs \X ts : Open(p[1]) /\ p[2] \in named[p[1]]}
    /\ UNCHANGED <<tables, request, commands, answers, handler>>

-----------------------------------------------------------------------------
(* POST /mq/laboratory/fixture-install.                                     *)

Serve(i, phase) == request' = [request EXCEPT ![i] = phase]

\* register_pending_fixture_installation: one transaction.
Register(i) ==
    /\ request[i] = "register"
    /\ rows' = [j \in Installs |-> [t \in Trays |->
                  IF t \notin named[i] THEN rows[j][t]
                  ELSE IF j = i THEN "PENDING"
                  ELSE IF rows[j][t] \in {"PENDING", "READY"} THEN "SUPERSEDED"
                  ELSE rows[j][t]]]
    /\ Serve(i, "publish")
    /\ UNCHANGED <<flow, named, logged, commands, answers, handler, history, troubles>>

\* HTTP 503 before anything is sent.
RegisterFails(i) ==
    /\ Trouble /\ request[i] = "register"
    /\ Serve(i, "idle")
    /\ UNCHANGED <<flow, tables, commands, answers, handler, history>>

Publish(i) ==
    /\ request[i] = "publish"
    /\ commands' = commands \union {i}
    /\ Serve(i, "idle")
    /\ UNCHANGED <<flow, tables, answers, handler, history, troubles>>

\* An error, or no PUBACK in time: then the broker may have the command all the same.
PublishNotConfirmed(i) ==
    /\ Trouble /\ request[i] = "publish"
    /\ commands' \in {commands, commands \union {i}}
    /\ Serve(i, "fail")
    /\ UNCHANGED <<flow, tables, answers, handler, history>>

\* Rows of the installation that are still pending change to the status.
Conclude(i, status) ==
    rows' = [rows EXCEPT ![i] = [t \in Trays |->
                IF rows[i][t] = "PENDING" THEN status ELSE rows[i][t]]]

\* mark_fixture_installation_failed.
MarkFailed(i) ==
    /\ request[i] = "fail"
    /\ Conclude(i, "FAILED")
    /\ Serve(i, "idle")
    /\ UNCHANGED <<flow, named, logged, commands, answers, handler, history, troubles>>

-----------------------------------------------------------------------------
(* The host and the broker.                                                 *)

\* The host fits the fixtures on the trays of the command that are there, and reports.
HostInstalls(i) ==
    /\ i \in commands
    /\ commands' = commands \ {i}
    /\ answers' = answers \union {i}
    /\ fitted' = fitted \union (named[i] \ In("outside"))
    /\ UNCHANGED <<flow, tables, request, handler, overtaken, troubles>>

\* The event is published while the clean-session subscriber is away.
Lose(i) ==
    /\ Trouble /\ i \in answers
    /\ answers' = answers \ {i}
    /\ UNCHANGED <<flow, tables, request, commands, handler, history>>

-----------------------------------------------------------------------------
(* process_laboratory_event for FIXTURE_READY.                              *)

\* The subscriber takes the event; the broker may deliver it once more.
Deliver(i) ==
    /\ handler = Idle /\ i \in answers
    /\ \/ answers' = answers \ {i} /\ UNCHANGED troubles
       \/ Trouble /\ UNCHANGED answers
    /\ UNCHANGED <<flow, tables, request, commands, history>>

\* find_fixture_installation reads the rows by tray_no and takes the first one's status.
StatusOf(i) ==
    rows[i][CHOOSE t \in named[i] : \A u \in named[i] : t <= u]

\* DUPLICATE, or REJECTED with FIXTURE_INSTALL_ID_INACTIVE; nothing is logged.
Refuse(i) ==
    /\ Deliver(i)
    /\ Key(i) \in logged \/ StatusOf(i) \notin {"PENDING", "READY"}
    /\ UNCHANGED handler

Receive(i) ==
    /\ Deliver(i)
    /\ Key(i) \notin logged /\ StatusOf(i) \in {"PENDING", "READY"}
    /\ handler' = [pc |-> "log", install |-> i, apply |-> StatusOf(i) = "PENDING"]

\* record_message and record_event: the message is accepted before it is applied.
Log ==
    /\ handler.pc = "log"
    /\ logged' = logged \union {Key(handler.install)}
    /\ handler' = IF handler.apply THEN [handler EXCEPT !.pc = "apply"] ELSE Idle
    /\ UNCHANGED <<flow, named, rows, request, commands, answers, history, troubles>>

\* apply_pending_fixture_ready: the trays in installation are marked; without any the
\* ValueError ends the processing.
Apply ==
    /\ handler.pc = "apply"
    /\ LET i  == handler.install
           ts == named[i] \intersect In("installing")
       IN  /\ mark' = [t \in Trays |-> mark[t] \/ t \in ts]
           /\ markedBy' = [t \in Trays |-> IF t \in ts THEN i ELSE markedBy[t]]
           /\ handler' = IF ts = {} THEN Idle ELSE [handler EXCEPT !.pc = "conclude"]
    /\ UNCHANGED <<tray, tables, request, commands, answers, history, troubles>>

\* mark_fixture_installation_ready.
MarkReady ==
    /\ handler.pc = "conclude"
    /\ Conclude(handler.install, "READY")
    /\ handler' = Idle
    /\ UNCHANGED <<flow, named, logged, request, commands, answers, history, troubles>>

\* now_iso() moves to the next second: generated ids are new.
NextSecond ==
    /\ idKind = "generated" /\ handler = Idle /\ logged # {}
    /\ logged' = {}
    /\ UNCHANGED <<flow, named, rows, request, commands, answers, handler, history, troubles>>

\* The API process dies: what its threads were doing is gone, the database stays.
Crash ==
    /\ Trouble
    /\ handler # Idle \/ \E i \in Installs : request[i] # "idle"
    /\ handler' = Idle
    /\ request' = [i \in Installs |-> "idle"]
    /\ UNCHANGED <<flow, tables, commands, answers, history>>

-----------------------------------------------------------------------------
Subscriber == Log \/ Apply \/ MarkReady

Next ==
    \/ \E ts \in SUBSET Trays : Compare(ts) \/ Withdraw(ts)
    \/ ConfirmReady
    \/ \E i \in Installs : \/ Install(i) \/ Repeat(i) \/ RepeatImpatiently(i)
                           \/ Register(i) \/ RegisterFails(i)
                           \/ Publish(i) \/ PublishNotConfirmed(i) \/ MarkFailed(i)
                           \/ HostInstalls(i) \/ Lose(i) \/ Refuse(i) \/ Receive(i)
    \/ Subscriber
    \/ NextSecond
    \/ Crash

Spec == Init /\ [][Next /\ UNCHANGED idKind]_<<vars, idKind>>

\* The operator installs what is compared, and asks again when nothing came; the
\* threads run, the host carries commands out, and the broker delivers.
FairSpec ==
    /\ Spec
    /\ WF_vars(\E i \in Installs : Install(i))
    /\ WF_vars(\E i \in Installs : Repeat(i))
    /\ \A i \in Installs :
         /\ WF_vars(Register(i) \/ Publish(i) \/ MarkFailed(i))
         /\ WF_vars(HostInstalls(i)) /\ WF_vars(Refuse(i) \/ Receive(i))
    /\ WF_vars(Subscriber) /\ WF_vars(NextSecond)

-----------------------------------------------------------------------------
(* Properties.                                                              *)

\* The READY gate: a tray that is marked, or confirmed as ready, carries a fixture,
\* through repeated, lost and late answers, crashes and failed commands.  One thing can
\* break it: a tray withdrawn while an installation that names it is open, as nothing
\* closes that installation, and its late answer marks the tray when it is back.
MarkedIsFitted ==
    \A t \in Trays :
        mark[t] \/ tray[t] = "ready" => t \in fitted \/ <<markedBy[t], t>> \in overtaken

\* An installed tray is marked in the end, or withdrawn: an answer that a crash between
\* the log and its application swallows, that is lost, refused as superseded or failed,
\* or taken for a duplicate of another of the same second, is made good by asking again.
EveryInstallAnswered ==
    \A t \in Trays : tray[t] = "installing" ~> mark[t] \/ tray[t] # "installing"
===============================================================================
