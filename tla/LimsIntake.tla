------------------------------ MODULE LimsIntake ------------------------------
(***************************************************************************)
(* Task requests LIMS sends over RabbitMQ: the consumers of the intake     *)
(* queue (LimsRabbitRuntime), the intakes and receipts they store, and the *)
(* acceptance of an intake as a task by an administrator.                  *)
(*                                                                         *)
(* The receipts are the events of mes.lims_outbox, delivered as LimsOutbox *)
(* says.  Several copies of a message may be handled at a time: the broker *)
(* redelivers after a lost connection while the old handler still runs,    *)
(* and LIMS replays what the ledger of received messages misses.           *)
(***************************************************************************)
EXTENDS Integers, FiniteSets

CONSTANTS
    Messages,       \* message_id of the envelopes
    Requests,       \* lims_request_id
    Codes,          \* task codes
    Carried,        \* the request each message names: the possible functions
    NoRequest,      \* in such a function: the message names no request
    Unreadable,     \* in such a function: the envelope cannot be decoded
    CodeOf,         \* the task code a message asks for
    Invalid,        \* messages whose payload is refused by validation
    Handlers,       \* concurrent deliveries (prefetch)
    DeliveryLimit,  \* x-delivery-limit of the quorum queue
    MaxCrashes,     \* bound: crashes of the process
    Guards,         \* possible values of LIMS_COMMUNICATION_ENABLED
    Faults

ASSUME MessagesAssumption ==
    /\ Carried \subseteq [Messages -> Requests \union {NoRequest, Unreadable}]
    /\ NoRequest \notin Requests /\ Unreadable \notin Requests \union {NoRequest}
    /\ CodeOf \in [Messages -> Codes] /\ Invalid \subseteq Messages
ASSUME HandlersAssumption == IsFiniteSet(Handlers)
ASSUME DeliveryLimitAssumption == DeliveryLimit \in Nat
ASSUME CrashesAssumption == MaxCrashes \in Nat
ASSUME GuardAssumption == Guards \subseteq BOOLEAN
ASSUME IntakeFaultsAssumption == Faults \subseteq {"db_error", "reconnect"}

VARIABLES
    queue,     \* [Messages -> Nat]: copies ready in the intake queue
    returned,  \* [Messages -> Nat]: how often the broker took the message back
    sent,      \* messages LIMS has published
    dead,      \* messages in the dead-letter queue
    handler,   \* _handle_intake_message, per delivery
    inbox,     \* mes.lims_inbox
    intakes,   \* mes.external_task_intakes: status and code per request
    tasks,     \* mes.tasks: codes of the tasks made from intakes
    receipts,  \* receipts in the outbox or delivered, by message or accepted request
    ledger,    \* lims.communication.received: outcome per message
    accept,    \* POST /tasks/external-intakes/{intake_id}/accept, between its writes
    crashes,   \* how often the process has died, up to MaxCrashes
    setting    \* constant: the guard (with it the ledger is kept and LIMS replays), and
               \* the request each message names

stored == <<inbox, intakes, tasks, receipts, ledger>>
broker == <<queue, returned, sent, dead>>
vars   == <<broker, handler, stored, accept, crashes>>

Guard     == setting.guard
RequestOf == setting.requestOf

Named(m)    == RequestOf[m] \in Requests
Readable(m) == RequestOf[m] # Unreadable

None  == [status |-> "none"]
Free  == [pc |-> "idle"]
Busy(pc, m, connected) == [pc |-> pc, msg |-> m, connected |-> connected]

Init ==
    /\ queue = [m \in Messages |-> 0] /\ returned = [m \in Messages |-> 0]
    /\ sent = {} /\ dead = {}
    /\ handler = [h \in Handlers |-> Free]
    /\ inbox = {} /\ intakes = [q \in Requests |-> None] /\ tasks = {}
    /\ receipts = {} /\ ledger = [m \in Messages |-> "none"]
    /\ accept = "none" /\ crashes = 0
    /\ setting \in [guard : Guards, requestOf : Carried]

-----------------------------------------------------------------------------
(* LIMS and the broker.                                                     *)

Send(m) ==
    /\ m \notin sent
    /\ sent' = sent \union {m}
    /\ queue' = [queue EXCEPT ![m] = @ + 1]
    /\ UNCHANGED <<returned, dead, handler, stored, accept, crashes>>

InFlight(m) == queue[m] + Cardinality({h \in Handlers : handler[h] # Free /\ handler[h].msg = m})

\* LIMS replays a message that the reconciled ledger misses, with its id; the first
\* copy may still be in the queue or in a handler (at most one replay in flight).
Replay(m) ==
    /\ Guard /\ m \in sent /\ ledger[m] = "none" /\ InFlight(m) < 2
    /\ queue' = [queue EXCEPT ![m] = @ + 1]
    /\ returned' = [returned EXCEPT ![m] = 0]
    /\ UNCHANGED <<sent, dead, handler, stored, accept, crashes>>

Goto(h, pc) == handler' = [handler EXCEPT ![h].pc = pc]

\* The broker takes messages back: to the queue, or beyond the limit to the dead
\* letters.
Requeue(ms) ==
    /\ returned' = [m \in Messages |-> IF m \in ms THEN returned[m] + 1 ELSE returned[m]]
    /\ queue' = [m \in Messages |-> IF m \in ms /\ returned[m] < DeliveryLimit
                                   THEN queue[m] + 1 ELSE queue[m]]
    /\ dead' = dead \union {m \in ms : returned[m] >= DeliveryLimit}
    /\ UNCHANGED sent

\* The connection of a delivery is lost: the broker takes the message back, the
\* handler runs on.
Reconnect(h) ==
    /\ "reconnect" \in Faults /\ handler[h] # Free /\ handler[h].connected
    /\ InFlight(handler[h].msg) < 2
    /\ handler' = [handler EXCEPT ![h].connected = FALSE]
    /\ Requeue({handler[h].msg})
    /\ UNCHANGED <<stored, accept, crashes>>

-----------------------------------------------------------------------------
(* _handle_intake_message.                                                  *)

\* _decode_envelope comes first: what it refuses goes on with an empty envelope.
FirstStep(m) == IF ~Readable(m) THEN "publish_failure" ELSE IF Guard THEN "check" ELSE "store"

Deliver(h, m) ==
    /\ handler[h] = Free /\ queue[m] > 0
    /\ queue' = [queue EXCEPT ![m] = @ - 1]
    /\ handler' = [handler EXCEPT ![h] = Busy(FirstStep(m), m, TRUE)]
    /\ UNCHANGED <<returned, sent, dead, stored, accept, crashes>>

\* The ledger is read before the intake is stored.
Check(h) ==
    /\ handler[h].pc = "check"
    /\ Goto(h, IF ledger[handler[h].msg] # "none" THEN "ack" ELSE "store")
    /\ UNCHANGED <<broker, stored, accept, crashes>>

\* The cases of store_external_task_intake, in the order of the code.  An intake is
\* looked up by the request the message names, also when the inbox has the message.
Existing(m)  == Named(m) /\ intakes[RequestOf[m]] # None
Known(m)     == m \in inbox /\ Existing(m)
CodeTaken(m) ==
    \/ CodeOf[m] \in tasks
    \/ \E q \in Requests : intakes[q] # None /\ intakes[q].code = CodeOf[m]

Receipt(m, status) == [msg |-> m, status |-> status]

\* Mutated: the code of a known request counts as taken.
RefusedAgain(m) == m \in Invalid \/ CodeTaken(m)

\* Mutated: the code is only looked up among the tasks.
RefusedByTask(m) ==
    /\ ~Known(m)
    /\ \/ m \in Invalid
       \/ Existing(m) /\ intakes[RequestOf[m]].code # CodeOf[m]
       \/ ~Existing(m) /\ CodeOf[m] \in tasks

Refused(m) ==
    /\ ~Known(m)
    /\ \/ m \in Invalid
       \/ Existing(m) /\ intakes[RequestOf[m]].code # CodeOf[m]
       \/ ~Existing(m) /\ CodeTaken(m)

\* The id of the intake of m: its request, or one that is generated.
IntakeId(m, q) ==
    IF Named(m) THEN q = RequestOf[m]
    ELSE intakes[q] = None /\ \A n \in Messages : q # RequestOf[n]

\* store_external_task_intake under the intake lock: intake, inbox and receipt in one
\* transaction; a request that is known is acknowledged again.
Store(h) ==
    LET m == handler[h].msg IN
    /\ handler[h].pc = "store" /\ ~Refused(m)
    /\ inbox' = inbox \union {m}
    /\ IF Existing(m) THEN UNCHANGED intakes
       ELSE \E q \in Requests :
              /\ IntakeId(m, q)
              /\ intakes' = [intakes EXCEPT ![q] = [status |-> "pending", code |-> CodeOf[m]]]
    /\ receipts' = IF Known(m) THEN receipts ELSE receipts \union {Receipt(m, "received")}
    /\ Goto(h, IF Guard THEN "record" ELSE "ack")
    /\ UNCHANGED <<broker, tasks, ledger, accept, crashes>>

\* HTTPException or ValueError.
Refuse(h) ==
    /\ handler[h].pc = "store" /\ Refused(handler[h].msg)
    /\ Goto(h, "publish_failure")
    /\ UNCHANGED <<broker, stored, accept, crashes>>

\* Mutated: the ledger is written and the failure receipt is left to the guard.
PublishNoFailure(h) ==
    /\ handler[h].pc = "publish_failure"
    /\ Goto(h, IF Guard /\ Readable(handler[h].msg) THEN "record_failure" ELSE "reject")
    /\ UNCHANGED <<broker, stored, accept, crashes>>

\* _publish_failure: a receipt in the outbox. An empty envelope gets no ledger row.
PublishFailure(h) ==
    /\ handler[h].pc = "publish_failure"
    /\ receipts' = receipts \union {Receipt(handler[h].msg, "failed")}
    /\ Goto(h, IF Guard /\ Readable(handler[h].msg) THEN "record_failure" ELSE "reject")
    /\ UNCHANGED <<broker, inbox, intakes, tasks, ledger, accept, crashes>>


\* The ledger keeps the first outcome of a message.
Record(h) ==
    /\ handler[h].pc \in {"record", "record_failure"}
    /\ ledger' = [ledger EXCEPT ![handler[h].msg] =
                     IF @ # "none" THEN @
                     ELSE IF handler[h].pc = "record" THEN "received" ELSE "failed"]
    /\ Goto(h, IF handler[h].pc = "record" THEN "ack" ELSE "reject")
    /\ UNCHANGED <<broker, inbox, intakes, tasks, receipts, accept, crashes>>

\* Mutated: a failed delivery is dropped.
NackDiscard(h) ==
    /\ "db_error" \in Faults
    /\ handler[h].pc \in {"check", "store", "record", "publish_failure", "record_failure"}
    /\ handler' = [handler EXCEPT ![h] = Free]
    /\ UNCHANGED <<broker, stored, accept, crashes>>

\* A database error in any of these steps: nack, and the message is taken back.
Nack(h) ==
    /\ "db_error" \in Faults
    /\ handler[h].pc \in {"check", "store", "record", "publish_failure", "record_failure"}
    /\ IF handler[h].connected THEN Requeue({handler[h].msg}) ELSE UNCHANGED broker
    /\ handler' = [handler EXCEPT ![h] = Free]
    /\ UNCHANGED <<stored, accept, crashes>>

\* message.ack, or message.reject to the dead letters; nothing for a delivery whose
\* connection is gone.
Settle(h) ==
    /\ handler[h].pc \in {"ack", "reject"}
    /\ dead' = IF handler[h].pc = "reject" /\ handler[h].connected
               THEN dead \union {handler[h].msg} ELSE dead
    /\ handler' = [handler EXCEPT ![h] = Free]
    /\ UNCHANGED <<queue, returned, sent, stored, accept, crashes>>

-----------------------------------------------------------------------------
(* accept_external_task_intake, under the intake lock.                      *)

\* Mutated: the intake is marked before its task is committed.
AcceptIntakeFirst(q) ==
    /\ accept = "none"
    /\ intakes[q] # None /\ intakes[q].status = "pending" /\ intakes[q].code \notin tasks
    /\ intakes' = [intakes EXCEPT ![q].status = "accepted"]
    /\ accept' = q
    /\ UNCHANGED <<broker, handler, inbox, tasks, receipts, ledger, crashes>>

\* write_task_scope: the task is committed first.  A code that already has a task is
\* refused (HTTP 400).
CreateTask(q) ==
    /\ accept = "none"
    /\ intakes[q] # None /\ intakes[q].status = "pending" /\ intakes[q].code \notin tasks
    /\ tasks' = tasks \union {intakes[q].code}
    /\ accept' = q
    /\ UNCHANGED <<broker, handler, inbox, intakes, receipts, ledger, crashes>>

\* write_many: the accepted intake and its receipt.
MarkAccepted ==
    /\ accept # "none"
    /\ intakes' = [intakes EXCEPT ![accept].status = "accepted"]
    /\ receipts' = receipts \union {[request |-> accept, status |-> "accepted"]}
    /\ accept' = "none"
    /\ UNCHANGED <<broker, handler, inbox, tasks, ledger, crashes>>

\* write_many fails (HTTP 500): the task stays.
MarkAcceptedFails ==
    /\ "db_error" \in Faults /\ accept # "none"
    /\ accept' = "none"
    /\ UNCHANGED <<broker, handler, stored, crashes>>

\* The process dies: the broker takes the unacknowledged messages back.
Crash ==
    /\ crashes < MaxCrashes
    /\ accept # "none" \/ \E h \in Handlers : handler[h] # Free
    /\ crashes' = crashes + 1
    /\ Requeue({handler[h].msg : h \in {g \in Handlers : handler[g] # Free /\ handler[g].connected}})
    /\ handler' = [h \in Handlers |-> Free]
    /\ accept' = "none"
    /\ UNCHANGED stored

\* A handler holds the intake lock while it stores; acceptance holds it over both writes.
StoreOrRefuse(h) == accept = "none" /\ (Store(h) \/ Refuse(h))
PublishLocked(h) == accept = "none" /\ PublishFailure(h)

Handle(h) == Check(h) \/ StoreOrRefuse(h) \/ PublishLocked(h) \/ Record(h) \/ Settle(h)

Next ==
    \/ \E m \in Messages : Send(m) \/ Replay(m)
    \/ \E h \in Handlers : \/ Handle(h) \/ Nack(h) \/ Reconnect(h)
                           \/ \E m \in Messages : Deliver(h, m)
    \/ \E q \in Requests : CreateTask(q)
    \/ MarkAccepted \/ MarkAcceptedFails
    \/ Crash

Spec == Init /\ [][Next /\ UNCHANGED setting]_<<vars, setting>>

\* Handlers run on and the database answers in the end, the broker delivers in turn,
\* LIMS replays what the ledger misses, and an acceptance that has begun ends.  A
\* database error may recur, and other messages may take the handlers again and again,
\* hence strong fairness of the steps they delay.
FairSpec ==
    /\ Spec
    /\ \A h \in Handlers :
         /\ SF_vars(Check(h)) /\ SF_vars(StoreOrRefuse(h)) /\ SF_vars(Record(h))
         /\ WF_vars(Settle(h))
    /\ \A m \in Messages :
         /\ WF_vars(Replay(m)) /\ SF_vars(\E h \in Handlers : Deliver(h, m))
         /\ SF_vars(\E h \in Handlers : handler[h] # Free /\ handler[h].msg = m /\ PublishLocked(h))
    /\ WF_vars(MarkAccepted \/ MarkAcceptedFails)

-----------------------------------------------------------------------------
(* Properties.                                                              *)

\* What intakes, receipts and handlers can be (the types are TypeInv of the proofs).
IntakeOf == [status : {"pending", "accepted"}, code : Codes] \union {None}
ReceiptOf ==
    [msg : Messages, status : {"received", "failed"}]
        \union [request : Requests, status : {"accepted"}]
Pcs == {"check", "store", "record", "publish_failure", "record_failure", "ack", "reject"}

\* No two requests hold the same task code, whatever copies of whatever messages are
\* handled at the same time (ensure_unique_external_intake, task_code_exists).
IntakeCodesUnique ==
    \A q, r \in Requests :
        q # r /\ intakes[q] # None /\ intakes[r] # None => intakes[q].code # intakes[r].code

Answered(m) == \E status \in {"received", "failed"} : Receipt(m, status) \in receipts

\* "Do not discard the intake before its failure receipt is durable": a message that
\* has left the queue and the handlers has its receipt, unless the broker gave it up
\* at the delivery limit; in particular no crash and no error between the receipt, the
\* ledger and the acknowledgement loses it.
NoSilentDiscard ==
    \A m \in sent : InFlight(m) = 0 => Answered(m) \/ returned[m] > DeliveryLimit

\* An intake of m: of the request it names, or of one with its task code.
HasIntake(m) ==
    \E q \in Requests : /\ intakes[q] # None /\ intakes[q].code = CodeOf[m]
                        /\ Named(m) => q = RequestOf[m]

\* What reconciliation tells LIMS is true: a message recorded as received has its
\* intake and both receipts exist as recorded, so that nothing is withheld from the
\* replay on the strength of a false entry.
LedgerTruthful ==
    \A m \in Messages :
        /\ ledger[m] = "received" => HasIntake(m) /\ Receipt(m, "received") \in receipts
        /\ ledger[m] = "failed" => Receipt(m, "failed") \in receipts

\* A message that names its request, or cannot be read, has one outcome: LIMS never gets
\* both a received and a failed receipt for it, although a task of the same code may
\* appear between two of its deliveries. A message that names no request may get both:
\* its redelivery finds its own intake only by the task code, which refuses it.
OneOutcome ==
    \A m \in Messages :
        RequestOf[m] # NoRequest =>
            ~({Receipt(m, "received"), Receipt(m, "failed")} \subseteq receipts)

\* An accepted intake has its task and its receipt, and only accepted intakes have an
\* accepted receipt: no crash between the two transactions reports a task that is not there.
AcceptedHasTask ==
    \A q \in Requests :
        LET reported == [request |-> q, status |-> "accepted"] \in receipts
            accepted == intakes[q] # None /\ intakes[q].status = "accepted"
        IN reported = accepted /\ (accepted => intakes[q].code \in tasks)

===============================================================================
