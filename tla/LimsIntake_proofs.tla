-------------------------- MODULE LimsIntake_proofs --------------------------
(***************************************************************************)
(* Proofs about LimsIntake: task codes are unique among intakes, a message *)
(* that names its request or cannot be read has one outcome, the ledger is *)
(* true, accepted means a task, and no message is discarded without a      *)
(* receipt below the delivery limit.                                       *)
(***************************************************************************)
EXTENDS LimsIntake, FiniteSetTheorems, TLAPS

Delivery == {Free} \union [pc : Pcs, msg : Messages, connected : BOOLEAN]

\* The types the argument needs.
TypeInv ==
    /\ setting \in [guard : Guards, requestOf : Carried]
    /\ queue \in [Messages -> Nat] /\ returned \in [Messages -> Nat] /\ sent \subseteq Messages
    /\ handler \in [Handlers -> Delivery]
    /\ inbox \subseteq Messages /\ intakes \in [Requests -> IntakeOf] /\ tasks \subseteq Codes
    /\ ledger \in [Messages -> {"none", "received", "failed"}]
    /\ accept \in Requests \union {"none"}

\* A message in the inbox could be read and has its intake and its receipt.
InboxInv ==
    \A m \in Messages :
        /\ m \in inbox => Readable(m) /\ HasIntake(m)
        /\ m \in inbox <=> Receipt(m, "received") \in receipts

\* A message with a failure receipt could not be read, or is refused from then on.
Hopeless(m) == Readable(m) => Refused(m)
FailedInv   == \A m \in Messages : Receipt(m, "failed") \in receipts => Hopeless(m)

\* Between the two transactions of an acceptance the task is there.
AcceptInv ==
    accept # "none" => intakes[accept] # None /\ intakes[accept].code \in tasks

StoreInv == InboxInv /\ FailedInv /\ AcceptInv /\ IntakeCodesUnique /\ LedgerTruthful /\ AcceptedHasTask

\* What a handler relies on in each of its steps, whatever the others do.
GoodDelivery(b) ==
    /\ b \in Delivery
    /\ b.pc \in {"check", "store"} => Readable(b.msg)
    /\ b.pc = "record" => b.msg \in inbox
    /\ b.pc = "publish_failure" => Hopeless(b.msg)
    /\ b.pc = "record_failure" => Receipt(b.msg, "failed") \in receipts
    /\ b.pc \in {"ack", "reject"} => Answered(b.msg)

HandlerInv == \A h \in Handlers : GoodDelivery(handler[h])

\* A message without a receipt is in the queue, or in a handler the broker would
\* take it back from, or was taken back too often.
InHandler(m) == \E h \in Handlers : handler[h] # Free /\ handler[h].msg = m /\ handler[h].connected
CopiesInv ==
    \A m \in Messages :
        m \in sent => queue[m] > 0 \/ InHandler(m) \/ Answered(m) \/ returned[m] > DeliveryLimit

IInv == TypeInv /\ StoreInv /\ HandlerInv /\ CopiesInv

-----------------------------------------------------------------------------
(* Receipts and refusal.                                                    *)

\* Receipts of different messages or outcomes differ, also from those of acceptance.
LEMMA ReceiptsDiffer ==
    ASSUME NEW m, NEW n, NEW s, NEW t
    PROVE  /\ Receipt(m, s) = Receipt(n, t) => m = n /\ s = t
           /\ \A q : s # "accepted" => Receipt(m, s) # [request |-> q, status |-> "accepted"]
  BY DEF Receipt

\* What a message names.
LEMMA RequestType ==
    ASSUME TypeInv, NEW m \in Messages
    PROVE  /\ CodeOf[m] \in Codes
           /\ Named(m) \/ RequestOf[m] \in {NoRequest, Unreadable}
           /\ Named(m) => RequestOf[m] \in Requests /\ Readable(m)
           /\ RequestOf[m] # NoRequest => Named(m) \/ ~ Readable(m)
<1>1. RequestOf \in [Messages -> Requests \union {NoRequest, Unreadable}]
  BY MessagesAssumption DEF TypeInv, RequestOf
<1> QED
  BY <1>1, MessagesAssumption DEF Named, Readable

\* What the setting says of a message does not change, nor what its receipts are.
LEMMA SettingFacts ==
    ASSUME setting' = setting
    PROVE  /\ RequestOf' = RequestOf
           /\ \A m : Named(m)' = Named(m) /\ Readable(m)' = Readable(m)
           /\ \A m, s : Receipt(m, s)' = Receipt(m, s)
  BY DEF RequestOf, Named, Readable, Receipt

\* An intake is none or has a code.
LEMMA IntakeType ==
    ASSUME TypeInv, NEW q \in Requests, intakes[q] # None
    PROVE  intakes[q] \in [status : {"pending", "accepted"}, code : Codes]
  BY DEF TypeInv, IntakeOf

\* What is stored only grows: intakes keep their codes.
Grows ==
    /\ inbox \subseteq inbox' /\ tasks \subseteq tasks' /\ receipts \subseteq receipts'
    /\ \A q \in Requests : intakes[q] # None => intakes'[q] # None /\ intakes'[q].code = intakes[q].code
    /\ setting' = setting

\* A refused message stays refused: the intake of its request, if it is created later,
\* has another code, for the message's own is taken.
LEMMA RefusedStays ==
    ASSUME TypeInv, Grows, NEW m \in Messages, Refused(m),
           Named(m) => m \notin inbox',
           \A q \in Requests : intakes[q] = None /\ intakes'[q] # None =>
               /\ intakes'[q].code \notin tasks
               /\ \A r \in Requests : intakes[r] # None => intakes[r].code # intakes'[q].code
    PROVE  Refused(m)'
<1>1. /\ RequestOf' = RequestOf /\ Named(m)' = Named(m)
      /\ Named(m) => RequestOf[m] \in Requests
  BY RequestType, SettingFacts DEF Grows
<1>2. ~ Known(m)'
  BY <1>1 DEF Known, Existing
<1>3. CASE m \in Invalid
  BY <1>2, <1>3 DEF Refused
<1>4. CASE Existing(m) /\ intakes[RequestOf[m]].code # CodeOf[m]
  <2>1. Existing(m)' /\ intakes'[RequestOf'[m]].code # CodeOf[m]
    BY <1>1, <1>4 DEF Existing, Grows
  <2> QED
    BY <1>2, <2>1 DEF Refused
<1>5. CASE ~ Existing(m) /\ CodeTaken(m)
  <2>1. CodeTaken(m)'
    BY <1>5 DEF CodeTaken, Grows
  <2>2. Existing(m)' => intakes'[RequestOf[m]].code # CodeOf[m]
    BY <1>1, <1>5 DEF Existing, CodeTaken
  <2> QED
    BY <1>1, <1>2, <2>1, <2>2 DEF Refused, Existing
<1> QED
  BY <1>3, <1>4, <1>5 DEF Refused

\* A step that stores nothing.
LEMMA StoresNothing ==
    ASSUME IInv, UNCHANGED <<stored, setting>>
    PROVE  /\ Grows /\ \A m \in Messages : (Refused(m) => Refused(m)') /\ (Answered(m) => Answered(m)')
           /\ accept' \in {accept, "none"} => StoreInv'
<1>1. /\ inbox' = inbox /\ intakes' = intakes /\ tasks' = tasks /\ receipts' = receipts /\ ledger' = ledger
      /\ setting' = setting /\ RequestOf' = RequestOf
  BY SettingFacts DEF stored
<1>2. Grows
  BY <1>1 DEF Grows
<1>3. ASSUME NEW m \in Messages
      PROVE  (Refused(m) => Refused(m)') /\ (Answered(m) => Answered(m)')
  BY <1>1 DEF Refused, Known, Existing, Named, CodeTaken, Answered, Receipt
<1>4. ASSUME accept' \in {accept, "none"} PROVE StoreInv'
  <2>1. InboxInv' /\ LedgerTruthful'
    BY <1>1 DEF IInv, StoreInv, InboxInv, LedgerTruthful, HasIntake, Named, Readable, Receipt
  <2>2. FailedInv'
    BY <1>1, <1>3 DEF IInv, StoreInv, FailedInv, Hopeless, Readable, Receipt
  <2>3. AcceptInv' /\ IntakeCodesUnique' /\ AcceptedHasTask'
    BY <1>1, <1>4 DEF IInv, StoreInv, AcceptInv, IntakeCodesUnique, AcceptedHasTask
  <2> QED
    BY <2>1, <2>2, <2>3 DEF StoreInv
<1> QED
  BY <1>2, <1>3, <1>4

\* An answered message stays answered.
LEMMA AnsweredStays ==
    ASSUME receipts \subseteq receipts', setting' = setting, NEW m, Answered(m)
    PROVE  Answered(m)'
  BY DEF Answered, Receipt, RequestOf

\* What a handler relies on stays true while it waits.
LEMMA DeliveryStays ==
    ASSUME IInv, NEW u \in Handlers, handler'[u] = handler[u],
           Grows, \A m \in Messages : Refused(m) => Refused(m)'
    PROVE  GoodDelivery(handler[u])'
<1>1. GoodDelivery(handler[u])
  BY DEF IInv, HandlerInv
<1>2. CASE handler[u] = Free
  BY <1>1, <1>2 DEF GoodDelivery, Free
<1>3. CASE handler[u] \in [pc : Pcs, msg : Messages, connected : BOOLEAN]
  <2>1. handler[u].msg \in Messages
    BY <1>3
  <2>2. handler[u].pc \in {"ack", "reject"} => Answered(handler[u].msg)'
    BY <1>1, <2>1, AnsweredStays DEF GoodDelivery, Grows
  <2>3. handler[u].pc = "publish_failure" => Hopeless(handler[u].msg)'
    BY <1>1, <2>1, SettingFacts DEF GoodDelivery, Hopeless, Grows
  <2>4. handler[u].pc = "record" => handler[u].msg \in inbox'
    BY <1>1 DEF GoodDelivery, Grows
  <2>5. handler[u].pc = "record_failure" => Receipt(handler[u].msg, "failed")' \in receipts'
    BY <1>1, SettingFacts DEF GoodDelivery, Grows
  <2>6. handler[u].pc \in {"check", "store"} => Readable(handler[u].msg)'
    BY <1>1, SettingFacts DEF GoodDelivery, Grows
  <2> QED
    BY <1>1, <2>2, <2>3, <2>4, <2>5, <2>6 DEF GoodDelivery
<1> QED
  BY <1>1, <1>2, <1>3 DEF GoodDelivery, Delivery

\* A step of one handler that leaves it in a good state.
LEMMA HandlerStep ==
    ASSUME IInv, NEW h \in Handlers, GoodDelivery(handler[h])',
           \A u \in Handlers : u # h => handler'[u] = handler[u],
           Grows, \A m \in Messages : Refused(m) => Refused(m)'
    PROVE  HandlerInv'
<1>1. ASSUME NEW u \in Handlers, u # h PROVE GoodDelivery(handler[u])'
  BY <1>1, DeliveryStays
<1> QED
  BY <1>1 DEF HandlerInv

\* The broker takes messages back: each is in the queue again, or beyond its limit.
LEMMA RequeueFacts ==
    ASSUME TypeInv, NEW ms \in SUBSET Messages, Requeue(ms)
    PROVE  /\ queue' \in [Messages -> Nat] /\ returned' \in [Messages -> Nat] /\ sent' = sent
           /\ \A m \in Messages :
                 /\ m \in ms => queue'[m] > 0 \/ returned'[m] > DeliveryLimit
                 /\ queue[m] > 0 => queue'[m] > 0
                 /\ returned[m] > DeliveryLimit => returned'[m] > DeliveryLimit
<1>1. queue \in [Messages -> Nat] /\ returned \in [Messages -> Nat]
  BY DEF TypeInv
<1>2. queue' = [m \in Messages |-> IF m \in ms /\ returned[m] < DeliveryLimit THEN queue[m] + 1 ELSE queue[m]]
  BY DEF Requeue
<1>3. returned' = [m \in Messages |-> IF m \in ms THEN returned[m] + 1 ELSE returned[m]]
  BY DEF Requeue
<1>4. queue' \in [Messages -> Nat] /\ returned' \in [Messages -> Nat]
  BY <1>1, <1>2, <1>3
<1>5. ASSUME NEW m \in Messages
      PROVE  /\ m \in ms => queue'[m] > 0 \/ returned'[m] > DeliveryLimit
             /\ queue[m] > 0 => queue'[m] > 0
             /\ returned[m] > DeliveryLimit => returned'[m] > DeliveryLimit
  <2>1. queue[m] \in Nat /\ returned[m] \in Nat
    BY <1>1
  <2>2. /\ queue'[m] = IF m \in ms /\ returned[m] < DeliveryLimit THEN queue[m] + 1 ELSE queue[m]
        /\ returned'[m] = IF m \in ms THEN returned[m] + 1 ELSE returned[m]
    BY <1>2, <1>3
  <2> QED
    BY <2>1, <2>2, DeliveryLimitAssumption
<1> QED
  BY <1>4, <1>5 DEF Requeue

-----------------------------------------------------------------------------
(* LIMS and the broker.                                                     *)

\* A step that changes neither the handlers nor the store.
LEMMA BrokerStep ==
    ASSUME IInv, UNCHANGED <<stored, accept, setting, handler>>,
           queue' \in [Messages -> Nat], returned' \in [Messages -> Nat], sent' \subseteq Messages,
           \A m \in Messages : m \in sent' =>
               \/ queue'[m] > 0
               \/ m \in sent /\ queue'[m] = queue[m] /\ returned'[m] = returned[m]
    PROVE  IInv'
<1>1. StoreInv' /\ Grows /\ \A m \in Messages : (Refused(m) => Refused(m)') /\ (Answered(m) => Answered(m)')
  BY StoresNothing
<1>2. TypeInv'
  BY DEF IInv, TypeInv, stored
<1>3. HandlerInv'
  <2>1. ASSUME NEW h \in Handlers PROVE GoodDelivery(handler[h])'
    BY <1>1, DeliveryStays
  <2> QED
    BY <2>1 DEF HandlerInv
<1>4. CopiesInv'
  <2>1. ASSUME NEW m \in Messages, m \in sent'
        PROVE  queue'[m] > 0 \/ InHandler(m)' \/ Answered(m)' \/ returned'[m] > DeliveryLimit
    <3>1. CASE m \in sent /\ queue'[m] = queue[m] /\ returned'[m] = returned[m]
      BY <1>1, <3>1 DEF IInv, CopiesInv, InHandler
    <3> QED
      BY <2>1, <3>1
  <2> QED
    BY <2>1 DEF CopiesInv
<1> QED
  BY <1>1, <1>2, <1>3, <1>4 DEF IInv

\* LIMS publishes.
LEMMA SendKeeps ==
    ASSUME IInv, UNCHANGED setting, NEW m \in Messages, Send(m) PROVE IInv'
<1>1. queue \in [Messages -> Nat] /\ returned \in [Messages -> Nat]
  BY DEF IInv, TypeInv
<1>2. /\ UNCHANGED <<stored, accept, setting, handler>> /\ returned' = returned
      /\ sent' = sent \union {m} /\ queue' = [queue EXCEPT ![m] = @ + 1]
  BY DEF Send
<1>3. queue' \in [Messages -> Nat] /\ queue'[m] > 0 /\ \A n \in Messages : n # m => queue'[n] = queue[n]
  BY <1>1, <1>2
<1>4. sent' \subseteq Messages
  BY <1>2 DEF IInv, TypeInv
<1> QED
  BY <1>1, <1>2, <1>3, <1>4, BrokerStep

\* LIMS replays.
LEMMA ReplayKeeps ==
    ASSUME IInv, UNCHANGED setting, NEW m \in Messages, Replay(m) PROVE IInv'
<1>1. queue \in [Messages -> Nat] /\ returned \in [Messages -> Nat]
  BY DEF IInv, TypeInv
<1>2. /\ UNCHANGED <<stored, accept, setting, handler>> /\ sent' = sent
      /\ queue' = [queue EXCEPT ![m] = @ + 1] /\ returned' = [returned EXCEPT ![m] = 0]
  BY DEF Replay
<1>3. /\ queue' \in [Messages -> Nat] /\ returned' \in [Messages -> Nat] /\ queue'[m] > 0
      /\ \A n \in Messages : n # m => queue'[n] = queue[n] /\ returned'[n] = returned[n]
  BY <1>1, <1>2
<1>4. sent' \subseteq Messages
  BY <1>2 DEF IInv, TypeInv
<1> QED
  BY <1>2, <1>3, <1>4, BrokerStep

\* A step of the handlers that stores nothing, each of the handlers in a good state
\* after it.
LEMMA QuietStep ==
    ASSUME IInv, UNCHANGED <<stored, accept, setting>>, sent' = sent,
           queue' \in [Messages -> Nat], returned' \in [Messages -> Nat],
           NEW h \in Handlers, handler' \in [Handlers -> Delivery],
           \A u \in Handlers : u # h => handler'[u] = handler[u],
           GoodDelivery(handler[h])',
           \A m \in Messages :
              /\ \/ queue[m] > 0 => queue'[m] > 0
                 \/ handler'[h] # Free /\ handler'[h].msg = m /\ handler'[h].connected
              /\ returned[m] > DeliveryLimit => returned'[m] > DeliveryLimit
              /\ handler[h] # Free /\ handler[h].msg = m /\ handler[h].connected =>
                    \/ handler'[h] # Free /\ handler'[h].msg = m /\ handler'[h].connected
                    \/ queue'[m] > 0 \/ returned'[m] > DeliveryLimit \/ Answered(m)
    PROVE  IInv'
<1>1. StoreInv' /\ Grows /\ \A m \in Messages : (Refused(m) => Refused(m)') /\ (Answered(m) => Answered(m)')
  BY StoresNothing
<1>2. TypeInv'
  BY DEF IInv, TypeInv, stored
<1>3. HandlerInv'
  BY <1>1, HandlerStep
<1>4. ASSUME NEW m \in Messages, m \in sent'
      PROVE  queue'[m] > 0 \/ InHandler(m)' \/ Answered(m)' \/ returned'[m] > DeliveryLimit
  <2>1. queue[m] > 0 \/ InHandler(m) \/ Answered(m) \/ returned[m] > DeliveryLimit
    BY <1>4 DEF IInv, CopiesInv
  <2>2. CASE queue[m] > 0
    BY <2>2 DEF InHandler
  <2>3. CASE InHandler(m)
    <3>1. PICK u \in Handlers : handler[u] # Free /\ handler[u].msg = m /\ handler[u].connected
      BY <2>3 DEF InHandler
    <3>2. CASE u = h
      BY <3>1, <3>2, <1>1 DEF InHandler
    <3>3. CASE u # h
      BY <3>1, <3>3 DEF InHandler
    <3> QED
      BY <3>2, <3>3
  <2> QED
    BY <1>1, <2>1, <2>2, <2>3
<1> QED
  BY <1>1, <1>2, <1>3, <1>4 DEF IInv, CopiesInv

\* A handler with a delivery.
LEMMA BusyFacts ==
    ASSUME IInv, NEW h \in Handlers, handler[h].pc \in Pcs
    PROVE  /\ handler[h] # Free /\ handler[h].msg \in Messages /\ handler[h].connected \in BOOLEAN
           /\ handler[h] \in [pc : Pcs, msg : Messages, connected : BOOLEAN]
           /\ GoodDelivery(handler[h]) /\ handler \in [Handlers -> Delivery]
<1>1. handler \in [Handlers -> Delivery] /\ GoodDelivery(handler[h])
  BY DEF IInv, TypeInv, HandlerInv
<1>2. handler[h] \in Delivery /\ handler[h] # Free
  BY <1>1 DEF Free, Pcs
<1> QED
  BY <1>1, <1>2 DEF Delivery

\* A handler moves to another step.
LEMMA GotoFacts ==
    ASSUME IInv, NEW h \in Handlers, handler[h].pc \in Pcs, NEW pc \in Pcs, Goto(h, pc)
    PROVE  /\ handler' \in [Handlers -> Delivery] /\ \A u \in Handlers : u # h => handler'[u] = handler[u]
           /\ handler'[h] \in [pc : Pcs, msg : Messages, connected : BOOLEAN] /\ handler'[h] # Free
           /\ handler'[h].pc = pc /\ handler'[h].msg = handler[h].msg
           /\ handler'[h].connected = handler[h].connected
<1>1. /\ handler \in [Handlers -> Delivery]
      /\ handler[h] \in [pc : Pcs, msg : Messages, connected : BOOLEAN]
  BY BusyFacts
<1>2. handler' = [handler EXCEPT ![h] = [handler[h] EXCEPT !.pc = pc]]
  BY <1>1 DEF Goto
<1>3. /\ [handler[h] EXCEPT !.pc = pc] \in [pc : Pcs, msg : Messages, connected : BOOLEAN]
      /\ [handler[h] EXCEPT !.pc = pc].pc = pc
      /\ [handler[h] EXCEPT !.pc = pc].msg = handler[h].msg
      /\ [handler[h] EXCEPT !.pc = pc].connected = handler[h].connected
  BY <1>1
<1>4. handler'[h] = [handler[h] EXCEPT !.pc = pc]
  BY <1>1, <1>2
<1>5. [handler[h] EXCEPT !.pc = pc] # Free
  BY <1>3 DEF Free, Pcs
<1>6. [handler[h] EXCEPT !.pc = pc] \in Delivery
  BY <1>3 DEF Delivery
<1> QED
  BY <1>1, <1>2, <1>3, <1>4, <1>5, <1>6

\* A handler moves on and nothing else changes.
LEMMA MoveStep ==
    ASSUME IInv, UNCHANGED <<broker, stored, accept, setting>>,
           NEW h \in Handlers, handler[h].pc \in Pcs, NEW pc \in Pcs, Goto(h, pc),
           GoodDelivery(handler[h])'
    PROVE  IInv'
<1>1. /\ sent' = sent /\ queue' = queue /\ returned' = returned
      /\ queue \in [Messages -> Nat] /\ returned \in [Messages -> Nat]
  BY DEF broker, IInv, TypeInv
<1>2. /\ handler' \in [Handlers -> Delivery] /\ \A u \in Handlers : u # h => handler'[u] = handler[u]
      /\ handler'[h] # Free /\ handler'[h].msg = handler[h].msg
      /\ handler'[h].connected = handler[h].connected
  BY GotoFacts
<1> QED
  BY <1>1, <1>2, QuietStep

\* The ledger is read.
LEMMA CheckKeeps ==
    ASSUME IInv, UNCHANGED setting, NEW h \in Handlers, Check(h) PROVE IInv'
<1>1. handler[h].pc = "check" /\ handler[h].pc \in Pcs /\ UNCHANGED <<broker, stored, accept, setting>>
  BY DEF Check, Pcs
<1>2. PICK m \in Messages : m = handler[h].msg
  BY <1>1, BusyFacts
<1>3. PICK next \in Pcs : next = IF ledger[m] # "none" THEN "ack" ELSE "store"
  BY DEF Pcs
<1>4. Goto(h, next)
  BY <1>2, <1>3 DEF Check
<1>5. next = "ack" => Answered(m)'
  <2>1. next = "ack" => Answered(m)
    BY <1>3 DEF IInv, StoreInv, LedgerTruthful, TypeInv, Answered
  <2> QED
    BY <1>1, <2>1, StoresNothing
<1>6. /\ handler'[h] \in [pc : Pcs, msg : Messages, connected : BOOLEAN]
      /\ handler'[h].pc = next /\ handler'[h].msg = m
  BY <1>1, <1>2, <1>4, GotoFacts
<1>7. Readable(m)'
  BY <1>1, <1>2, BusyFacts, SettingFacts DEF GoodDelivery
<1>8. GoodDelivery(handler[h])'
  BY <1>3, <1>5, <1>6, <1>7 DEF GoodDelivery, Delivery
<1> QED
  BY <1>1, <1>4, <1>8, MoveStep

\* The message is refused.
LEMMA RefuseKeeps ==
    ASSUME IInv, UNCHANGED setting, NEW h \in Handlers, Refuse(h) PROVE IInv'
<1>1. /\ handler[h].pc = "store" /\ handler[h].pc \in Pcs /\ "publish_failure" \in Pcs
      /\ UNCHANGED <<broker, stored, accept, setting>> /\ Goto(h, "publish_failure")
  BY DEF Refuse, Pcs
<1>2. PICK m \in Messages : m = handler[h].msg
  BY <1>1, BusyFacts
<1>3. Hopeless(m)'
  <2>1. Refused(m)
    BY <1>2 DEF Refuse
  <2> QED
    BY <1>1, <2>1, StoresNothing DEF Hopeless
<1>4. /\ handler'[h] \in [pc : Pcs, msg : Messages, connected : BOOLEAN]
      /\ handler'[h].pc = "publish_failure" /\ handler'[h].msg = m
  BY <1>1, <1>2, GotoFacts
<1>5. GoodDelivery(handler[h])'
  BY <1>3, <1>4 DEF GoodDelivery, Delivery
<1> QED
  BY <1>1, <1>5, MoveStep

\* A handler is free.
LEMMA FreeGood == GoodDelivery(Free) /\ GoodDelivery(Free)' /\ Free \in Delivery
  BY DEF GoodDelivery, Free, Delivery

\* The delivery is acknowledged or rejected.
LEMMA SettleKeeps ==
    ASSUME IInv, UNCHANGED setting, NEW h \in Handlers, Settle(h) PROVE IInv'
<1>1. /\ handler[h].pc \in {"ack", "reject"} /\ handler[h].pc \in Pcs
      /\ UNCHANGED <<queue, returned, sent, stored, accept, setting>>
      /\ handler' = [handler EXCEPT ![h] = Free]
  BY DEF Settle, Pcs
<1>2. /\ handler \in [Handlers -> Delivery] /\ GoodDelivery(handler[h])
  BY <1>1, BusyFacts
<1>3. /\ handler' \in [Handlers -> Delivery] /\ \A u \in Handlers : u # h => handler'[u] = handler[u]
      /\ handler'[h] = Free
  BY <1>1, <1>2, FreeGood
<1>4. GoodDelivery(handler[h])'
  BY <1>3, FreeGood DEF GoodDelivery
<1>5. Answered(handler[h].msg)
  BY <1>1, <1>2 DEF GoodDelivery
<1>6. /\ queue' = queue /\ returned' = returned /\ sent' = sent
      /\ queue \in [Messages -> Nat] /\ returned \in [Messages -> Nat]
  BY <1>1 DEF IInv, TypeInv
<1> QED
  BY <1>1, <1>3, <1>4, <1>5, <1>6, QuietStep

\* The handler fails: the message is taken back, unless it has been already.
LEMMA NackKeeps ==
    ASSUME IInv, UNCHANGED setting, NEW h \in Handlers, Nack(h) PROVE IInv'
<1>1. /\ handler[h].pc \in Pcs /\ UNCHANGED <<stored, accept, setting>>
      /\ handler' = [handler EXCEPT ![h] = Free]
      /\ IF handler[h].connected THEN Requeue({handler[h].msg}) ELSE UNCHANGED broker
  BY DEF Nack, Pcs
<1>2. PICK m \in Messages : m = handler[h].msg
  BY <1>1, BusyFacts
<1>3. handler \in [Handlers -> Delivery] /\ TypeInv
  BY DEF IInv, TypeInv
<1>4. /\ handler' \in [Handlers -> Delivery] /\ \A u \in Handlers : u # h => handler'[u] = handler[u]
      /\ handler'[h] = Free
  BY <1>1, <1>3, FreeGood
<1>5. GoodDelivery(handler[h])'
  BY <1>4, FreeGood DEF GoodDelivery
<1>6. /\ queue' \in [Messages -> Nat] /\ returned' \in [Messages -> Nat] /\ sent' = sent
      /\ \A n \in Messages :
            /\ handler[h].connected /\ n = m => queue'[n] > 0 \/ returned'[n] > DeliveryLimit
            /\ queue[n] > 0 => queue'[n] > 0
            /\ returned[n] > DeliveryLimit => returned'[n] > DeliveryLimit
  <2>1. CASE handler[h].connected
    <3>1. Requeue({m}) /\ {m} \in SUBSET Messages
      BY <1>1, <1>2, <2>1
    <3> QED
      BY <1>3, <3>1, RequeueFacts
  <2>2. CASE ~ handler[h].connected
    BY <1>1, <1>3, <2>2 DEF broker, TypeInv
  <2> QED
    BY <2>1, <2>2
<1> QED
  BY <1>1, <1>2, <1>4, <1>5, <1>6, QuietStep

\* The connection of a handler is lost, and it runs on.
LEMMA ReconnectKeeps ==
    ASSUME IInv, UNCHANGED setting, NEW h \in Handlers, Reconnect(h) PROVE IInv'
<1>1. /\ handler[h] # Free /\ handler[h].connected /\ UNCHANGED <<stored, accept, setting>>
      /\ handler' = [handler EXCEPT ![h].connected = FALSE] /\ Requeue({handler[h].msg})
  BY DEF Reconnect
<1>2. handler \in [Handlers -> Delivery] /\ TypeInv /\ GoodDelivery(handler[h])
  BY DEF IInv, TypeInv, HandlerInv
<1>3. handler[h] \in [pc : Pcs, msg : Messages, connected : BOOLEAN]
  BY <1>1, <1>2 DEF Delivery
<1>4. PICK b \in [pc : Pcs, msg : Messages, connected : BOOLEAN] : b = handler[h]
  BY <1>3
<1>5. PICK d : d = [b EXCEPT !.connected = FALSE]
  OBVIOUS
<1>6. d \in [pc : Pcs, msg : Messages, connected : BOOLEAN] /\ d.pc = b.pc /\ d.msg = b.msg /\ d.connected = FALSE
  BY <1>5
<1>7. handler' = [handler EXCEPT ![h] = d]
  BY <1>1, <1>2, <1>4, <1>5
<1>8. /\ handler' \in [Handlers -> Delivery] /\ \A u \in Handlers : u # h => handler'[u] = handler[u]
      /\ handler'[h] = d
  BY <1>2, <1>6, <1>7 DEF Delivery
<1>9. GoodDelivery(handler[h])'
  <2>1. /\ inbox' = inbox /\ receipts' = receipts
        /\ (Refused(b.msg) => Refused(b.msg)') /\ (Answered(b.msg) => Answered(b.msg)')
    BY <1>1, <1>4, StoresNothing DEF stored
  <2>2. (Hopeless(b.msg) => Hopeless(b.msg)') /\ Readable(b.msg)' = Readable(b.msg)
        /\ Receipt(b.msg, "failed")' = Receipt(b.msg, "failed")
    BY <1>1, <2>1, SettingFacts DEF Hopeless
  <2> QED
    BY <1>2, <1>4, <1>6, <1>8, <2>1, <2>2 DEF GoodDelivery, Delivery
<1>10. /\ queue' \in [Messages -> Nat] /\ returned' \in [Messages -> Nat] /\ sent' = sent
       /\ \A n \in Messages :
            /\ n = b.msg => queue'[n] > 0 \/ returned'[n] > DeliveryLimit
            /\ queue[n] > 0 => queue'[n] > 0
            /\ returned[n] > DeliveryLimit => returned'[n] > DeliveryLimit
  <2>1. Requeue({b.msg}) /\ {b.msg} \in SUBSET Messages
    BY <1>1, <1>4
  <2> QED
    BY <1>2, <2>1, RequeueFacts
<1> QED
  BY <1>1, <1>4, <1>8, <1>9, <1>10, QuietStep

\* The broker delivers a message.
LEMMA DeliverKeeps ==
    ASSUME IInv, UNCHANGED setting, NEW h \in Handlers, NEW m \in Messages, Deliver(h, m) PROVE IInv'
<1>1. /\ handler[h] = Free /\ queue[m] > 0 /\ queue' = [queue EXCEPT ![m] = @ - 1]
      /\ UNCHANGED <<returned, sent, stored, accept, setting>>
      /\ handler' = [handler EXCEPT ![h] = Busy(FirstStep(m), m, TRUE)]
  BY DEF Deliver
<1>2. handler \in [Handlers -> Delivery] /\ queue \in [Messages -> Nat] /\ returned \in [Messages -> Nat]
  BY DEF IInv, TypeInv
<1>3. PICK d : d = Busy(FirstStep(m), m, TRUE)
  OBVIOUS
<1>4. /\ d \in [pc : Pcs, msg : Messages, connected : BOOLEAN]
      /\ \/ d.pc \in {"check", "store"} /\ Readable(m)
         \/ d.pc = "publish_failure" /\ ~ Readable(m)
      /\ d.msg = m /\ d.connected = TRUE /\ d # Free
  BY <1>3 DEF Busy, Pcs, Free, FirstStep
<1>5. /\ handler' \in [Handlers -> Delivery] /\ \A u \in Handlers : u # h => handler'[u] = handler[u]
      /\ handler'[h] = d
  BY <1>1, <1>2, <1>3, <1>4 DEF Delivery
<1>6. GoodDelivery(handler[h])'
  <2>1. Readable(m)' = Readable(m)
    BY <1>1, SettingFacts
  <2> QED
    BY <1>4, <1>5, <2>1 DEF GoodDelivery, Delivery, Hopeless
<1>7. /\ queue' \in [Messages -> Nat] /\ \A n \in Messages : n # m => queue'[n] = queue[n]
  <2>1. queue[m] \in Nat /\ queue[m] - 1 \in Nat
    BY <1>1, <1>2
  <2> QED
    BY <1>1, <1>2, <2>1
<1>8. returned' = returned /\ sent' = sent
  BY <1>1
<1> QED
  BY <1>1, <1>2, <1>4, <1>5, <1>6, <1>7, <1>8, QuietStep

-----------------------------------------------------------------------------
(* The intake is stored, published and recorded.                            *)

\* A step that stores, its messages staying where they are.
LEMMA StoringStep ==
    ASSUME IInv, UNCHANGED broker, Grows, TypeInv', StoreInv', HandlerInv',
           \A m \in Messages : InHandler(m) => InHandler(m)'
    PROVE  IInv'
<1>1. ASSUME NEW m \in Messages, m \in sent'
      PROVE  queue'[m] > 0 \/ InHandler(m)' \/ Answered(m)' \/ returned'[m] > DeliveryLimit
  <2>1. queue' = queue /\ returned' = returned /\ m \in sent
    BY <1>1 DEF broker
  <2>2. Answered(m) => Answered(m)'
    BY AnsweredStays DEF Grows
  <2> QED
    BY <2>1, <2>2 DEF IInv, CopiesInv
<1> QED
  BY <1>1 DEF IInv, CopiesInv

\* A handler that moves on keeps its message.
LEMMA MoveKeepsCopies ==
    ASSUME IInv, NEW h \in Handlers, handler[h].pc \in Pcs, NEW pc \in Pcs, Goto(h, pc),
           NEW m \in Messages, InHandler(m)
    PROVE  InHandler(m)'
<1>1. /\ \A u \in Handlers : u # h => handler'[u] = handler[u]
      /\ handler'[h] # Free /\ handler'[h].msg = handler[h].msg
      /\ handler'[h].connected = handler[h].connected
  BY GotoFacts
<1>2. PICK u \in Handlers : handler[u] # Free /\ handler[u].msg = m /\ handler[u].connected
  BY DEF InHandler
<1>3. handler'[u] # Free /\ handler'[u].msg = m /\ handler'[u].connected
  <2>1. CASE u = h
    BY <1>1, <1>2, <2>1
  <2>2. CASE u # h
    BY <1>1, <1>2, <2>2
  <2> QED
    BY <2>1, <2>2
<1> QED
  BY <1>3 DEF InHandler

\* The intake is stored with its receipt.
LEMMA StoreKeeps ==
    ASSUME IInv, UNCHANGED setting, NEW h \in Handlers, Store(h) PROVE IInv'
<1>1. /\ handler[h].pc = "store" /\ handler[h].pc \in Pcs
      /\ UNCHANGED <<broker, tasks, ledger, accept, setting>> /\ TypeInv
  BY DEF Store, Pcs, IInv
<1>2. PICK m \in Messages : m = handler[h].msg
  BY <1>1, BusyFacts
<1>3. PICK next \in Pcs : next = IF Guard THEN "record" ELSE "ack"
  BY DEF Pcs
<1>4. /\ CodeOf[m] \in Codes
      /\ Named(m) => RequestOf[m] \in Requests
      /\ RequestOf' = RequestOf /\ \A n : Named(n)' = Named(n) /\ Readable(n)' = Readable(n)
      /\ \A n, t : Receipt(n, t)' = Receipt(n, t)
  BY <1>1, RequestType, SettingFacts
<1>5. PICK q \in Requests :
         /\ Named(m) => q = RequestOf[m]
         /\ ~ Existing(m) => intakes[q] = None
         /\ intakes' = IF Existing(m) THEN intakes
                       ELSE [intakes EXCEPT ![q] = [status |-> "pending", code |-> CodeOf[m]]]
  <2>1. CASE Existing(m)
    <3>1. Named(m) /\ RequestOf[m] \in Requests /\ intakes' = intakes
      BY <1>2, <1>4, <2>1 DEF Store, Existing
    <3> QED
      BY <2>1, <3>1
  <2>2. CASE ~ Existing(m)
    <3>1. PICK r \in Requests :
             /\ IntakeId(m, r)
             /\ intakes' = [intakes EXCEPT ![r] = [status |-> "pending", code |-> CodeOf[m]]]
      BY <1>2, <2>2 DEF Store
    <3>2. (Named(m) => r = RequestOf[m]) /\ intakes[r] = None
      BY <2>2, <3>1 DEF IntakeId, Existing
    <3> QED
      BY <2>2, <3>1, <3>2
  <2> QED
    BY <2>1, <2>2
<1>6. /\ ~ Refused(m) /\ inbox' = inbox \union {m} /\ Goto(h, next)
      /\ receipts' = IF Known(m) THEN receipts ELSE receipts \union {Receipt(m, "received")}
  BY <1>2, <1>3 DEF Store
<1>7. /\ \A r \in Requests : r # q => intakes'[r] = intakes[r]
      /\ Existing(m) => intakes' = intakes /\ intakes[q] # None
      /\ ~ Existing(m) => /\ intakes[q] = None
                          /\ intakes'[q] = [status |-> "pending", code |-> CodeOf[m]]
      /\ intakes' \in [Requests -> IntakeOf]
  <2>1. intakes \in [Requests -> IntakeOf]
    BY <1>1 DEF TypeInv
  <2>2. CASE Existing(m)
    BY <1>5, <2>1, <2>2 DEF Existing
  <2>3. CASE ~ Existing(m)
    <3>1. [status |-> "pending", code |-> CodeOf[m]] \in IntakeOf
      BY <1>4 DEF IntakeOf
    <3> QED
      BY <1>5, <2>1, <2>3, <3>1
  <2> QED
    BY <2>2, <2>3
<1>8. intakes'[q] # None
  BY <1>7 DEF None
<1>9. receipts' = receipts \union {Receipt(m, "received")}
  <2>1. Known(m) => Receipt(m, "received") \in receipts
    BY DEF IInv, StoreInv, InboxInv, Known
  <2> QED
    BY <1>6, <2>1
<1>10. Grows
  <2>1. \A r \in Requests : intakes[r] # None => intakes'[r] = intakes[r]
    BY <1>7
  <2> QED
    BY <1>1, <1>6, <1>9, <2>1 DEF Grows
<1>11. ~ Existing(m) => /\ CodeOf[m] \notin tasks
                        /\ \A r \in Requests : intakes[r] # None => intakes[r].code # CodeOf[m]
  BY <1>6 DEF Refused, Known, Existing, CodeTaken
<1>12. ASSUME NEW n \in Messages, Refused(n) PROVE n # m /\ Refused(n)'
  <2>1. n # m /\ (Named(n) => n \notin inbox')
    BY <1>6, <1>12 DEF Refused, Known, Existing, IInv, StoreInv, InboxInv, HasIntake
  <2>2. ASSUME NEW r \in Requests, intakes[r] = None, intakes'[r] # None
        PROVE  /\ intakes'[r].code \notin tasks
               /\ \A u \in Requests : intakes[u] # None => intakes[u].code # intakes'[r].code
    <3>1. r = q /\ ~ Existing(m)
      BY <1>7, <2>2
    <3> QED
      BY <1>7, <1>11, <3>1
  <2> QED
    BY <1>1, <1>10, <1>12, <2>1, <2>2, RefusedStays
<1>13. ASSUME NEW n \in Messages, HasIntake(n) PROVE HasIntake(n)'
  BY <1>4, <1>10, <1>13 DEF HasIntake, Grows
<1>14. HasIntake(m)'
  <2>1. CASE Known(m)
    BY <1>2, <1>13, <2>1 DEF IInv, StoreInv, InboxInv, Known
  <2>2. CASE Existing(m) /\ ~ Known(m)
    <3>1. Named(m) /\ intakes[q].code = CodeOf[m]
      BY <1>5, <1>6, <2>2 DEF Refused, Existing
    <3> QED
      BY <1>4, <1>5, <1>7, <1>8, <2>2, <3>1 DEF HasIntake
  <2>3. CASE ~ Existing(m)
    BY <1>4, <1>5, <1>7, <1>8, <2>3 DEF HasIntake
  <2> QED
    BY <2>1, <2>2, <2>3
<1>15. InboxInv'
  <2>1. ASSUME NEW n \in Messages
        PROVE  /\ n \in inbox' => Readable(n)' /\ HasIntake(n)'
               /\ n \in inbox' <=> Receipt(n, "received")' \in receipts'
    <3>1. /\ n \in inbox => Readable(n) /\ HasIntake(n)
          /\ n \in inbox <=> Receipt(n, "received") \in receipts
      BY DEF IInv, StoreInv, InboxInv
    <3>2. Receipt(n, "received") = Receipt(m, "received") => n = m
      BY ReceiptsDiffer
    <3>3. Readable(m)
      BY <1>1, <1>2, BusyFacts DEF GoodDelivery
    <3>4. n \in inbox' => Readable(n)' /\ HasIntake(n)'
      BY <1>4, <1>6, <1>13, <1>14, <3>1, <3>3
    <3> QED
      BY <1>4, <1>6, <1>9, <3>1, <3>2, <3>4
  <2> QED
    BY <2>1 DEF InboxInv
<1>16. FailedInv'
  <2>1. ASSUME NEW n \in Messages, Receipt(n, "failed")' \in receipts' PROVE Hopeless(n)'
    <3>1. Receipt(n, "failed")' = Receipt(n, "failed") /\ Receipt(n, "failed") # Receipt(m, "received")
      BY <1>4, ReceiptsDiffer
    <3>2. Hopeless(n)
      BY <1>9, <2>1, <3>1 DEF IInv, StoreInv, FailedInv
    <3> QED
      BY <1>4, <1>12, <3>2 DEF Hopeless
  <2> QED
    BY <2>1 DEF FailedInv
<1>17. AcceptInv'
  BY <1>1, <1>10 DEF IInv, StoreInv, AcceptInv, TypeInv, Grows
<1>18. IntakeCodesUnique'
  <2>1. ASSUME NEW r \in Requests, NEW u \in Requests, r # u, intakes'[r] # None, intakes'[u] # None
        PROVE  intakes'[r].code # intakes'[u].code
    <3>1. CASE Existing(m)
      BY <1>7, <2>1, <3>1 DEF IInv, StoreInv, IntakeCodesUnique
    <3>2. CASE ~ Existing(m) /\ r = q
      BY <1>7, <1>11, <2>1, <3>2
    <3>3. CASE ~ Existing(m) /\ u = q
      BY <1>7, <1>11, <2>1, <3>3
    <3>4. CASE r # q /\ u # q
      BY <1>7, <2>1, <3>4 DEF IInv, StoreInv, IntakeCodesUnique
    <3> QED
      BY <3>1, <3>2, <3>3, <3>4
  <2> QED
    BY <2>1 DEF IntakeCodesUnique
<1>19. LedgerTruthful'
  <2>1. ASSUME NEW n \in Messages
        PROVE  /\ ledger'[n] = "received" => HasIntake(n)' /\ Receipt(n, "received")' \in receipts'
               /\ ledger'[n] = "failed" => Receipt(n, "failed")' \in receipts'
    BY <1>1, <1>4, <1>10, <1>13 DEF IInv, StoreInv, LedgerTruthful, Grows
  <2> QED
    BY <2>1 DEF LedgerTruthful
<1>20. AcceptedHasTask'
  <2>1. ASSUME NEW r \in Requests
        PROVE  LET reported == [request |-> r, status |-> "accepted"] \in receipts'
                   accepted == intakes'[r] # None /\ intakes'[r].status = "accepted"
               IN reported = accepted /\ (accepted => intakes'[r].code \in tasks')
    <3>1. [request |-> r, status |-> "accepted"] \in receipts'
             <=> [request |-> r, status |-> "accepted"] \in receipts
      BY <1>9, ReceiptsDiffer
    <3>2. (intakes'[r] # None /\ intakes'[r].status = "accepted")
             <=> (intakes[r] # None /\ intakes[r].status = "accepted")
      <4>1. CASE ~ Existing(m) /\ r = q
        BY <1>7, <4>1
      <4>2. CASE Existing(m) \/ r # q
        BY <1>7, <4>2
      <4> QED
        BY <4>1, <4>2
    <3>3. intakes[r] # None => intakes'[r].code = intakes[r].code
      BY <1>10 DEF Grows
    <3> QED
      BY <1>1, <3>1, <3>2, <3>3 DEF IInv, StoreInv, AcceptedHasTask
  <2> QED
    BY <2>1 DEF AcceptedHasTask
<1>21. /\ handler' \in [Handlers -> Delivery] /\ \A u \in Handlers : u # h => handler'[u] = handler[u]
       /\ handler'[h] \in [pc : Pcs, msg : Messages, connected : BOOLEAN]
       /\ handler'[h].pc = next /\ handler'[h].msg = m
  BY <1>1, <1>2, <1>6, GotoFacts
<1>22. GoodDelivery(handler[h])'
  <2>1. m \in inbox' /\ Answered(m)'
    BY <1>4, <1>6, <1>9 DEF Answered
  <2> QED
    BY <1>3, <1>21, <2>1 DEF GoodDelivery, Delivery
<1>23. TypeInv'
  BY <1>1, <1>6, <1>7, <1>21 DEF TypeInv, broker
<1>24. HandlerInv'
  BY <1>10, <1>12, <1>21, <1>22, HandlerStep
<1>25. \A n \in Messages : InHandler(n) => InHandler(n)'
  BY <1>1, <1>6, MoveKeepsCopies
<1>26. StoreInv'
  BY <1>15, <1>16, <1>17, <1>18, <1>19, <1>20 DEF StoreInv
<1> QED
  BY <1>1, <1>10, <1>23, <1>24, <1>25, <1>26, StoringStep

\* The failure receipt is stored.
LEMMA PublishFailureKeeps ==
    ASSUME IInv, UNCHANGED setting, NEW h \in Handlers, PublishFailure(h) PROVE IInv'
<1>1. /\ handler[h].pc = "publish_failure" /\ handler[h].pc \in Pcs
      /\ UNCHANGED <<broker, inbox, intakes, tasks, ledger, accept, setting>>
      /\ RequestOf' = RequestOf /\ \A n : Named(n)' = Named(n) /\ Readable(n)' = Readable(n)
  BY SettingFacts DEF PublishFailure, Pcs
<1>2. PICK m \in Messages : m = handler[h].msg
  BY <1>1, BusyFacts
<1>3. PICK next \in {"record_failure", "reject"} :
         next = IF Guard /\ Readable(m) THEN "record_failure" ELSE "reject"
  OBVIOUS
<1>4. receipts' = receipts \union {Receipt(m, "failed")} /\ Goto(h, next) /\ next \in Pcs
  BY <1>2, <1>3 DEF PublishFailure, Pcs
<1>5. Hopeless(m)
  BY <1>1, <1>2, BusyFacts DEF GoodDelivery
<1>6. Grows
  BY <1>1, <1>4 DEF Grows
<1>7. \A n \in Messages : Refused(n) => Refused(n)'
  BY <1>1 DEF Refused, Known, Existing, CodeTaken
<1>8. \A n \in Messages, t \in {"received", "failed"} :
         Receipt(n, t)' = Receipt(n, t) /\ (Receipt(n, t) = Receipt(m, "failed") => n = m /\ t = "failed")
  BY <1>1, ReceiptsDiffer DEF Receipt
<1>9. InboxInv' /\ FailedInv' /\ LedgerTruthful'
  <2>1. \A n \in Messages : /\ Hopeless(n) => Hopeless(n)'
                            /\ HasIntake(n)' = HasIntake(n) /\ Readable(n)' = Readable(n)
    BY <1>1, <1>7 DEF Hopeless, HasIntake
  <2> QED
    BY <1>1, <1>4, <1>5, <1>8, <2>1 DEF IInv, StoreInv, InboxInv, FailedInv, LedgerTruthful
<1>10. AcceptInv' /\ IntakeCodesUnique'
  BY <1>1 DEF IInv, StoreInv, AcceptInv, IntakeCodesUnique
<1>11. AcceptedHasTask'
  <2>1. ASSUME NEW r \in Requests
        PROVE  LET reported == [request |-> r, status |-> "accepted"] \in receipts'
                   accepted == intakes'[r] # None /\ intakes'[r].status = "accepted"
               IN reported = accepted /\ (accepted => intakes'[r].code \in tasks')
    <3>1. [request |-> r, status |-> "accepted"] \in receipts'
             <=> [request |-> r, status |-> "accepted"] \in receipts
      BY <1>4, ReceiptsDiffer
    <3> QED
      BY <1>1, <3>1 DEF IInv, StoreInv, AcceptedHasTask
  <2> QED
    BY <2>1 DEF AcceptedHasTask
<1>12. /\ handler' \in [Handlers -> Delivery] /\ \A u \in Handlers : u # h => handler'[u] = handler[u]
       /\ handler'[h] \in [pc : Pcs, msg : Messages, connected : BOOLEAN]
       /\ handler'[h].pc = next /\ handler'[h].msg = m
  BY <1>1, <1>2, <1>4, GotoFacts
<1>13. GoodDelivery(handler[h])'
  BY <1>1, <1>4, <1>12 DEF GoodDelivery, Delivery, Answered, Receipt
<1>14. TypeInv'
  BY <1>1, <1>12 DEF IInv, TypeInv, broker
<1>15. HandlerInv'
  BY <1>6, <1>7, <1>12, <1>13, HandlerStep
<1>16. \A n \in Messages : InHandler(n) => InHandler(n)'
  BY <1>1, <1>4, MoveKeepsCopies
<1>17. StoreInv'
  BY <1>9, <1>10, <1>11 DEF StoreInv
<1> QED
  BY <1>1, <1>6, <1>14, <1>15, <1>16, <1>17, StoringStep

\* The outcome is recorded in the ledger.
LEMMA RecordKeeps ==
    ASSUME IInv, UNCHANGED setting, NEW h \in Handlers, Record(h) PROVE IInv'
<1>1. /\ handler[h].pc \in {"record", "record_failure"} /\ handler[h].pc \in Pcs
      /\ UNCHANGED <<broker, inbox, intakes, tasks, receipts, accept, setting>>
      /\ RequestOf' = RequestOf /\ \A n : Named(n)' = Named(n) /\ Readable(n)' = Readable(n)
  BY SettingFacts DEF Record, Pcs
<1>2. PICK m \in Messages : m = handler[h].msg
  BY <1>1, BusyFacts
<1>3. PICK next \in {"ack", "reject"} : next = IF handler[h].pc = "record" THEN "ack" ELSE "reject"
  OBVIOUS
<1>4. PICK t \in {"received", "failed"} : t = IF handler[h].pc = "record" THEN "received" ELSE "failed"
  OBVIOUS
<1>5. /\ Goto(h, next) /\ next \in Pcs
      /\ ledger' = [ledger EXCEPT ![m] = IF ledger[m] # "none" THEN ledger[m] ELSE t]
  BY <1>2, <1>3, <1>4 DEF Record, Pcs
<1>6. /\ ledger' \in [Messages -> {"none", "received", "failed"}]
      /\ ledger'[m] \in {ledger[m], t} /\ \A n \in Messages : n # m => ledger'[n] = ledger[n]
  BY <1>5 DEF IInv, TypeInv
<1>7. /\ Receipt(m, t) \in receipts
      /\ t = "received" => HasIntake(m)
  <2>1. CASE handler[h].pc = "record"
    BY <1>2, <1>4, <2>1, <1>1, BusyFacts DEF GoodDelivery, IInv, StoreInv, InboxInv
  <2>2. CASE handler[h].pc = "record_failure"
    BY <1>2, <1>4, <2>2, <1>1, BusyFacts DEF GoodDelivery
  <2> QED
    BY <1>1, <2>1, <2>2
<1>8. Grows /\ \A n \in Messages : Refused(n) => Refused(n)'
  BY <1>1 DEF Grows, Refused, Known, Existing, CodeTaken
<1>9. \A n \in Messages : /\ Hopeless(n) => Hopeless(n)'
                          /\ HasIntake(n)' = HasIntake(n) /\ Readable(n)' = Readable(n)
                          /\ \A u : Receipt(n, u)' = Receipt(n, u)
  BY <1>1, <1>8, SettingFacts DEF Hopeless, HasIntake
<1>10. /\ InboxInv' /\ FailedInv' /\ LedgerTruthful'
       /\ AcceptInv' /\ IntakeCodesUnique' /\ AcceptedHasTask'
  <2>1. LedgerTruthful'
    BY <1>1, <1>6, <1>7, <1>9 DEF IInv, StoreInv, LedgerTruthful
  <2>2. InboxInv' /\ FailedInv'
    BY <1>1, <1>9 DEF IInv, StoreInv, InboxInv, FailedInv
  <2>3. AcceptInv' /\ IntakeCodesUnique' /\ AcceptedHasTask'
    BY <1>1 DEF IInv, StoreInv, AcceptInv, IntakeCodesUnique, AcceptedHasTask
  <2> QED
    BY <2>1, <2>2, <2>3
<1>11. /\ handler' \in [Handlers -> Delivery] /\ \A u \in Handlers : u # h => handler'[u] = handler[u]
       /\ handler'[h] \in [pc : Pcs, msg : Messages, connected : BOOLEAN]
       /\ handler'[h].pc = next /\ handler'[h].msg = m
  BY <1>1, <1>2, <1>5, GotoFacts
<1>12. GoodDelivery(handler[h])'
  BY <1>1, <1>3, <1>7, <1>11 DEF GoodDelivery, Delivery, Answered, Receipt
<1>13. TypeInv'
  BY <1>1, <1>6, <1>11 DEF IInv, TypeInv, broker
<1>14. HandlerInv'
  BY <1>8, <1>11, <1>12, HandlerStep
<1>15. \A n \in Messages : InHandler(n) => InHandler(n)'
  BY <1>1, <1>5, MoveKeepsCopies
<1>16. StoreInv'
  BY <1>10 DEF StoreInv
<1> QED
  BY <1>1, <1>8, <1>13, <1>14, <1>15, <1>16, StoringStep

-----------------------------------------------------------------------------
(* Acceptance, crashes and the specification.                               *)

\* A step of the acceptance leaves the handlers where they are.
LEMMA AcceptanceStep ==
    ASSUME IInv, UNCHANGED <<broker, handler>>, Grows, TypeInv', StoreInv',
           \A m \in Messages : Refused(m) => Refused(m)'
    PROVE  IInv'
<1>1. HandlerInv'
  <2>1. ASSUME NEW u \in Handlers PROVE GoodDelivery(handler[u])'
    BY DeliveryStays
  <2> QED
    BY <2>1 DEF HandlerInv
<1>2. \A m \in Messages : InHandler(m) => InHandler(m)'
  BY DEF InHandler
<1> QED
  BY <1>1, <1>2, StoringStep

\* The task of an intake is created.
LEMMA CreateTaskKeeps ==
    ASSUME IInv, UNCHANGED setting, NEW q \in Requests, CreateTask(q) PROVE IInv'
<1>1. /\ UNCHANGED <<broker, handler, inbox, intakes, receipts, ledger, setting>>
      /\ tasks' = tasks \union {intakes[q].code} /\ accept' = q /\ intakes[q] # None
      /\ RequestOf' = RequestOf /\ \A n : Named(n)' = Named(n) /\ Readable(n)' = Readable(n)
      /\ TypeInv
  BY SettingFacts DEF CreateTask, IInv
<1>2. intakes[q].code \in Codes
  BY <1>1, IntakeType
<1>3. Grows
  BY <1>1 DEF Grows
<1>4. ASSUME NEW m \in Messages, Refused(m) PROVE Refused(m)'
  <2>1. Named(m) => m \notin inbox'
    BY <1>1, <1>4 DEF IInv, StoreInv, InboxInv, Refused, Known, Existing, HasIntake
  <2> QED
    BY <1>1, <1>3, <1>4, <2>1, RefusedStays
<1>5. TypeInv'
  BY <1>1, <1>2 DEF TypeInv, broker
<1>6. StoreInv'
  <2>1. InboxInv' /\ FailedInv' /\ LedgerTruthful'
    <3>1. \A m \in Messages : /\ Hopeless(m) => Hopeless(m)'
                              /\ HasIntake(m)' = HasIntake(m) /\ \A t : Receipt(m, t)' = Receipt(m, t)
      BY <1>1, <1>4, SettingFacts DEF Hopeless, HasIntake
    <3> QED
      BY <1>1, <3>1 DEF IInv, StoreInv, InboxInv, FailedInv, LedgerTruthful
  <2>2. AcceptInv' /\ IntakeCodesUnique' /\ AcceptedHasTask'
    BY <1>1 DEF IInv, StoreInv, AcceptInv, IntakeCodesUnique, AcceptedHasTask
  <2> QED
    BY <2>1, <2>2 DEF StoreInv
<1> QED
  BY <1>1, <1>3, <1>4, <1>5, <1>6, AcceptanceStep

\* The intake is marked as accepted.
LEMMA MarkAcceptedKeeps ==
    ASSUME IInv, UNCHANGED setting, MarkAccepted PROVE IInv'
<1>1. PICK q \in Requests : q = accept
  BY DEF MarkAccepted, IInv, TypeInv
<1>2. /\ UNCHANGED <<broker, handler, inbox, tasks, ledger, setting>> /\ TypeInv
      /\ receipts' = receipts \union {[request |-> q, status |-> "accepted"]}
      /\ intakes' = [intakes EXCEPT ![q] = [intakes[q] EXCEPT !.status = "accepted"]]
      /\ accept' = "none" /\ \A n : Named(n)' = Named(n) /\ Readable(n)' = Readable(n)
      /\ RequestOf' = RequestOf
  BY <1>1, SettingFacts DEF MarkAccepted, IInv, TypeInv
<1>3. intakes[q] # None /\ intakes[q].code \in tasks
  BY <1>1 DEF MarkAccepted, IInv, StoreInv, AcceptInv
<1>4. intakes[q] \in [status : {"pending", "accepted"}, code : Codes]
  BY <1>2, <1>3, IntakeType
<1>5. PICK i \in [status : {"pending", "accepted"}, code : Codes] :
         i = [intakes[q] EXCEPT !.status = "accepted"] /\ i.status = "accepted" /\ i.code = intakes[q].code
  <2>1. PICK j \in [status : {"pending", "accepted"}, code : Codes] : j = intakes[q]
    BY <1>4
  <2>2. /\ [j EXCEPT !.status = "accepted"] \in [status : {"pending", "accepted"}, code : Codes]
        /\ [j EXCEPT !.status = "accepted"].status = "accepted"
        /\ [j EXCEPT !.status = "accepted"].code = j.code
    OBVIOUS
  <2> QED
    BY <2>1, <2>2
<1>6. i # None
  BY <1>5 DEF None
<1>7. /\ intakes' \in [Requests -> IntakeOf] /\ intakes'[q] = i
      /\ \A r \in Requests : r # q => intakes'[r] = intakes[r]
  BY <1>2, <1>5 DEF TypeInv, IntakeOf
<1>8. \A r \in Requests : /\ intakes'[r] # None <=> intakes[r] # None
                          /\ intakes[r] # None => intakes'[r].code = intakes[r].code
  BY <1>3, <1>5, <1>6, <1>7
<1>9. Grows
  BY <1>2, <1>8 DEF Grows
<1>10. ASSUME NEW m \in Messages, Refused(m) PROVE Refused(m)'
  <2>1. Named(m) => m \notin inbox'
    BY <1>2, <1>10 DEF IInv, StoreInv, InboxInv, Refused, Known, Existing, HasIntake
  <2> QED
    BY <1>2, <1>8, <1>9, <1>10, <2>1, RefusedStays
<1>11. \A m \in Messages, t \in {"received", "failed"} :
          Receipt(m, t)' = Receipt(m, t) /\ (Receipt(m, t) \in receipts' <=> Receipt(m, t) \in receipts)
  BY <1>2, ReceiptsDiffer DEF Receipt
<1>12. \A m \in Messages : (Hopeless(m) => Hopeless(m)') /\ (HasIntake(m) => HasIntake(m)')
  BY <1>2, <1>8, <1>10 DEF Hopeless, HasIntake
<1>13. InboxInv' /\ FailedInv' /\ LedgerTruthful'
  BY <1>2, <1>11, <1>12 DEF IInv, StoreInv, InboxInv, FailedInv, LedgerTruthful
<1>14. AcceptInv' /\ IntakeCodesUnique'
  BY <1>2, <1>8 DEF IInv, StoreInv, AcceptInv, IntakeCodesUnique
<1>15. AcceptedHasTask'
  <2>1. ASSUME NEW r \in Requests
        PROVE  LET reported == [request |-> r, status |-> "accepted"] \in receipts'
                   accepted == intakes'[r] # None /\ intakes'[r].status = "accepted"
               IN reported = accepted /\ (accepted => intakes'[r].code \in tasks')
    <3>1. CASE r = q
      BY <1>2, <1>3, <1>5, <1>6, <1>7, <3>1
    <3>2. CASE r # q
      <4>1. [request |-> r, status |-> "accepted"] # [request |-> q, status |-> "accepted"]
        BY <3>2
      <4>2. [request |-> r, status |-> "accepted"] \in receipts'
               <=> [request |-> r, status |-> "accepted"] \in receipts
        BY <1>2, <4>1
      <4> QED
        BY <1>2, <1>7, <3>2, <4>2 DEF IInv, StoreInv, AcceptedHasTask
    <3> QED
      BY <3>1, <3>2
  <2> QED
    BY <2>1 DEF AcceptedHasTask
<1>16. TypeInv'
  BY <1>2, <1>7 DEF TypeInv, broker
<1>17. StoreInv'
  BY <1>13, <1>14, <1>15 DEF StoreInv
<1> QED
  BY <1>2, <1>9, <1>10, <1>16, <1>17, AcceptanceStep

\* The marking fails: the task stays.
LEMMA MarkAcceptedFailsKeeps ==
    ASSUME IInv, UNCHANGED setting, MarkAcceptedFails PROVE IInv'
<1>1. UNCHANGED <<broker, handler, stored, setting>> /\ accept' = "none"
  BY DEF MarkAcceptedFails
<1>2. StoreInv' /\ Grows /\ \A m \in Messages : Refused(m) => Refused(m)'
  BY <1>1, StoresNothing
<1>3. TypeInv'
  BY <1>1 DEF IInv, TypeInv, broker, stored
<1> QED
  BY <1>1, <1>2, <1>3, AcceptanceStep

\* The process dies: the messages of its connected handlers are taken back.
LEMMA CrashKeeps ==
    ASSUME IInv, UNCHANGED setting, Crash PROVE IInv'
<1>1. /\ UNCHANGED <<stored, setting>> /\ accept' = "none" /\ handler' = [h \in Handlers |-> Free]
      /\ Requeue({handler[h].msg : h \in {g \in Handlers : handler[g] # Free /\ handler[g].connected}})
      /\ TypeInv
  BY DEF Crash, IInv
<1>2. PICK ms : ms = {handler[h].msg : h \in {g \in Handlers : handler[g] # Free /\ handler[g].connected}}
  OBVIOUS
<1>3. ms \in SUBSET Messages
  BY <1>1, <1>2 DEF TypeInv, Delivery
<1>4. /\ queue' \in [Messages -> Nat] /\ returned' \in [Messages -> Nat] /\ sent' = sent
      /\ \A m \in Messages : /\ m \in ms => queue'[m] > 0 \/ returned'[m] > DeliveryLimit
                             /\ queue[m] > 0 => queue'[m] > 0
                             /\ returned[m] > DeliveryLimit => returned'[m] > DeliveryLimit
  <2>1. Requeue(ms)
    BY <1>1, <1>2
  <2> QED
    BY <1>1, <1>3, <2>1, RequeueFacts
<1>5. StoreInv' /\ \A m \in Messages : Answered(m) => Answered(m)'
  BY <1>1, StoresNothing
<1>6. TypeInv'
  BY <1>1, <1>4, FreeGood DEF TypeInv, stored
<1>7. HandlerInv'
  <2>1. ASSUME NEW u \in Handlers PROVE GoodDelivery(handler[u])'
    <3>1. handler'[u] = Free
      BY <1>1
    <3> QED
      BY <3>1, FreeGood DEF GoodDelivery
  <2> QED
    BY <2>1 DEF HandlerInv
<1>8. ASSUME NEW m \in Messages, m \in sent'
      PROVE  queue'[m] > 0 \/ InHandler(m)' \/ Answered(m)' \/ returned'[m] > DeliveryLimit
  <2>1. InHandler(m) => m \in ms
    BY <1>2 DEF InHandler
  <2> QED
    BY <1>4, <1>5, <1>8, <2>1 DEF IInv, CopiesInv
<1> QED
  BY <1>5, <1>6, <1>7, <1>8 DEF IInv, CopiesInv

\* The initial state.
LEMMA InitInv == Init => IInv
<1> SUFFICES ASSUME Init PROVE IInv
  OBVIOUS
<1>1. TypeInv
  BY FreeGood DEF Init, TypeInv, IntakeOf
<1>2. StoreInv
  BY DEF Init, StoreInv, InboxInv, FailedInv, AcceptInv, IntakeCodesUnique, LedgerTruthful, AcceptedHasTask
<1>3. HandlerInv
  BY FreeGood DEF Init, HandlerInv
<1>4. CopiesInv
  BY DEF Init, CopiesInv
<1> QED
  BY <1>1, <1>2, <1>3, <1>4 DEF IInv

\* Every step keeps the invariant.
LEMMA NextInv == IInv /\ [Next /\ UNCHANGED setting]_<<vars, setting>> => IInv'
<1> SUFFICES ASSUME IInv, [Next /\ UNCHANGED setting]_<<vars, setting>> PROVE IInv'
  OBVIOUS
<1>1. CASE UNCHANGED <<vars, setting>>
  <2>1. UNCHANGED <<stored, accept, setting, handler>> /\ queue' = queue /\ returned' = returned /\ sent' = sent
    BY <1>1 DEF vars, broker
  <2> QED
    BY <2>1, BrokerStep DEF IInv, TypeInv
<1>2. CASE UNCHANGED setting /\ Next
  <2>1. ASSUME NEW m \in Messages, Send(m) \/ Replay(m) PROVE IInv'
    BY <1>2, <2>1, SendKeeps, ReplayKeeps
  <2>2. ASSUME NEW h \in Handlers, Handle(h) PROVE IInv'
    BY <1>2, <2>2, CheckKeeps, StoreKeeps, RefuseKeeps, PublishFailureKeeps, RecordKeeps, SettleKeeps
       DEF Handle, StoreOrRefuse, PublishLocked
  <2>3. ASSUME NEW h \in Handlers, Nack(h) \/ Reconnect(h) PROVE IInv'
    BY <1>2, <2>3, NackKeeps, ReconnectKeeps
  <2>4. ASSUME NEW h \in Handlers, NEW m \in Messages, Deliver(h, m) PROVE IInv'
    BY <1>2, <2>4, DeliverKeeps
  <2>5. ASSUME NEW q \in Requests, CreateTask(q) PROVE IInv'
    BY <1>2, <2>5, CreateTaskKeeps
  <2>6. ASSUME MarkAccepted \/ MarkAcceptedFails \/ Crash PROVE IInv'
    BY <1>2, <2>6, MarkAcceptedKeeps, MarkAcceptedFailsKeeps, CrashKeeps
  <2> QED
    BY <1>2, <2>1, <2>2, <2>3, <2>4, <2>5, <2>6 DEF Next
<1> QED
  BY <1>1, <1>2

\* The invariant of the intake holds in every state, for any messages, requests, codes,
\* handlers and limits.
THEOREM IntakeInvariant == Spec => []IInv
  BY InitInv, NextInv, PTL DEF Spec

\* No two requests hold the same task code, whatever is handled at the same time.
THEOREM CodesStayUnique == Spec => []IntakeCodesUnique
<1>1. IInv => IntakeCodesUnique
  BY DEF IInv, StoreInv
<1> QED
  BY <1>1, IntakeInvariant, PTL

\* A message that names its request, or cannot be read, never has both a received and a
\* failed receipt.
THEOREM MessageHasOneOutcome == Spec => []OneOutcome
<1>1. IInv => OneOutcome
  <2> SUFFICES ASSUME IInv, NEW m \in Messages, RequestOf[m] # NoRequest,
                      Receipt(m, "received") \in receipts, Receipt(m, "failed") \in receipts
               PROVE  FALSE
    BY DEF OneOutcome
  <2>1. m \in inbox /\ Readable(m) /\ HasIntake(m) /\ Refused(m)
    BY DEF IInv, StoreInv, InboxInv, FailedInv, Hopeless
  <2>2. Named(m)
    BY <2>1, RequestType DEF IInv
  <2> QED
    BY <2>1, <2>2 DEF Refused, Known, Existing, HasIntake
<1> QED
  BY <1>1, IntakeInvariant, PTL

\* What the ledger says of a message is true.
THEOREM LedgerStaysTruthful == Spec => []LedgerTruthful
<1>1. IInv => LedgerTruthful
  BY DEF IInv, StoreInv
<1> QED
  BY <1>1, IntakeInvariant, PTL

\* An accepted intake has its task and its receipt, and nothing else is reported so.
THEOREM AcceptanceIsReported == Spec => []AcceptedHasTask
<1>1. IInv => AcceptedHasTask
  BY DEF IInv, StoreInv
<1> QED
  BY <1>1, IntakeInvariant, PTL

\* A message that is nowhere any more was answered or given up at the delivery limit.
THEOREM NothingDiscardedSilently == Spec => []NoSilentDiscard
<1>1. IInv => NoSilentDiscard
  <2> SUFFICES ASSUME IInv, NEW m \in sent, m \in Messages, InFlight(m) = 0
               PROVE  Answered(m) \/ returned[m] > DeliveryLimit
    BY DEF NoSilentDiscard, IInv, CopiesInv, TypeInv
  <2> DEFINE hs == {h \in Handlers : handler[h] # Free /\ handler[h].msg = m}
  <2>1. hs \subseteq Handlers /\ IsFiniteSet(hs) /\ Cardinality(hs) \in Nat
    BY HandlersAssumption, FS_Subset, FS_CardinalityType
  <2>2. queue[m] \in Nat /\ queue[m] + Cardinality(hs) = 0
    BY DEF IInv, TypeInv, InFlight
  <2>3. queue[m] = 0 /\ hs = {}
    <3>1. queue[m] = 0 /\ Cardinality(hs) = 0
      BY <2>1, <2>2
    <3> QED
      BY <2>1, <3>1, FS_EmptySet
  <2>4. ~ InHandler(m)
    BY <2>3 DEF InHandler
  <2> QED
    BY <2>3, <2>4 DEF IInv, CopiesInv
<1> QED
  BY <1>1, IntakeInvariant, PTL
=============================================================================
