-------------------------- MODULE SaltPause_proofs ---------------------------
(***************************************************************************)
(* Proofs about SaltPause: the pauses and the run, the shifted ends, the   *)
(* trays, the agreement of MES with the upper computer when nothing is on  *)
(* its way, and that the next confirmation is always accepted.             *)
(***************************************************************************)
EXTENDS SaltPause, FiniteSetTheorems, WellFoundedInduction, TLAPS

Stops    == {"completion", "abnormal"}
Statuses == {"none", "PAUSED", "RESUMED", "STOPPED"}
Resuming == {"samples", "samples_again", "cascade"}
Handling == Resuming \union {"idle", "terminate", "complete", "log", "event"}

LoggedCommand == [no : 1..MaxCommands, type : Types, pause : Pauses, kind : Stops]
Message == [no : Nat, type : Types \union {"END"}, pause : 0..MaxPauses, kind : Stops]

MesTypeOK ==
    /\ run \in {"RUNNING", "PAUSED"} \union Over
    /\ pause \in [Pauses -> [status : Statuses, kind : Stops]]
    /\ steps \in [Pauses -> 0..Ready]
    /\ trays \in {"chamber", "inspected", "returned", "preparing", "terminated", "done"}
    /\ shifts \in [run : Nat, schedule : Nat]

LogTypeOK ==
    /\ log \subseteq [command : LoggedCommand, live : BOOLEAN]
    /\ IsFiniteSet(Commands)
    /\ toHost \subseteq Commands
    /\ page \in [Pages -> [pc : {"idle", "asked", "checked", "awaiting"},
                           command : [no : {0}, type : Types, pause : 0..MaxPauses, kind : Stops]]]

EventTypeOK ==
    /\ device \in [state : {"running", "paused", "over"}, pause : 0..MaxPauses, kind : Stops]
    /\ sent \subseteq Message
    /\ IsFiniteSet(sent)
    /\ \A m \in sent : m.type # "END" => m.pause \in Pauses
    /\ received \in [messages : SUBSET sent, events : SUBSET ((Types \union {"END"}) \X (0..MaxPauses))]
    /\ handler \in [pc : Handling, message : Message, kind : Stops]
    /\ handler.pc # "idle" => handler.message \in sent
    /\ faults \in 0..MaxFaults
    /\ torn \subseteq 0..MaxPauses

SaltTypeOK == MesTypeOK /\ LogTypeOK /\ EventTypeOK

\* What the handler is in the middle of.
HandlerInv ==
    /\ handler.pc \in Resuming => handler.message.type = "RESUME"
    /\ handler.pc = "terminate" =>
          /\ handler.message.type = "STOP"
          /\ pause[handler.message.pause] = [status |-> "STOPPED", kind |-> "abnormal"]
    /\ handler.pc = "complete" => handler.message.type \in {"STOP", "END"}

\* At most one pause is open, and a paused run without one was stopped.
PauseInv ==
    /\ \A p, q \in Pauses : PauseOpen(p) /\ PauseOpen(q) => p = q
    /\ run = "RUNNING" => \A p \in Pauses : ~ PauseOpen(p)
    /\ run = "PAUSED" => \E p \in Pauses : PauseOpen(p) \/ pause[p] = [status |-> "STOPPED", kind |-> "completion"]

Resumptions == {p \in Pauses : pause[p].status = "RESUMED"}

\* The first commit of a resumption shifts the planned end, a later one the schedule.
ShiftInv ==
    /\ shifts.run = Cardinality(Resumptions)
    /\ torn = {} => shifts.schedule = shifts.run \/ handler.pc \in {"samples", "cascade"}

Aborts(m) == m.type = "STOP" /\ pause[m.pause] = [status |-> "STOPPED", kind |-> "abnormal"]

\* The trays are where the run says, or the confirmation that will put them there
\* is still to be logged.
TrayInv ==
    /\ run = "RUNNING" /\ torn = {} => trays = "chamber" \/ handler.pc = "samples"
    /\ run = "COMPLETED" => trays = "done" /\ handler.pc \notin {"samples", "samples_again"}
    /\ run = "ABNORMAL" => \/ trays = "terminated" /\ handler.pc \notin {"samples", "samples_again"}
                           \/ \E m \in Unlogged : Aborts(m)
    /\ handler.pc = "log" /\ Aborts(handler.message) =>
          run = "COMPLETED" \/ (run = "ABNORMAL" /\ trays = "terminated")

RunInv == HandlerInv /\ PauseInv /\ ShiftInv /\ TrayInv

\* A confirmation of a type was sent for a pause; the run was ended by one.
Said(t, p) == \E m \in sent : m.type = t /\ m.pause = p
Final(m)   == m.type \in {"STOP", "END"}

PauseCommands == {c \in Commands : c.type = "PAUSE"}

\* A pause has one command, which is on its way only before it is executed.
CommandInv ==
    /\ \A c \in PauseCommands : c.pause <= Cardinality(PauseCommands)
    /\ \A c, d \in PauseCommands : c.pause = d.pause => c = d
    /\ \A c \in toHost : c.type = "PAUSE" => ~ Said("PAUSE", c.pause)
    /\ \A m \in sent : m.type # "END" => Said("PAUSE", m.pause)
    /\ \A m \in sent : m.type # "END" =>
          \E c \in Commands : c.type = m.type /\ c.pause = m.pause /\ c.kind = m.kind

\* What the upper computer sent tells its state.
DeviceInv ==
    /\ \A p \in Pauses : Said("PAUSE", p) /\ ~ Said("RESUME", p) =>
          device.state = "over" \/ (device.state = "paused" /\ device.pause = p)
    /\ device.state = "paused" =>
          /\ device.pause \in Pauses /\ Said("PAUSE", device.pause)
          /\ ~ Said("RESUME", device.pause)
    /\ device.state # "over" => \A m \in sent : ~ Final(m)
    /\ device.state = "over" => \E f \in sent : Final(f) /\ f.kind = device.kind
    /\ \A m \in sent : m.type = "END" => m.kind = "completion"
    /\ \A m, n \in sent : Final(m) /\ Final(n) => m = n

\* Nothing is recorded that the upper computer did not say.
CauseInv ==
    /\ \A p \in Pauses :
          /\ pause[p].status # "none" => Said("PAUSE", p)
          /\ pause[p].status = "RESUMED" => Said("RESUME", p)
          /\ pause[p].status = "STOPPED" =>
                /\ Said("STOP", p)
                /\ \E c \in Commands : c.type = "STOP" /\ c.pause = p /\ c.kind = pause[p].kind
    /\ run \in Over => \E m \in sent : Final(m)
    /\ handler.pc \in {"terminate", "complete"} /\ handler.message.type = "STOP" =>
          \E c \in Commands : c.type = "STOP" /\ c.pause = handler.message.pause /\ c.kind = handler.kind

\* A confirmation whose transition is made, and perhaps logged.
Made(m) == m \in received.messages \/ (handler.pc \in {"log", "event"} /\ handler.message = m)

\* What a confirmation says is recorded in the pause and in the run.
Recorded(m) ==
    /\ m.type = "PAUSE" => pause[m.pause].status # "none"
    /\ m.type = "RESUME" => pause[m.pause].status = "RESUMED"
    /\ m.type = "STOP" /\ OneKindOfStop =>
          /\ pause[m.pause].status = "STOPPED"
          /\ run = (IF pause[m.pause].kind = "abnormal" THEN "ABNORMAL" ELSE "COMPLETED")
    /\ m.type = "END" => run = "COMPLETED"

\* It is once its transition is made, and stays so.
EffectInv ==
    /\ handler.pc \in Resuming => pause[handler.message.pause].status = "RESUMED"
    /\ OneKindOfStop /\ handler.pc = "complete" /\ handler.message.type = "STOP" =>
          pause[handler.message.pause] = [status |-> "STOPPED", kind |-> "completion"]
    /\ \A m \in sent : Made(m) => Recorded(m)

AgreeInv == CommandInv /\ DeviceInv /\ CauseInv /\ EffectInv

\* Confirmations are numbered as they are sent.  One pause is resumed before the
\* next begins, each is resumed or stopped once, and nothing follows a final one.
OrderInv ==
    /\ \A m \in sent : m.no <= Cardinality(sent)
    /\ \A m, n \in sent : m.no = n.no => m = n
    /\ \A m \in sent : m.type # "END" => \E n \in sent : n.type = "PAUSE" /\ n.pause = m.pause /\ n.no <= m.no
    /\ \A m, n \in sent : m.type = "PAUSE" /\ n.type = "PAUSE" /\ m.no < n.no =>
          \E r \in sent : r.type = "RESUME" /\ r.pause = m.pause /\ r.no < n.no
    /\ \A f, m \in sent : Final(f) => m.no <= f.no
    /\ \A m, n \in sent : m.type = "RESUME" /\ n.type \in {"RESUME", "STOP"} /\ m.pause = n.pause => m = n

\* A resumption is only asked for when its preparation is done.
AskedInv ==
    /\ \A g \in Pages : LET c == page[g].command IN
          page[g].pc = "checked" /\ c.type = "RESUME" /\ c.pause \in Pauses => steps[c.pause] = Ready
    /\ \A c \in Commands : c.type = "RESUME" => steps[c.pause] = Ready

\* A run that is over was ended by a confirmation of which the pause is recorded.
EndedInv ==
    /\ handler.pc = "complete" /\ handler.message.type = "STOP" => pause[handler.message.pause].status = "STOPPED"
    /\ run \in Over => \E f \in sent : Final(f) /\ (f.type = "STOP" => pause[f.pause].status = "STOPPED")

\* A resumption is being handled, is logged, or was cut short.
ResumeInv ==
    /\ \A q \in torn : q \in Pauses /\ pause[q].status = "RESUMED"
    /\ \A m \in sent : m.type = "RESUME" /\ pause[m.pause].status = "RESUMED" =>
          \/ m.pause \in torn \/ m \in received.messages
          \/ handler.message = m /\ handler.pc \in Resuming \union {"log"}
    /\ handler.pc = "samples" => run = "RUNNING"
    /\ handler.pc = "samples_again" => torn # {}

\* The trays of an open pause stay out of the chamber once they are back, unless a
\* resumption that was cut short moves them.
BackInv ==
    /\ \A p \in Pauses : pause[p].status = "none" => steps[p] = 0
    /\ torn = {} /\ run = "PAUSED" =>
          \A p \in Pauses : PauseOpen(p) /\ steps[p] >= Returned => trays \in {"returned", "preparing"}

NextInv == OrderInv /\ AskedInv /\ EndedInv /\ ResumeInv /\ BackInv

-----------------------------------------------------------------------------
(* The commands in the log.                                                 *)

\* A non-empty set of naturals has a least element.
LEMMA LeastNatural ==
    ASSUME NEW T, T \subseteq Nat, T # {}
    PROVE  \E n \in T : \A m \in T : n <= m
<1> DEFINE Less == {p \in Nat \X Nat : p[1] < p[2]}
<1>1. IsWellFoundedOn(Less, Nat)
  BY NatLessThanWellFounded, Zenon DEF OpToRel
<1>2. \A m, n \in Nat : m < n => <<m, n>> \in Less
  OBVIOUS
<1> HIDE DEF Less
<1>3. PICK n \in T : \A m \in T : ~ (<<m, n>> \in Less)
  BY <1>1, WFMin
<1>4. \A m \in T : ~ (m < n)
  BY <1>2, <1>3
<1>5. \A m \in T : n <= m
  BY <1>4
<1> QED
  BY <1>5

\* Logged commands are numbered, so the latest of some is one of them.
LEMMA LatestIsOneOfThem ==
    ASSUME LogTypeOK, NEW S \in SUBSET Commands, S # {}
    PROVE  LatestOf(S) \in S
<1>1. \A c \in S : c.no \in 1..MaxCommands
  BY DEF LogTypeOK, Commands, LoggedCommand
<1> DEFINE T == {MaxCommands - c.no : c \in S}
<1>2. T \subseteq Nat /\ T # {}
  BY <1>1, SaltAssumption
<1>3. PICK n \in T : \A m \in T : n <= m
  BY <1>2, LeastNatural
<1>4. PICK c \in S : n = MaxCommands - c.no
  BY <1>3
<1>5. ASSUME NEW d \in S PROVE d.no <= c.no
  <2>1. MaxCommands - d.no \in T
    OBVIOUS
  <2>2. MaxCommands - c.no <= MaxCommands - d.no
    BY <1>3, <1>4, <2>1
  <2> QED
    BY <1>1, <2>2, SaltAssumption
<1> QED
  BY <1>4, <1>5 DEF LatestOf

\* Giving a pending command up leaves the commands as they are.
LEMMA PassPendingFacts ==
    ASSUME LogTypeOK, PassPending
    PROVE  /\ Commands' = Commands
           /\ log' \subseteq [command : LoggedCommand, live : BOOLEAN]
<1>1. CASE Pending = {}
  BY <1>1 DEF PassPending, LogTypeOK, Commands
<1>2. CASE Pending # {}
  <2> DEFINE c == LatestOf(Pending)
             G(d) == IF d.command = c THEN [d EXCEPT !.live = FALSE] ELSE d
  <2>1. log' = {G(d) : d \in log}
    BY <1>2 DEF PassPending
  <2>2. \A d \in log : G(d) \in [command : LoggedCommand, live : BOOLEAN] /\ G(d).command = d.command
    BY DEF LogTypeOK
  <2> HIDE DEF G
  <2>3. Commands' = Commands
    BY <2>1, <2>2 DEF Commands
  <2> QED
    BY <2>1, <2>2, <2>3
<1> QED
  BY <1>1, <1>2

\* The command that is asked for gets its number, and a new pause one of its own.
LEMMA NumberedCommand ==
    ASSUME NEW a, a \in [no : {0}, type : Types, pause : 0..MaxPauses, kind : Stops],
           NEW n, NEW q, NEW c,
           c = [a EXCEPT !.no = n, !.pause = IF a.type = "PAUSE" THEN q ELSE @]
    PROVE  c = [no |-> n, type |-> a.type, pause |-> IF a.type = "PAUSE" THEN q ELSE a.pause, kind |-> a.kind]
<1>1. a = [no |-> a.no, type |-> a.type, pause |-> a.pause, kind |-> a.kind]
  OBVIOUS
<1>2. CASE a.type = "PAUSE"
  <2>1. c = [a EXCEPT !.no = n, !.pause = q]
    BY <1>2
  <2> QED
    BY <1>1, <1>2, <2>1
<1>3. CASE a.type # "PAUSE"
  <2>1. c = [a EXCEPT !.no = n, !.pause = a.pause]
    BY <1>3
  <2> QED
    BY <1>1, <1>3, <2>1
<1> QED
  BY <1>2, <1>3

\* Publishing logs one new command; a pause gets the next number.
LEMMA PublishFacts ==
    ASSUME LogTypeOK, NEW g \in Pages, Publish(g)
    PROVE  \E c \in LoggedCommand :
              /\ Commands' = Commands \union {c}
              /\ log' \subseteq [command : LoggedCommand, live : BOOLEAN]
              /\ toHost' \subseteq toHost \union {c}
              /\ c.type = "PAUSE" => c.pause = NextPause
              /\ c.type = page[g].command.type
              /\ c.type # "PAUSE" => c.pause = page[g].command.pause
<1> DEFINE asked == page[g].command
           c == [asked EXCEPT !.no = Issued + 1,
                              !.pause = IF asked.type = "PAUSE" THEN NextPause ELSE @]
<1>1. asked \in [no : {0}, type : Types, pause : 0..MaxPauses, kind : Stops]
  BY DEF LogTypeOK
<1>2. Issued + 1 \in 1..MaxCommands
  BY FS_CardinalityType, SaltAssumption DEF LogTypeOK, Issued, Publish
<1>3. c.pause \in Pauses
  BY DEF Publish
<1>4. c = [no |-> Issued + 1, type |-> asked.type,
           pause |-> IF asked.type = "PAUSE" THEN NextPause ELSE asked.pause, kind |-> asked.kind]
  <2> HIDE DEF asked
  <2> QED
    BY <1>1, NumberedCommand
<1>5. /\ c \in LoggedCommand /\ (c.type = "PAUSE" => c.pause = NextPause)
      /\ c.type = asked.type /\ (c.type # "PAUSE" => c.pause = asked.pause)
  BY <1>1, <1>2, <1>3, <1>4 DEF LoggedCommand
<1>6. \E live \in BOOLEAN : log' = log \union {[command |-> c, live |-> live]}
  BY DEF Publish
<1>7. toHost' \subseteq toHost \union {c}
  BY DEF Publish
<1> HIDE DEF c
<1>8. log' \subseteq [command : LoggedCommand, live : BOOLEAN]
  BY <1>5, <1>6 DEF LogTypeOK
<1>9. Commands' = Commands \union {c}
  <2>1. PICK live \in BOOLEAN : log' = log \union {[command |-> c, live |-> live]}
    BY <1>6
  <2> DEFINE r == [command |-> c, live |-> live]
  <2>2. r.command = c /\ log' = log \union {r}
    BY <2>1
  <2> HIDE DEF r
  <2> QED
    BY <2>2 DEF Commands
<1> QED
  BY <1>5, <1>7, <1>8, <1>9

\* A page or the route it calls changes the log and nothing of MES or the device.
PageStep == \E g \in Pages : Ask(g) \/ Check(g) \/ Publish(g) \/ StopWaiting(g)

LEMMA PageStepFacts ==
    ASSUME LogTypeOK, PageStep
    PROVE  /\ LogTypeOK'
           /\ UNCHANGED <<mes, device, sent, received, handler, torn>>
           /\ faults' = faults \/ (faults < MaxFaults /\ faults' = faults + 1)
           /\ \/ Commands' = Commands /\ toHost' = toHost
              \/ \E c \in LoggedCommand :
                    /\ Commands' = Commands \union {c}
                    /\ toHost' \subseteq toHost \union {c}
                    /\ c.type = "PAUSE" => c.pause = NextPause
<1> DEFINE AskedCommand == [no : {0}, type : Types, pause : 0..MaxPauses, kind : Stops]
           PageType == [pc : {"idle", "asked", "checked", "awaiting"}, command : AskedCommand]
<1>1. page \in [Pages -> PageType]
  BY DEF LogTypeOK
<1>2. NoPage \in PageType
  BY SaltAssumption DEF NoPage, NoCommand, Command, Types, Stops
<1>3. PICK g \in Pages : Ask(g) \/ Check(g) \/ Publish(g) \/ StopWaiting(g)
  BY DEF PageStep
<1>4. CASE Ask(g)
  <2>1. Asked \subseteq AskedCommand
    BY SaltAssumption DEF Asked, Command, Types, Stops, Pauses
  <2>2. \E q \in PageType : page' = [page EXCEPT ![g] = q]
    <3>1. PICK c \in Asked : page' = [page EXCEPT ![g] = [pc |-> "asked", command |-> c]]
      BY <1>4 DEF Ask
    <3>2. [pc |-> "asked", command |-> c] \in PageType
      BY <2>1
    <3> QED
      BY <3>1, <3>2
  <2>3. page' \in [Pages -> PageType]
    BY <1>1, <2>2
  <2>4. UNCHANGED <<mes, log, host, received, handler, faults, torn>>
    BY <1>4 DEF Ask
  <2> QED
    BY <2>3, <2>4 DEF LogTypeOK, Commands, mes, host
<1>5. CASE Check(g)
  <2>1. PassPending \/ UNCHANGED log
    BY <1>5 DEF Check
  <2>2. Commands' = Commands /\ log' \subseteq [command : LoggedCommand, live : BOOLEAN]
    BY <2>1, PassPendingFacts DEF LogTypeOK, Commands
  <2>3. page' \in [Pages -> PageType]
    <3>1. page' = [page EXCEPT ![g].pc = "checked"] \/ page' = [page EXCEPT ![g] = NoPage]
      BY <1>5 DEF Check
    <3> QED
      BY <1>1, <1>2, <3>1
  <2>4. UNCHANGED <<mes, host, received, handler, faults, torn>>
    BY <1>5 DEF Check
  <2> QED
    BY <2>2, <2>3, <2>4 DEF LogTypeOK, host
<1>6. CASE Publish(g)
  <2>1. PICK c \in LoggedCommand :
            /\ Commands' = Commands \union {c}
            /\ log' \subseteq [command : LoggedCommand, live : BOOLEAN]
            /\ toHost' \subseteq toHost \union {c}
            /\ c.type = "PAUSE" => c.pause = NextPause
    BY <1>6, PublishFacts
  <2>2. IsFiniteSet(Commands')
    BY <2>1, FS_AddElement DEF LogTypeOK
  <2>3. toHost' \subseteq Commands'
    BY <2>1 DEF LogTypeOK
  <2>4. page' = [page EXCEPT ![g].pc = "awaiting"]
    BY <1>6 DEF Publish
  <2>5. page' \in [Pages -> PageType]
    BY <1>1, <2>4
  <2>6. LogTypeOK'
    BY <2>1, <2>2, <2>3, <2>5 DEF LogTypeOK
  <2>7. UNCHANGED <<mes, device, sent, received, handler, torn>>
    BY <1>6 DEF Publish
  <2>8. faults' = faults \/ (faults < MaxFaults /\ faults' = faults + 1)
    BY <1>6 DEF Publish, Fault
  <2> QED
    BY <2>1, <2>6, <2>7, <2>8
<1>7. CASE StopWaiting(g)
  <2>1. page' = [page EXCEPT ![g] = NoPage]
    BY <1>7 DEF StopWaiting
  <2>2. page' \in [Pages -> PageType]
    BY <1>1, <1>2, <2>1
  <2>3. UNCHANGED <<mes, log, host, received, handler, faults, torn>>
    BY <1>7 DEF StopWaiting
  <2> QED
    BY <2>2, <2>3 DEF LogTypeOK, Commands, mes, host
<1> QED
  BY <1>3, <1>4, <1>5, <1>6, <1>7

-----------------------------------------------------------------------------
(* Types.                                                                   *)

LEMMA CommandFacts ==
    ASSUME LogTypeOK
    PROVE  Commands \subseteq LoggedCommand
  BY DEF LogTypeOK, Commands

LEMMA TypeInit == Init => SaltTypeOK
<1> SUFFICES ASSUME Init PROVE SaltTypeOK
  OBVIOUS
<1> USE SaltAssumption DEF Init, Stops, Types
<1>1. MesTypeOK
  BY DEF MesTypeOK, Statuses, Over, Ready
<1>2. LogTypeOK
  <2>1. Commands = {}
    BY DEF Commands
  <2>2. NoPage \in [pc : {"idle", "asked", "checked", "awaiting"},
                    command : [no : {0}, type : Types, pause : 0..MaxPauses, kind : Stops]]
    BY DEF NoPage, NoCommand, Command
  <2> QED
    BY <2>1, <2>2, FS_EmptySet DEF LogTypeOK
<1>3. EventTypeOK
  <2>1. Idle \in [pc : Handling, message : Message, kind : Stops] /\ Idle.pc = "idle"
    BY DEF Idle, NoCommand, Command, Handling, Message
  <2> QED
    BY <2>1, FS_EmptySet DEF EventTypeOK
<1> QED
  BY <1>1, <1>2, <1>3 DEF SaltTypeOK

\* What a confirmation adds to what was sent.
LEMMA ConfirmFacts ==
    ASSUME EventTypeOK, NEW t \in Types \union {"END"}, NEW p \in 0..MaxPauses, NEW k \in Stops, Confirm(t, p, k)
    PROVE  \E m \in Message :
              /\ m.no = Cardinality(sent) + 1 /\ m.type = t /\ m.pause = p /\ m.kind = k
              /\ sent' = sent \union {m} /\ IsFiniteSet(sent')
<1> DEFINE m == Command(Cardinality(sent) + 1, t, p, k)
<1>1. Cardinality(sent) \in Nat
  BY FS_CardinalityType DEF EventTypeOK
<1>2. m \in Message /\ m.no = Cardinality(sent) + 1 /\ m.type = t /\ m.pause = p /\ m.kind = k
  BY <1>1 DEF Command, Message
<1>3. sent' = sent \union {m}
  BY DEF Confirm
<1> HIDE DEF m
<1>4. IsFiniteSet(sent')
  BY <1>3, FS_AddElement DEF EventTypeOK
<1> QED
  BY <1>2, <1>3, <1>4

\* A step that handles a message keeps the rest of the events' types.
LEMMA HandlerTypes ==
    ASSUME EventTypeOK, UNCHANGED <<device, sent, received, faults, torn>>,
           handler' \in [pc : Handling, message : Message, kind : Stops],
           handler'.pc # "idle" => handler'.message \in sent
    PROVE  EventTypeOK'
  BY DEF EventTypeOK

LEMMA GoesFacts ==
    ASSUME EventTypeOK, NEW pc \in Handling, Goes(pc)
    PROVE  /\ handler' \in [pc : Handling, message : Message, kind : Stops]
           /\ handler'.pc = pc /\ handler'.message = handler.message /\ handler'.kind = handler.kind
  BY DEF EventTypeOK, Goes

LEMMA TakesFacts ==
    ASSUME EventTypeOK, NEW m \in sent, NEW pc \in Handling, NEW k \in Stops, Takes(m, pc, k)
    PROVE  /\ handler' \in [pc : Handling, message : Message, kind : Stops]
           /\ handler'.pc = pc /\ handler'.message = m /\ handler'.kind = k
  BY DEF EventTypeOK, Takes

\* Executing a command, or ending by itself.
LEMMA HostTypes ==
    ASSUME SaltTypeOK, EndByItself \/ \E c \in toHost : Execute(c)
    PROVE  SaltTypeOK'
<1>1. CASE EndByItself
  <2>1. PICK m \in Message : m.type = "END" /\ sent' = sent \union {m} /\ IsFiniteSet(sent')
    BY <1>1, ConfirmFacts, SaltAssumption DEF EndByItself, SaltTypeOK, Stops
  <2>2. device' \in [state : {"running", "paused", "over"}, pause : 0..MaxPauses, kind : Stops]
    BY <1>1 DEF EndByItself, SaltTypeOK, EventTypeOK, Stops
  <2>3. UNCHANGED <<mes, log, toHost, received, handler, page, faults, torn>>
    BY <1>1 DEF EndByItself
  <2>4. EventTypeOK'
    BY <2>1, <2>2, <2>3 DEF SaltTypeOK, EventTypeOK
  <2> QED
    BY <2>3, <2>4 DEF SaltTypeOK, MesTypeOK, LogTypeOK, Commands, mes
<1>2. ASSUME NEW c \in toHost, Execute(c) PROVE SaltTypeOK'
  <2>1. c \in LoggedCommand
    BY CommandFacts DEF SaltTypeOK, LogTypeOK
  <2>2. UNCHANGED <<mes, log, received, handler, page, faults, torn>> /\ toHost' \subseteq toHost
    BY <1>2 DEF Execute
  <2>3. EventTypeOK'
    <3>1. CASE Fits(c)
      <4>1. PICK m \in Message : m.type = c.type /\ m.pause = c.pause /\ sent' = sent \union {m} /\ IsFiniteSet(sent')
        <5>1. Confirm(c.type, c.pause, c.kind)
          BY <1>2, <3>1 DEF Execute
        <5> QED
          BY <2>1, <5>1, ConfirmFacts, SaltAssumption DEF SaltTypeOK, LoggedCommand, Pauses
      <4>2. device' \in [state : {"running", "paused", "over"}, pause : 0..MaxPauses, kind : Stops]
        BY <1>2, <3>1, <2>1, SaltAssumption DEF Execute, After, LoggedCommand, Types, Pauses
      <4> QED
        BY <2>1, <2>2, <4>1, <4>2 DEF SaltTypeOK, EventTypeOK, LoggedCommand
    <3>2. CASE ~ Fits(c)
      BY <1>2, <2>2, <3>2 DEF Execute, SaltTypeOK, EventTypeOK
    <3> QED
      BY <3>1, <3>2
  <2> QED
    BY <2>2, <2>3 DEF SaltTypeOK, MesTypeOK, LogTypeOK, Commands, mes
<1> QED
  BY <1>1, <1>2

LEMMA PreparationTypes ==
    ASSUME SaltTypeOK, NEW p \in Pauses, Inspect(p) \/ Prepare(p)
    PROVE  SaltTypeOK'
<1>1. MesTypeOK'
  <2>1. steps' = [steps EXCEPT ![p] = @ + 1] /\ steps[p] + 1 \in 0..Ready
    BY DEF SaltTypeOK, MesTypeOK, Inspect, Prepare, Inspected, Returned, Ready
  <2>2. steps' \in [Pauses -> 0..Ready]
    BY <2>1 DEF SaltTypeOK, MesTypeOK
  <2> QED
    BY <2>2 DEF SaltTypeOK, MesTypeOK, Inspect, Prepare
<1>2. LogTypeOK' /\ EventTypeOK'
  BY DEF SaltTypeOK, LogTypeOK, EventTypeOK, Commands, Inspect, Prepare, host
<1> QED
  BY <1>1, <1>2 DEF SaltTypeOK

-----------------------------------------------------------------------------
(* What receiving a confirmation does, in terms of the status of its pause. *)

\* The pause gets a status and a kind, and the others stay as they are.
Sets(p, status, kind) ==
    /\ pause' \in [Pauses -> [status : Statuses, kind : Stops]]
    /\ pause'[p].status = status /\ pause'[p].kind = kind
    /\ \A q \in Pauses : q # p => pause'[q] = pause[q]

Hands(m, pc, k) ==
    /\ handler' \in [pc : Handling, message : Message, kind : Stops]
    /\ handler'.pc = pc /\ handler'.message = m /\ handler'.kind = k

PausedStep(m) ==
    /\ m.type = "PAUSE" /\ Hands(m, "log", "completion") /\ UNCHANGED shifts
    /\ \/ run = "PAUSED" /\ pause[m.pause].status # "none" /\ UNCHANGED <<run, pause>>
       \/ run = "RUNNING" /\ pause[m.pause].status = "none" /\ run' = "PAUSED"
          /\ Sets(m.pause, "PAUSED", pause[m.pause].kind)

ResumedStep(m) ==
    /\ m.type = "RESUME" /\ trays \in {"returned", "preparing"}
    /\ \/ pause[m.pause].status = "RESUMED" /\ Hands(m, "samples_again", "completion")
          /\ UNCHANGED <<run, pause, shifts>>
       \/ run = "PAUSED" /\ PauseOpen(m.pause) /\ run' = "RUNNING"
          /\ Sets(m.pause, "RESUMED", pause[m.pause].kind)
          /\ shifts' \in [run : Nat, schedule : Nat]
          /\ shifts'.run = shifts.run + 1 /\ shifts'.schedule = shifts.schedule
          /\ Hands(m, "samples", "completion")

StoppedStep(m) ==
    /\ m.type = "STOP" /\ UNCHANGED shifts
    /\ \E c \in Commands :
        /\ c.type = "STOP" /\ c.pause = m.pause
        /\ \/ /\ pause[m.pause].status = "STOPPED" /\ UNCHANGED <<run, pause>>
              /\ Hands(m, IF pause[m.pause].kind = "abnormal" THEN "terminate"
                          ELSE IF c.kind = "completion" THEN "complete" ELSE "log", c.kind)
           \/ /\ PauseOpen(m.pause) /\ Sets(m.pause, "STOPPED", c.kind)
              /\ run' = IF c.kind = "abnormal" /\ run = "PAUSED" THEN "ABNORMAL" ELSE run
              /\ Hands(m, IF c.kind = "abnormal" THEN "terminate" ELSE "complete", c.kind)

EndedStep(m) ==
    m.type = "END" /\ Hands(m, "complete", "completion") /\ UNCHANGED <<run, pause, shifts>>

LEMMA ReceiveFacts ==
    ASSUME SaltTypeOK, NEW m \in Unlogged, Receive(m)
    PROVE  /\ m \in sent /\ m \notin received.messages /\ handler.pc = "idle"
           /\ m.type # "END" => m.pause \in Pauses
           /\ UNCHANGED <<steps, trays, log, host, received, page, faults, torn>>
           /\ PausedStep(m) \/ ResumedStep(m) \/ StoppedStep(m) \/ EndedStep(m)
<1>1. m \in sent /\ m \notin received.messages /\ handler.pc = "idle" /\ m \in Message
  BY DEF SaltTypeOK, EventTypeOK, Receive, Accepts, Unlogged
<1>2. m.type # "END" => m.pause \in Pauses
  BY <1>1 DEF SaltTypeOK, EventTypeOK
<1>3. UNCHANGED <<steps, trays, log, host, received, page, faults, torn>>
  BY DEF Receive
<1>4. ASSUME NEW pc \in Handling, NEW k \in Stops, Takes(m, pc, k) PROVE Hands(m, pc, k)
  BY <1>1, <1>4, TakesFacts DEF SaltTypeOK, Hands
<1>5. pause \in [Pauses -> [status : Statuses, kind : Stops]]
  BY DEF SaltTypeOK, MesTypeOK
<1>6. CASE Paused(m)
  <2>1. Hands(m, "log", "completion")
    BY <1>4, <1>6 DEF Paused, Handling, Stops
  <2>2. m.pause \in Pauses
    BY <1>2, <1>6 DEF Paused, MayPause
  <2>3. ASSUME pause' = [pause EXCEPT ![m.pause].status = "PAUSED"]
        PROVE  Sets(m.pause, "PAUSED", pause[m.pause].kind)
    BY <1>5, <2>2, <2>3 DEF Sets, Statuses
  <2> QED
    BY <1>1, <1>2, <1>3, <1>6, <2>1, <2>3 DEF Paused, MayPause, PausedStep
<1>7. CASE Resumed(m)
  <2>1. m.type = "RESUME" /\ m.pause \in Pauses
    BY <1>2, <1>7 DEF Resumed, MayResume
  <2>2. trays \in {"returned", "preparing"}
    BY <1>7 DEF Resumed, MayResume, ReadyToResume, TraysBack
  <2>3. CASE pause[m.pause].status = "RESUMED" /\ Takes(m, "samples_again", "completion") /\ UNCHANGED <<run, pause, shifts>>
    <3>1. Hands(m, "samples_again", "completion")
      BY <1>4, <2>3 DEF Handling, Resuming, Stops
    <3> QED
      BY <1>1, <1>2, <1>3, <2>1, <2>2, <2>3, <3>1 DEF ResumedStep
  <2>4. CASE /\ run = "PAUSED" /\ PauseOpen(m.pause) /\ run' = "RUNNING"
             /\ pause' = [pause EXCEPT ![m.pause].status = "RESUMED"]
             /\ shifts' = [shifts EXCEPT !.run = @ + 1]
             /\ Takes(m, "samples", "completion")
    <3>1. Hands(m, "samples", "completion")
      BY <1>4, <2>4 DEF Handling, Resuming, Stops
    <3>2. Sets(m.pause, "RESUMED", pause[m.pause].kind)
      BY <1>5, <2>1, <2>4 DEF Sets, Statuses
    <3>3. shifts' \in [run : Nat, schedule : Nat] /\ shifts'.run = shifts.run + 1 /\ shifts'.schedule = shifts.schedule
      BY <2>4 DEF SaltTypeOK, MesTypeOK
    <3> QED
      BY <1>1, <1>2, <1>3, <2>1, <2>2, <2>4, <3>1, <3>2, <3>3 DEF ResumedStep
  <2> QED
    BY <1>7, <2>3, <2>4 DEF Resumed, MayResume, PauseOpen
<1>8. CASE Stopped(m)
  <2>1. m.type = "STOP" /\ m.pause \in Pauses /\ UNCHANGED shifts
    BY <1>2, <1>8 DEF Stopped, MayStop
  <2>2. Live("STOP", m.pause) \in SUBSET Commands /\ Live("STOP", m.pause) # {}
    BY <1>8 DEF Stopped, MayStop, Live, Commands
  <2> DEFINE c == LatestOf(Live("STOP", m.pause))
  <2>3. c \in Live("STOP", m.pause)
    BY <2>2, LatestIsOneOfThem DEF SaltTypeOK
  <2>4. c \in Commands /\ c.type = "STOP" /\ c.pause = m.pause
    BY <2>3 DEF Live, Commands
  <2>5. c.kind \in Stops
    BY <2>4, CommandFacts DEF SaltTypeOK, LoggedCommand
  <2>6. CASE pause[m.pause].status = "STOPPED" /\ UNCHANGED <<run, pause>>
    <3>1. ~ PauseOpen(m.pause)
      BY <2>6 DEF PauseOpen
    <3>2. Takes(m, IF pause[m.pause].kind = "abnormal" THEN "terminate"
                   ELSE IF c.kind = "completion" THEN "complete" ELSE "log", c.kind)
      BY <1>8, <3>1, Zenon DEF Stopped
    <3> HIDE DEF c
    <3>3. (IF pause[m.pause].kind = "abnormal" THEN "terminate"
                   ELSE IF c.kind = "completion" THEN "complete" ELSE "log") \in Handling
      BY DEF Handling
    <3>4. Hands(m, IF pause[m.pause].kind = "abnormal" THEN "terminate"
                   ELSE IF c.kind = "completion" THEN "complete" ELSE "log", c.kind)
      BY <1>4, <2>5, <3>2, <3>3
    <3> QED
      BY <1>1, <1>2, <1>3, <2>1, <2>4, <2>6, <3>4 DEF StoppedStep
  <2>7. CASE /\ PauseOpen(m.pause)
             /\ pause' = [pause EXCEPT ![m.pause] = [status |-> "STOPPED", kind |-> c.kind]]
             /\ run' = IF c.kind = "abnormal" /\ run = "PAUSED" THEN "ABNORMAL" ELSE run
    <3>1. Takes(m, IF c.kind = "abnormal" THEN "terminate"
                   ELSE IF c.kind = "completion" THEN "complete" ELSE "log", c.kind)
      BY <1>8, <2>7, Zenon DEF Stopped
    <3> HIDE DEF c
    <3>2. Hands(m, IF c.kind = "abnormal" THEN "terminate" ELSE "complete", c.kind)
      <4>1. c.kind = "abnormal" \/ c.kind = "completion"
        BY <2>5 DEF Stops
      <4>2. CASE c.kind = "abnormal"
        BY <1>4, <2>5, <3>1, <4>2 DEF Handling
      <4>3. CASE c.kind = "completion"
        BY <1>4, <2>5, <3>1, <4>3 DEF Handling
      <4> QED
        BY <4>1, <4>2, <4>3
    <3>3. Sets(m.pause, "STOPPED", c.kind)
      BY <1>5, <2>1, <2>5, <2>7 DEF Sets, Statuses
    <3> QED
      BY <1>1, <1>2, <1>3, <2>1, <2>4, <2>7, <3>2, <3>3 DEF StoppedStep
  <2>8. \/ pause[m.pause].status = "STOPPED" /\ UNCHANGED <<run, pause>>
        \/ /\ PauseOpen(m.pause)
           /\ pause' = [pause EXCEPT ![m.pause] = [status |-> "STOPPED", kind |-> c.kind]]
           /\ run' = IF c.kind = "abnormal" /\ run = "PAUSED" THEN "ABNORMAL" ELSE run
    BY <1>8, Zenon DEF Stopped
  <2> QED
    BY <2>6, <2>7, <2>8
<1>9. CASE m.type = "END" /\ Takes(m, "complete", "completion") /\ UNCHANGED <<run, pause, shifts>>
  <2>1. Hands(m, "complete", "completion")
    BY <1>4, <1>9 DEF Handling, Stops
  <2> QED
    BY <1>1, <1>2, <1>3, <1>9, <2>1 DEF EndedStep
<1> QED
  BY <1>6, <1>7, <1>8, <1>9 DEF Receive

LEMMA ReceiveTypes ==
    ASSUME SaltTypeOK, NEW m \in Unlogged, Receive(m)
    PROVE  SaltTypeOK'
<1>1. /\ m \in sent
      /\ UNCHANGED <<steps, trays, log, host, received, page, faults, torn>>
      /\ PausedStep(m) \/ ResumedStep(m) \/ StoppedStep(m) \/ EndedStep(m)
  BY ReceiveFacts
<1>2. run' \in {"RUNNING", "PAUSED"} \union Over /\ shifts' \in [run : Nat, schedule : Nat]
  BY <1>1 DEF SaltTypeOK, MesTypeOK, PausedStep, ResumedStep, StoppedStep, EndedStep, Over
<1>3. pause' \in [Pauses -> [status : Statuses, kind : Stops]]
  BY <1>1 DEF SaltTypeOK, MesTypeOK, PausedStep, ResumedStep, StoppedStep, EndedStep, Sets
<1>4. handler' \in [pc : Handling, message : Message, kind : Stops] /\ handler'.message = m
  BY <1>1 DEF PausedStep, ResumedStep, StoppedStep, EndedStep, Hands
<1> QED
  BY <1>1, <1>2, <1>3, <1>4, HandlerTypes DEF SaltTypeOK, MesTypeOK, LogTypeOK, Commands, host

\* The steps of the handler after it has received a confirmation.
LaterStep == WriteSamples \/ Cascade \/ Terminate \/ Complete \/ LogMessage \/ LogEvent \/ Crash

LEMMA LaterTypes ==
    ASSUME SaltTypeOK, LaterStep
    PROVE  SaltTypeOK'
<1>1. UNCHANGED <<pause, steps, log, host, page>>
  BY DEF LaterStep, WriteSamples, Cascade, Terminate, Complete, LogMessage, LogEvent, Crash, mes
<1>2. LogTypeOK'
  BY <1>1 DEF SaltTypeOK, LogTypeOK, Commands, host
<1>3. MesTypeOK'
  <2>1. run' \in {"RUNNING", "PAUSED"} \union Over
    BY DEF LaterStep, WriteSamples, Cascade, Terminate, Complete, LogMessage, LogEvent, Crash, mes,
           SaltTypeOK, MesTypeOK, Over
  <2>2. trays' = trays \/ trays' \in {"chamber", "terminated", "done"}
    BY DEF LaterStep, WriteSamples, Cascade, Terminate, Complete, LogMessage, LogEvent, Crash, mes
  <2>3. shifts' \in [run : Nat, schedule : Nat]
    BY DEF LaterStep, WriteSamples, Cascade, Terminate, Complete, LogMessage, LogEvent, Crash, mes,
           SaltTypeOK, MesTypeOK
  <2> QED
    BY <1>1, <2>1, <2>2, <2>3 DEF SaltTypeOK, MesTypeOK
<1>4. Idle \in [pc : Handling, message : Message, kind : Stops] /\ Idle.pc = "idle"
  BY SaltAssumption DEF Idle, NoCommand, Command, Handling, Message, Stops, Types
<1>5. EventTypeOK'
  <2> USE DEF SaltTypeOK
  <2>1. CASE \E pc \in Handling : Goes(pc) /\ handler.pc # "idle" /\ UNCHANGED <<received, faults, torn>>
    BY <1>1, <2>1, GoesFacts, HandlerTypes DEF EventTypeOK, host
  <2>2. CASE LogMessage
    <3>1. handler' \in [pc : Handling, message : Message, kind : Stops] /\ handler'.message \in sent
      BY <2>2, GoesFacts DEF LogMessage, Handling, EventTypeOK
    <3>2. received' \in [messages : SUBSET sent, events : SUBSET ((Types \union {"END"}) \X (0..MaxPauses))]
      BY <2>2 DEF LogMessage, EventTypeOK
    <3> QED
      BY <1>1, <2>2, <3>1, <3>2 DEF LogMessage, EventTypeOK, host
  <2>3. CASE LogEvent
    <3>1. received' \in [messages : SUBSET sent, events : SUBSET ((Types \union {"END"}) \X (0..MaxPauses))]
      <4>1. <<handler.message.type, handler.message.pause>> \in (Types \union {"END"}) \X (0..MaxPauses)
        BY DEF EventTypeOK, Message
      <4> QED
        BY <2>3, <4>1 DEF LogEvent, EventTypeOK
    <3> QED
      BY <1>1, <1>4, <2>3, <3>1 DEF LogEvent, EventTypeOK, host
  <2>4. CASE Crash
    <3>1. torn' \subseteq 0..MaxPauses
      <4>1. handler.message.pause \in 0..MaxPauses
        BY DEF EventTypeOK, Message
      <4> QED
        BY <2>4, <4>1 DEF Crash, EventTypeOK
    <3>2. faults' \in 0..MaxFaults
      BY <2>4, SaltAssumption DEF Crash, Fault, EventTypeOK
    <3> QED
      BY <1>1, <1>4, <2>4, <3>1, <3>2 DEF Crash, EventTypeOK, host
  <2>5. CASE WriteSamples
    <3>1. (IF handler.pc = "samples" THEN "cascade" ELSE "log") \in Handling
      BY DEF Handling, Resuming
    <3> QED
      BY <2>1, <2>5, <3>1 DEF WriteSamples
  <2>6. CASE Cascade
    BY <2>1, <2>6 DEF Cascade, Handling
  <2>7. CASE Terminate
    <3>1. (IF handler.kind = "completion" THEN "complete" ELSE "log") \in Handling
      BY DEF Handling
    <3> QED
      BY <2>1, <2>7, <3>1 DEF Terminate
  <2>8. CASE Complete
    BY <2>1, <2>8 DEF Complete, Handling
  <2> QED
    BY <2>2, <2>3, <2>4, <2>5, <2>6, <2>7, <2>8 DEF LaterStep
<1> QED
  BY <1>2, <1>3, <1>5 DEF SaltTypeOK

\* The steps, by actor.
LEMMA NextCases ==
    ASSUME [Next]_vars
    PROVE  \/ PageStep
           \/ \E p \in Pauses : Inspect(p) \/ Prepare(p)
           \/ EndByItself \/ \E c \in toHost : Execute(c)
           \/ \E m \in Unlogged : Receive(m)
           \/ LaterStep
           \/ UNCHANGED vars
  BY DEF Next, PageStep, LaterStep

LEMMA TypeStep ==
    ASSUME SaltTypeOK, [Next]_vars
    PROVE  SaltTypeOK'
<1>1. CASE PageStep
  <2>1. /\ LogTypeOK' /\ UNCHANGED <<mes, device, sent, received, handler, torn>>
        /\ faults' = faults \/ (faults < MaxFaults /\ faults' = faults + 1)
    BY <1>1, PageStepFacts DEF SaltTypeOK
  <2>2. MesTypeOK'
    BY <2>1 DEF SaltTypeOK, MesTypeOK, mes
  <2>3. faults' \in 0..MaxFaults
    BY <2>1, SaltAssumption DEF SaltTypeOK, EventTypeOK
  <2>4. EventTypeOK'
    BY <2>1, <2>3 DEF SaltTypeOK, EventTypeOK
  <2> QED
    BY <2>1, <2>2, <2>4 DEF SaltTypeOK
<1>2. CASE UNCHANGED vars
  BY <1>2 DEF vars, mes, host, SaltTypeOK, MesTypeOK, LogTypeOK, EventTypeOK, Commands
<1> QED
  BY <1>1, <1>2, NextCases, PreparationTypes, HostTypes, ReceiveTypes, LaterTypes

\* The variables keep their types; a command on its way is one that was logged, and
\* a confirmation that is handled or logged is one the upper computer sent.
THEOREM SaltTypes == SaltSpec => []SaltTypeOK
<1>1. Init => SaltTypeOK
  BY TypeInit
<1>2. SaltTypeOK /\ [Next]_vars => SaltTypeOK'
  BY TypeStep
<1> QED
  BY <1>1, <1>2, PTL DEF SaltSpec

-----------------------------------------------------------------------------
(* The run, its pauses and its trays.                                       *)

\* A page and the upper computer leave MES alone; what was sent only grows.
LEMMA ElsewhereKeepsRunInv ==
    ASSUME SaltTypeOK, RunInv, UNCHANGED <<mes, received, handler, torn>>, sent \subseteq sent'
    PROVE  RunInv'
<1>1. HandlerInv' /\ PauseInv' /\ ShiftInv'
  BY DEF RunInv, HandlerInv, PauseInv, ShiftInv, Resumptions, PauseOpen, mes
<1>2. \A m \in Unlogged : m \in Unlogged' /\ (Aborts(m) => Aborts(m)')
  BY DEF Unlogged, Aborts, mes
<1>3. TrayInv'
  BY <1>2 DEF RunInv, TrayInv, Aborts, mes
<1> QED
  BY <1>1, <1>3 DEF RunInv

\* The inspection and the preparation move the trays of a paused run only.
LEMMA PreparationKeepsRunInv ==
    ASSUME SaltTypeOK, RunInv, NEW p \in Pauses, Inspect(p) \/ Prepare(p)
    PROVE  RunInv'
<1>1. run = "PAUSED" /\ UNCHANGED <<run, pause, shifts, sent, received, handler, torn>>
  BY DEF Inspect, Prepare, host
<1> QED
  BY <1>1 DEF RunInv, HandlerInv, PauseInv, ShiftInv, Resumptions, PauseOpen, TrayInv, Aborts

LEMMA ReceiveKeepsRunInv ==
    ASSUME SaltTypeOK, RunInv, NEW m \in Unlogged, Receive(m)
    PROVE  RunInv'
<1>1. /\ m \in sent /\ m \notin received.messages /\ handler.pc = "idle"
      /\ m.type # "END" => m.pause \in Pauses
      /\ UNCHANGED <<steps, trays, log, host, received, page, faults, torn>>
      /\ PausedStep(m) \/ ResumedStep(m) \/ StoppedStep(m) \/ EndedStep(m)
  BY ReceiveFacts
<1>2. pause \in [Pauses -> [status : Statuses, kind : Stops]] /\ shifts \in [run : Nat, schedule : Nat]
  BY DEF SaltTypeOK, MesTypeOK
<1>3. HandlerInv'
  BY <1>1, <1>2 DEF PausedStep, ResumedStep, StoppedStep, EndedStep, Hands, Sets, HandlerInv, Resuming
<1>4. PauseInv'
  BY <1>1, <1>2 DEF RunInv, PauseInv, PauseOpen, PausedStep, ResumedStep, StoppedStep, EndedStep, Sets, Stops
<1>5. ShiftInv'
  <2>1. CASE ResumedStep(m) /\ UNCHANGED pause
    BY <1>1, <2>1 DEF RunInv, ShiftInv, Resumptions, ResumedStep, Sets, PauseOpen, Hands
  <2>2. CASE ResumedStep(m) /\ PauseOpen(m.pause)
    <3>1. Resumptions' = Resumptions \union {m.pause} /\ m.pause \notin Resumptions
      <4>1. m.pause \in Pauses /\ Sets(m.pause, "RESUMED", pause[m.pause].kind) /\ pause[m.pause].status # "RESUMED"
        <5>1. m.pause \in Pauses /\ pause[m.pause].status # "RESUMED"
          BY <1>1, <2>2 DEF ResumedStep, PauseOpen
        <5> QED
          BY <2>2, <5>1 DEF ResumedStep
      <4>2. \A q \in Pauses : pause'[q].status = "RESUMED" <=> q = m.pause \/ pause[q].status = "RESUMED"
        BY <4>1 DEF Sets
      <4> QED
        BY <4>1, <4>2 DEF Resumptions
    <3>2. IsFiniteSet(Resumptions)
      <4>1. IsFiniteSet(Pauses) /\ Resumptions \subseteq Pauses
        BY FS_Interval, SaltAssumption DEF Resumptions, Pauses
      <4> QED
        BY <4>1, FS_Subset
    <3>3. Cardinality(Resumptions') = Cardinality(Resumptions) + 1
      BY <3>1, <3>2, FS_AddElement
    <3> QED
      BY <1>1, <2>2, <3>3 DEF RunInv, ShiftInv, ResumedStep, PauseOpen, Hands
  <2>3. CASE ~ ResumedStep(m)
    <3>1. Resumptions' = Resumptions
      BY <1>1, <1>2, <2>3 DEF Resumptions, PausedStep, StoppedStep, EndedStep, Sets, PauseOpen
    <3> QED
      BY <1>1, <2>3, <3>1 DEF RunInv, ShiftInv, PausedStep, StoppedStep, EndedStep, Hands
  <2> QED
    BY <2>1, <2>2, <2>3 DEF ResumedStep
<1>6. TrayInv'
  <2>1. Unlogged' = Unlogged
    BY <1>1 DEF Unlogged, host
  <2>2. ASSUME NEW n \in Unlogged, Aborts(n) PROVE Aborts(n)'
    <3>1. n.pause \in Pauses
      BY <2>2 DEF SaltTypeOK, EventTypeOK, Unlogged, Aborts
    <3> QED
      BY <1>1, <1>2, <2>2, <3>1 DEF Aborts, PausedStep, ResumedStep, StoppedStep, EndedStep, Sets, PauseOpen
  <2>3. CASE PausedStep(m)
    BY <1>1, <2>1, <2>2, <2>3 DEF RunInv, TrayInv, PausedStep, Hands, Aborts
  <2>4. CASE ResumedStep(m)
    BY <1>1, <2>1, <2>2, <2>4 DEF RunInv, TrayInv, ResumedStep, Hands
  <2>5. CASE EndedStep(m)
    BY <1>1, <2>1, <2>2, <2>5 DEF RunInv, TrayInv, EndedStep, Hands
  <2>6. CASE StoppedStep(m)
    <3>1. PICK c \in Commands :
            \/ /\ pause[m.pause].status = "STOPPED" /\ UNCHANGED <<run, pause>>
               /\ Hands(m, IF pause[m.pause].kind = "abnormal" THEN "terminate"
                           ELSE IF c.kind = "completion" THEN "complete" ELSE "log", c.kind)
            \/ /\ PauseOpen(m.pause) /\ Sets(m.pause, "STOPPED", c.kind)
               /\ run' = IF c.kind = "abnormal" /\ run = "PAUSED" THEN "ABNORMAL" ELSE run
               /\ Hands(m, IF c.kind = "abnormal" THEN "terminate" ELSE "complete", c.kind)
      BY <2>6 DEF StoppedStep
    <3>2. handler'.pc \notin {"samples", "samples_again"} /\ handler'.message = m
      BY <3>1 DEF Hands
    <3>3. handler'.pc = "log" => ~ Aborts(m)'
      BY <3>1 DEF Hands, Aborts
    <3>4. run' = "RUNNING" => run = "RUNNING"
      BY <3>1
    <3>5. run' = "COMPLETED" => run = "COMPLETED"
      BY <3>1
    <3>6. run' = "ABNORMAL" => run = "ABNORMAL" \/ Aborts(m)'
      <4>1. CASE UNCHANGED run
        BY <4>1
      <4>2. CASE run' # run
        <5>1. c.kind = "abnormal" /\ Sets(m.pause, "STOPPED", c.kind)
          BY <3>1, <4>2
        <5>2. pause'[m.pause] = [status |-> "STOPPED", kind |-> "abnormal"]
          BY <1>1, <2>6, <5>1 DEF Sets, StoppedStep
        <5> QED
          BY <2>6, <5>2 DEF Aborts, StoppedStep
      <4> QED
        BY <4>1, <4>2
    <3> QED
      BY <1>1, <2>1, <2>2, <3>2, <3>3, <3>4, <3>5, <3>6 DEF RunInv, TrayInv
  <2> QED
    BY <1>1, <2>3, <2>4, <2>5, <2>6
<1> QED
  BY <1>3, <1>4, <1>5, <1>6 DEF RunInv

\* Writing, terminating and completing put the trays where the run says.
LEMMA LaterKeepsRunInv ==
    ASSUME SaltTypeOK, RunInv, LaterStep
    PROVE  RunInv'
<1>1. UNCHANGED <<pause, sent>> /\ (\A m : Aborts(m)' <=> Aborts(m))
  BY DEF LaterStep, WriteSamples, Cascade, Terminate, Complete, LogMessage, LogEvent, Crash, mes, host, Aborts
<1>2. handler \in [pc : Handling, message : Message, kind : Stops] /\ shifts \in [run : Nat, schedule : Nat]
  BY DEF SaltTypeOK, MesTypeOK, EventTypeOK
<1>3. CASE WriteSamples
  <2>1. /\ handler'.pc = (IF handler.pc = "samples" THEN "cascade" ELSE "log")
        /\ handler'.message = handler.message
    BY <1>2, <1>3 DEF WriteSamples, Goes
  <2>2. UNCHANGED <<run, shifts, received, torn>> /\ trays' = "chamber" /\ handler.pc \in {"samples", "samples_again"}
    BY <1>3 DEF WriteSamples
  <2>3. ~ Aborts(handler.message)
    BY <2>2 DEF RunInv, HandlerInv, Resuming, Aborts
  <2>4. run = "ABNORMAL" => \E m \in Unlogged : Aborts(m)
    BY <2>2 DEF RunInv, TrayInv
  <2>5. TrayInv'
    BY <1>1, <2>1, <2>2, <2>3, <2>4 DEF RunInv, TrayInv, Unlogged
  <2> QED
    BY <1>1, <2>1, <2>2, <2>5 DEF RunInv, HandlerInv, PauseInv, PauseOpen, ShiftInv, Resumptions, Resuming
<1>4. CASE Cascade
  <2>1. handler'.pc = "log" /\ handler'.message = handler.message /\ handler.pc = "cascade"
    BY <1>2, <1>4 DEF Cascade, Goes
  <2>2. UNCHANGED <<run, trays, received, torn>> /\ shifts'.run = shifts.run /\ shifts'.schedule = shifts.run
    BY <1>2, <1>4 DEF Cascade
  <2>3. ~ Aborts(handler.message)
    BY <2>1 DEF RunInv, HandlerInv, Resuming, Aborts
  <2>4. TrayInv'
    BY <1>1, <2>1, <2>2, <2>3 DEF RunInv, TrayInv, Unlogged
  <2> QED
    BY <1>1, <2>1, <2>2, <2>4 DEF RunInv, HandlerInv, PauseInv, PauseOpen, ShiftInv, Resumptions, Resuming
<1>5. CASE Terminate
  <2>1. /\ handler'.pc = (IF handler.kind = "completion" THEN "complete" ELSE "log")
        /\ handler'.message = handler.message /\ handler.pc = "terminate"
    BY <1>2, <1>5 DEF Terminate, Goes
  <2>2. UNCHANGED <<shifts, received, torn>> /\ run' = "ABNORMAL" /\ trays' = "terminated"
    BY <1>5 DEF Terminate
  <2>3. TrayInv'
    BY <2>1, <2>2 DEF TrayInv
  <2> QED
    BY <1>1, <2>1, <2>2, <2>3 DEF RunInv, HandlerInv, PauseInv, PauseOpen, ShiftInv, Resumptions, Resuming
<1>6. CASE Complete
  <2>1. handler'.pc = "log" /\ handler'.message = handler.message /\ handler.pc = "complete"
    BY <1>2, <1>6 DEF Complete, Goes
  <2>2. UNCHANGED <<shifts, received, torn>> /\ run' = "COMPLETED" /\ trays' = "done"
    BY <1>6 DEF Complete
  <2> QED
    BY <1>1, <2>1, <2>2 DEF RunInv, HandlerInv, PauseInv, PauseOpen, ShiftInv, Resumptions, Resuming, TrayInv
<1>7. CASE LogMessage
  <2>1. handler'.pc = "event" /\ handler'.message = handler.message /\ handler.pc = "log"
    BY <1>2, <1>7 DEF LogMessage, Goes
  <2>2. UNCHANGED <<run, trays, shifts, torn>> /\ received'.messages = received.messages \union {handler.message}
    BY <1>7 DEF LogMessage, mes, SaltTypeOK, EventTypeOK
  <2>3. ASSUME NEW m \in Unlogged, run = "ABNORMAL", Aborts(m), trays # "terminated" PROVE m \in Unlogged'
    <3>1. ~ Aborts(handler.message)
      BY <2>1, <2>3 DEF RunInv, TrayInv
    <3> QED
      BY <1>1, <2>2, <2>3, <3>1 DEF Unlogged
  <2>4. TrayInv'
    BY <1>1, <2>1, <2>2, <2>3 DEF RunInv, TrayInv
  <2> QED
    BY <1>1, <2>1, <2>2, <2>4 DEF RunInv, HandlerInv, PauseInv, PauseOpen, ShiftInv, Resumptions, Resuming
<1>8. CASE LogEvent
  <2>1. handler'.pc = "idle" /\ handler.pc = "event"
    BY <1>8 DEF LogEvent, Idle
  <2>2. UNCHANGED <<run, trays, shifts, torn>> /\ received'.messages = received.messages
    BY <1>8 DEF LogEvent, mes, SaltTypeOK, EventTypeOK
  <2> QED
    BY <1>1, <2>1, <2>2 DEF RunInv, HandlerInv, PauseInv, PauseOpen, ShiftInv, Resumptions, Resuming, TrayInv, Unlogged
<1>9. CASE Crash
  <2>1. handler'.pc = "idle" /\ UNCHANGED <<run, trays, shifts, received>>
    BY <1>9 DEF Crash, Idle, mes
  <2>2. torn' = {} => torn = {} /\ handler.pc \notin {"samples", "samples_again", "cascade"}
    BY <1>9 DEF Crash
  <2> QED
    BY <1>1, <2>1, <2>2 DEF RunInv, HandlerInv, PauseInv, PauseOpen, ShiftInv, Resumptions, Resuming, TrayInv, Unlogged
<1> QED
  BY <1>3, <1>4, <1>5, <1>6, <1>7, <1>8, <1>9 DEF LaterStep

\* A confirmation only adds to what was sent.
LEMMA HostStepFacts ==
    ASSUME SaltTypeOK, EndByItself \/ \E c \in toHost : Execute(c)
    PROVE  sent \subseteq sent' /\ UNCHANGED <<mes, log, received, handler, torn>>
  BY DEF EndByItself, Execute, Confirm

LEMMA RunInvStep ==
    ASSUME SaltTypeOK, RunInv, [Next]_vars
    PROVE  RunInv'
<1>1. CASE PageStep
  BY <1>1, PageStepFacts, ElsewhereKeepsRunInv DEF SaltTypeOK
<1>2. CASE EndByItself \/ \E c \in toHost : Execute(c)
  BY <1>2, HostStepFacts, ElsewhereKeepsRunInv
<1>3. CASE UNCHANGED vars
  BY <1>3, ElsewhereKeepsRunInv DEF vars, host
<1> QED
  BY <1>1, <1>2, <1>3, NextCases, PreparationKeepsRunInv, ReceiveKeepsRunInv, LaterKeepsRunInv

LEMMA RunInvInit == Init => RunInv
<1> SUFFICES ASSUME Init PROVE RunInv
  OBVIOUS
<1>1. Resumptions = {} /\ \A p \in Pauses : ~ PauseOpen(p)
  BY DEF Init, Resumptions, PauseOpen
<1>2. handler.pc = "idle" /\ run = "RUNNING" /\ trays = "chamber" /\ shifts.run = 0 /\ shifts.schedule = 0
  BY DEF Init, Idle
<1> QED
  BY <1>1, <1>2, FS_EmptySet DEF RunInv, HandlerInv, PauseInv, ShiftInv, TrayInv, Resuming

LEMMA RunInvHolds == SaltSpec => []RunInv
<1>1. Init => RunInv
  BY RunInvInit
<1>2. SaltTypeOK /\ RunInv /\ [Next]_vars => RunInv'
  BY RunInvStep
<1> QED
  BY <1>1, <1>2, SaltTypes, PTL DEF SaltSpec

\* A set of which any two members are equal has at most one.
LEMMA AtMostOne ==
    ASSUME NEW S, \A x, y \in S : x = y
    PROVE  Cardinality(S) <= 1
<1>1. CASE S = {}
  BY <1>1, FS_EmptySet
<1>2. ASSUME NEW x \in S PROVE Cardinality(S) <= 1
  <2>1. S = {x}
    OBVIOUS
  <2> QED
    BY <2>1, FS_Singleton
<1> QED
  BY <1>1, <1>2

\* At most one pause is open; a running run has none, and a paused run has one or
\* was stopped and awaits its completion: whatever the order of the confirmations
\* and wherever the handler was cut short.
THEOREM PauseMatchesRunHolds == SaltSpec => []PauseMatchesRun
<1>1. RunInv => PauseMatchesRun
  <2> SUFFICES ASSUME RunInv PROVE PauseMatchesRun
    OBVIOUS
  <2> DEFINE open == {p \in Pauses : PauseOpen(p)}
  <2>1. \A x, y \in open : x = y
    BY DEF RunInv, PauseInv
  <2>2. Cardinality(open) <= 1
    <3> HIDE DEF open
    <3> QED
      BY <2>1, AtMostOne
  <2> QED
    BY <2>2 DEF RunInv, PauseInv, PauseMatchesRun
<1> QED
  BY <1>1, RunInvHolds, PTL

\* The planned end of the run is shifted once for each resumed pause, however often
\* the confirmation comes, and the schedule with it unless a crash came between.
THEOREM ShiftedOnceHolds == SaltSpec => []ShiftedOnce
<1>1. RunInv => ShiftedOnce
  BY DEF RunInv, ShiftInv, ShiftedOnce, Resumptions
<1> QED
  BY <1>1, RunInvHolds, PTL

\* Once every confirmation is logged the trays are where the run says, also when a
\* termination was cut short between the run and the trays.
THEOREM TraysFollowRunHolds == SaltSpec => []TraysFollowRun
<1>1. RunInv => TraysFollowRun
  BY DEF RunInv, TrayInv, TraysFollowRun
<1> QED
  BY <1>1, RunInvHolds, PTL

-----------------------------------------------------------------------------
(* The upper computer and the commands it executes.                         *)

\* What was said stays said, and a command stays logged.
LEMMA SaidGrows ==
    ASSUME SaltTypeOK, [Next]_vars
    PROVE  sent \subseteq sent' /\ Commands \subseteq Commands'
<1>1. CASE PageStep
  BY <1>1, PageStepFacts DEF SaltTypeOK
<1>2. CASE EndByItself \/ \E c \in toHost : Execute(c)
  BY <1>2, HostStepFacts DEF Commands
<1>3. CASE UNCHANGED vars
  BY <1>3 DEF vars, host, Commands
<1>4. ASSUME NEW p \in Pauses, Inspect(p) \/ Prepare(p) PROVE sent' = sent /\ Commands' = Commands
  BY <1>4 DEF Inspect, Prepare, host, Commands
<1>5. ASSUME NEW m \in Unlogged, Receive(m) PROVE sent' = sent /\ Commands' = Commands
  BY <1>5 DEF Receive, host, Commands
<1>6. CASE LaterStep
  BY <1>6 DEF LaterStep, WriteSamples, Cascade, Terminate, Complete, LogMessage, LogEvent, Crash, host, Commands
<1> QED
  BY <1>1, <1>2, <1>3, <1>4, <1>5, <1>6, NextCases

\* Only the upper computer and a page change the commands and what was sent.
LEMMA MesKeepsHost ==
    ASSUME \/ \E p \in Pauses : Inspect(p) \/ Prepare(p)
           \/ \E m \in Unlogged : Receive(m)
           \/ LaterStep \/ UNCHANGED vars
    PROVE  UNCHANGED <<log, toHost, device, sent>>
  BY DEF LaterStep, WriteSamples, Cascade, Terminate, Complete, LogMessage, LogEvent, Crash, Receive,
         Inspect, Prepare, vars, host

LEMMA PublishKeepsCommandInv ==
    ASSUME SaltTypeOK, CommandInv, NEW c \in LoggedCommand,
           Commands' = Commands \union {c}, toHost' \subseteq toHost \union {c},
           c.type = "PAUSE" => c.pause = NextPause, UNCHANGED sent
    PROVE  CommandInv'
<1>1. \A t, p : Said(t, p)' <=> Said(t, p)
  BY DEF Said
<1>2. CASE c.type # "PAUSE"
  <2>1. PauseCommands' = PauseCommands
    BY <1>2 DEF PauseCommands
  <2> QED
    BY <1>1, <1>2, <2>1 DEF CommandInv
<1>3. CASE c.type = "PAUSE"
  <2>1. PauseCommands' = PauseCommands \union {c}
    BY <1>3 DEF PauseCommands
  <2>2. IsFiniteSet(PauseCommands)
    BY FS_Subset DEF PauseCommands, SaltTypeOK, LogTypeOK
  <2>3. Cardinality(PauseCommands) \in Nat /\ c.pause = Cardinality(PauseCommands) + 1
    BY <1>3, <2>2, FS_CardinalityType DEF NextPause, PauseCommands
  <2>4. \A d \in PauseCommands : d.pause \in Nat /\ d.pause < c.pause
    BY <2>3, CommandFacts DEF CommandInv, PauseCommands, SaltTypeOK, LoggedCommand, Pauses
  <2>5. c \notin PauseCommands
    BY <2>3, <2>4
  <2>6. Cardinality(PauseCommands') = Cardinality(PauseCommands) + 1
    BY <2>1, <2>2, <2>5, FS_AddElement
  <2>7. ~ Said("PAUSE", c.pause)
    <3>1. SUFFICES ASSUME NEW m \in sent, m.type = "PAUSE", m.pause = c.pause PROVE FALSE
      BY DEF Said
    <3>2. PICK d \in Commands : d.type = "PAUSE" /\ d.pause = c.pause
      BY <3>1 DEF CommandInv
    <3> QED
      BY <3>2, <2>4 DEF PauseCommands
  <2>8. \A d \in PauseCommands' : d.pause <= Cardinality(PauseCommands')
    BY <2>1, <2>3, <2>4, <2>6
  <2>9. \A d, e \in PauseCommands' : d.pause = e.pause => d = e
    BY <2>1, <2>3, <2>4 DEF CommandInv
  <2> QED
    BY <1>1, <2>7, <2>8, <2>9 DEF CommandInv
<1> QED
  BY <1>2, <1>3

\* Executing a command that fits, for one type of command after the other.
LEMMA ExecuteKeepsHostInv ==
    ASSUME SaltTypeOK, CommandInv, DeviceInv, NEW c \in toHost, Execute(c)
    PROVE  CommandInv' /\ DeviceInv'
<1>1. c \in LoggedCommand /\ c \in Commands
  BY CommandFacts DEF SaltTypeOK, LogTypeOK
<1>2. Commands' = Commands /\ PauseCommands' = PauseCommands /\ toHost' = toHost \ {c}
  BY DEF Execute, Commands, PauseCommands
<1>3. CASE ~ Fits(c)
  <2>1. UNCHANGED <<device, sent>>
    BY <1>3 DEF Execute
  <2> QED
    BY <1>2, <2>1 DEF CommandInv, DeviceInv, Said, Final
<1>4. CASE Fits(c)
  <2>1. PICK m \in Message : m.type = c.type /\ m.pause = c.pause /\ m.kind = c.kind /\ sent' = sent \union {m}
    <3>1. Confirm(c.type, c.pause, c.kind)
      BY <1>4 DEF Execute
    <3> QED
      BY <1>1, <3>1, ConfirmFacts, SaltAssumption DEF SaltTypeOK, LoggedCommand, Pauses
  <2>2. \A t, p : Said(t, p)' <=> Said(t, p) \/ (t = c.type /\ p = c.pause)
    BY <2>1 DEF Said
  <2>3. device'.pause = c.pause /\ device'.kind = c.kind /\ c.pause \in Pauses
    BY <1>1, <1>4 DEF Execute, LoggedCommand
  <2>4. c.type \in {"PAUSE", "RESUME", "STOP"} /\ m.type # "END"
    BY <1>1, <2>1 DEF LoggedCommand, Types
  <2>5. \A d \in toHost' : d.type = "PAUSE" => ~ Said("PAUSE", d.pause) /\ (c.type = "PAUSE" => d.pause # c.pause)
    <3>1. SUFFICES ASSUME NEW d \in toHost', d.type = "PAUSE", c.type = "PAUSE", d.pause = c.pause PROVE FALSE
      BY <1>2 DEF CommandInv
    <3>2. d \in PauseCommands /\ c \in PauseCommands
      BY <1>1, <1>2, <3>1 DEF PauseCommands, SaltTypeOK, LogTypeOK
    <3> QED
      BY <1>2, <3>1, <3>2 DEF CommandInv
  <2>6. Said("PAUSE", c.pause)'
    BY <2>2, <2>4, <1>4 DEF Fits, DeviceInv
  <2>7. CommandInv'
    <3>1. \A d \in toHost' : d.type = "PAUSE" => ~ Said("PAUSE", d.pause)'
      BY <2>2, <2>5
    <3>2. \A n \in sent' : n.type # "END" => Said("PAUSE", n.pause)'
      BY <2>1, <2>2, <2>6 DEF CommandInv
    <3>3. \A n \in sent' : n.type # "END" =>
             \E d \in Commands' : d.type = n.type /\ d.pause = n.pause /\ d.kind = n.kind
      BY <1>1, <1>2, <2>1 DEF CommandInv
    <3> QED
      BY <1>2, <3>1, <3>2, <3>3 DEF CommandInv
  <2>8. CASE c.type = "PAUSE"
    <3>1. device.state = "running" /\ device'.state = "paused"
      BY <1>4, <2>8 DEF Fits, Execute, After
    <3>2. ~ Said("RESUME", c.pause)
      <4>1. ~ Said("PAUSE", c.pause)
        BY <2>8 DEF CommandInv
      <4> QED
        BY <4>1 DEF CommandInv, Said
    <3>3. \A n \in sent' : ~ Final(n) /\ n.type # "END"
      BY <2>1, <2>8, <3>1 DEF DeviceInv, Final
    <3>4. \A p \in Pauses : Said("PAUSE", p)' /\ ~ Said("RESUME", p)' => p = c.pause
      BY <2>2, <3>1 DEF DeviceInv
    <3> QED
      BY <2>2, <2>3, <2>6, <2>7, <2>8, <3>1, <3>2, <3>3, <3>4 DEF DeviceInv
  <2>9. CASE c.type = "RESUME"
    <3>1. device.state = "paused" /\ device.pause = c.pause /\ device'.state = "running"
      BY <1>4, <2>9 DEF Fits, Execute, After
    <3>2. \A n \in sent' : ~ Final(n) /\ n.type # "END"
      BY <2>1, <2>9, <3>1 DEF DeviceInv, Final
    <3>3. \A p \in Pauses : ~ (Said("PAUSE", p)' /\ ~ Said("RESUME", p)')
      BY <2>2, <2>9, <3>1 DEF DeviceInv
    <3> QED
      BY <2>7, <3>1, <3>2, <3>3 DEF DeviceInv
  <2>10. CASE c.type = "STOP"
    <3>1. device.state = "paused" /\ device'.state = "over"
      BY <1>4, <2>10 DEF Fits, Execute, After
    <3>2. \A n \in sent : ~ Final(n) /\ n.type # "END"
      BY <3>1 DEF DeviceInv, Final
    <3>3. m \in sent' /\ Final(m) /\ m.kind = device'.kind
      BY <2>1, <2>3, <2>10 DEF Final
    <3>4. \A n \in sent' : Final(n) => n = m
      BY <2>1, <3>2
    <3>5. \A n \in sent' : n.type # "END"
      BY <2>1, <2>4, <3>2
    <3> QED
      BY <2>7, <3>1, <3>3, <3>4, <3>5 DEF DeviceInv
  <2> QED
    BY <2>4, <2>8, <2>9, <2>10, <2>7
<1> QED
  BY <1>3, <1>4

LEMMA EndKeepsHostInv ==
    ASSUME SaltTypeOK, CommandInv, DeviceInv, EndByItself
    PROVE  CommandInv' /\ DeviceInv'
<1>1. PICK m \in Message : m.type = "END" /\ m.kind = "completion" /\ sent' = sent \union {m}
  BY ConfirmFacts, SaltAssumption DEF EndByItself, SaltTypeOK, Stops
<1>2. UNCHANGED <<log, toHost>> /\ Commands' = Commands /\ PauseCommands' = PauseCommands
  BY DEF EndByItself, Commands, PauseCommands
<1>3. \A t, p : t # "END" => (Said(t, p)' <=> Said(t, p))
  BY <1>1 DEF Said
<1>4. device.state = "running" /\ device'.state = "over" /\ device'.kind = "completion"
  BY DEF EndByItself, SaltTypeOK, EventTypeOK
<1>5. \A n \in sent : ~ Final(n)
  BY <1>4 DEF DeviceInv
<1>6. CommandInv'
  BY <1>1, <1>2, <1>3 DEF CommandInv
<1>7. DeviceInv'
  <2>1. m \in sent' /\ Final(m) /\ \A n \in sent' : Final(n) => n = m
    BY <1>1, <1>5 DEF Final
  <2>2. \A n \in sent' : n.type = "END" => n.kind = "completion"
    BY <1>1, <1>5 DEF Final
  <2> QED
    BY <1>1, <1>4, <2>1, <2>2 DEF DeviceInv
<1> QED
  BY <1>6, <1>7

LEMMA HostInvStep ==
    ASSUME SaltTypeOK, CommandInv, DeviceInv, [Next]_vars
    PROVE  CommandInv' /\ DeviceInv'
<1>1. CASE PageStep
  <2>1. UNCHANGED <<device, sent>>
    BY <1>1, PageStepFacts DEF SaltTypeOK
  <2>2. DeviceInv'
    BY <2>1 DEF DeviceInv, Said, Final
  <2>3. CASE Commands' = Commands /\ toHost' = toHost
    BY <2>1, <2>2, <2>3 DEF CommandInv, PauseCommands, Said
  <2> QED
    BY <1>1, <2>1, <2>2, <2>3, PageStepFacts, PublishKeepsCommandInv DEF SaltTypeOK
<1>2. CASE UNCHANGED <<log, toHost, device, sent>>
  BY <1>2 DEF CommandInv, DeviceInv, PauseCommands, Commands, Said, Final
<1> QED
  BY <1>1, <1>2, NextCases, MesKeepsHost, ExecuteKeepsHostInv, EndKeepsHostInv

LEMMA HostInvInit == Init => CommandInv /\ DeviceInv
<1> SUFFICES ASSUME Init PROVE CommandInv /\ DeviceInv
  OBVIOUS
<1>1. Commands = {} /\ PauseCommands = {} /\ toHost = {} /\ sent = {} /\ device.state = "running"
  BY DEF Init, Commands, PauseCommands
<1> QED
  BY <1>1 DEF CommandInv, DeviceInv, Said

-----------------------------------------------------------------------------
(* MES records what the upper computer said, and nothing else.              *)

\* A pause keeps the kind it was stopped with; other statuses only move on.
LEMMA ReceiveKeepsCauseInv ==
    ASSUME SaltTypeOK, CauseInv, CommandInv, NEW m \in Unlogged, Receive(m)
    PROVE  CauseInv'
<1>1. /\ m \in sent /\ m \notin received.messages /\ handler.pc = "idle"
      /\ m.type # "END" => m.pause \in Pauses
      /\ UNCHANGED <<steps, trays, log, host, received, page, faults, torn>>
      /\ PausedStep(m) \/ ResumedStep(m) \/ StoppedStep(m) \/ EndedStep(m)
  BY ReceiveFacts
<1>2. Commands' = Commands /\ sent' = sent /\ (\A t, p : Said(t, p)' <=> Said(t, p))
  BY <1>1 DEF Commands, host, Said
<1>3. Said(m.type, m.pause)
  BY <1>1 DEF Said
<1>4. m.type # "END" => Said("PAUSE", m.pause)
  BY <1>1 DEF CommandInv
<1>5. CASE PausedStep(m)
  BY <1>1, <1>2, <1>3, <1>5 DEF PausedStep, Sets, Hands, CauseInv, Over
<1>6. CASE ResumedStep(m)
  BY <1>1, <1>2, <1>3, <1>4, <1>6 DEF ResumedStep, Sets, Hands, CauseInv, Over
<1>7. CASE EndedStep(m)
  BY <1>1, <1>2, <1>7 DEF EndedStep, Hands, CauseInv
<1>8. CASE StoppedStep(m)
  <2>1. PICK c \in Commands :
            /\ c.type = "STOP" /\ c.pause = m.pause
            /\ handler'.message = m /\ handler'.kind = c.kind
            /\ \/ UNCHANGED <<run, pause>>
               \/ /\ Sets(m.pause, "STOPPED", c.kind)
                  /\ run' \in {run, "ABNORMAL"}
    BY <1>8 DEF StoppedStep, Hands
  <2>2. m.type = "STOP" /\ Final(m)
    BY <1>8 DEF StoppedStep, Final
  <2>3. \A p \in Pauses :
            /\ pause'[p].status # "none" => Said("PAUSE", p)
            /\ pause'[p].status = "RESUMED" => Said("RESUME", p)
            /\ pause'[p].status = "STOPPED" =>
                  /\ Said("STOP", p)
                  /\ \E d \in Commands : d.type = "STOP" /\ d.pause = p /\ d.kind = pause'[p].kind
    <3>1. CASE UNCHANGED <<run, pause>>
      BY <3>1 DEF CauseInv
    <3>2. CASE Sets(m.pause, "STOPPED", c.kind)
      <4>1. ASSUME NEW p \in Pauses, p # m.pause PROVE pause'[p] = pause[p]
        BY <3>2, <4>1 DEF Sets
      <4>2. pause'[m.pause].status = "STOPPED" /\ pause'[m.pause].kind = c.kind
        BY <3>2 DEF Sets
      <4> QED
        BY <1>3, <1>4, <2>1, <2>2, <4>1, <4>2 DEF CauseInv
    <3> QED
      BY <2>1, <3>1, <3>2
  <2>4. run' \in Over => \E n \in sent : Final(n)
    BY <1>1, <2>1, <2>2 DEF CauseInv
  <2> QED
    BY <1>2, <2>1, <2>3, <2>4 DEF CauseInv
<1> QED
  BY <1>1, <1>5, <1>6, <1>7, <1>8

LEMMA LaterKeepsCauseInv ==
    ASSUME SaltTypeOK, RunInv, CauseInv, LaterStep
    PROVE  CauseInv'
<1>1. UNCHANGED <<pause, log, sent>>
  BY DEF LaterStep, WriteSamples, Cascade, Terminate, Complete, LogMessage, LogEvent, Crash, mes, host
<1>2. Commands' = Commands /\ (\A t, p : Said(t, p)' <=> Said(t, p))
  BY <1>1 DEF Commands, Said
<1>3. run' = run \/ (handler.pc \in {"terminate", "complete"} /\ handler.message \in sent /\ Final(handler.message))
  BY DEF LaterStep, WriteSamples, Cascade, Terminate, Complete, LogMessage, LogEvent, Crash, mes,
         RunInv, HandlerInv, Final, SaltTypeOK, EventTypeOK
<1>4. \/ handler'.pc \notin {"terminate", "complete"}
      \/ handler.pc = "terminate" /\ handler'.message = handler.message /\ handler'.kind = handler.kind
  <2>1. CASE Terminate
    BY <2>1 DEF Terminate, Goes, SaltTypeOK, EventTypeOK
  <2>2. CASE ~ Terminate
    BY <2>2 DEF LaterStep, WriteSamples, Cascade, Complete, LogMessage, LogEvent, Crash, Goes, Idle,
                SaltTypeOK, EventTypeOK
  <2> QED
    BY <2>1, <2>2
<1> QED
  BY <1>1, <1>2, <1>3, <1>4 DEF CauseInv

\* Steps that leave MES and its handler alone.
LEMMA ElsewhereKeepsCauseInv ==
    ASSUME CauseInv, UNCHANGED <<run, pause, handler>>, sent \subseteq sent', Commands \subseteq Commands'
    PROVE  CauseInv'
<1>1. \A t, p : Said(t, p) => Said(t, p)'
  BY DEF Said
<1> QED
  BY <1>1 DEF CauseInv

LEMMA CauseInvStep ==
    ASSUME SaltTypeOK, RunInv, CommandInv, CauseInv, [Next]_vars
    PROVE  CauseInv'
<1>1. CASE UNCHANGED <<run, pause, handler>>
  BY <1>1, SaidGrows, ElsewhereKeepsCauseInv
<1>2. CASE PageStep
  BY <1>1, <1>2, PageStepFacts DEF SaltTypeOK, mes
<1>3. CASE EndByItself \/ \E c \in toHost : Execute(c)
  BY <1>1, <1>3, HostStepFacts DEF mes
<1>4. ASSUME NEW p \in Pauses, Inspect(p) \/ Prepare(p) PROVE CauseInv'
  BY <1>1, <1>4 DEF Inspect, Prepare
<1>5. CASE UNCHANGED vars
  BY <1>1, <1>5 DEF vars, mes
<1> QED
  BY <1>2, <1>3, <1>4, <1>5, NextCases, ReceiveKeepsCauseInv, LaterKeepsCauseInv

LEMMA CauseInvInit == Init => CauseInv
  BY DEF Init, CauseInv, Idle, Over

\* Commands that agree on how to stop still do without the latest of them.
LEMMA OneKindBefore ==
    ASSUME Commands \subseteq Commands', OneKindOfStop'
    PROVE  OneKindOfStop
  BY DEF OneKindOfStop

\* Steps that leave MES and its handler alone.  A new confirmation is not logged yet.
LEMMA ElsewhereKeepsEffectInv ==
    ASSUME SaltTypeOK, EffectInv, UNCHANGED <<run, pause, received, handler>>, Commands \subseteq Commands'
    PROVE  EffectInv'
<1>1. \A m : Made(m)' => m \in sent /\ Made(m)
  BY DEF Made, SaltTypeOK, EventTypeOK
<1>2. \A m : Recorded(m) => Recorded(m)'
  BY OneKindBefore DEF Recorded
<1> QED
  BY <1>1, <1>2, OneKindBefore DEF EffectInv

LEMMA ReceiveKeepsEffectInv ==
    ASSUME SaltTypeOK, RunInv, CauseInv, EffectInv, NEW m \in Unlogged, Receive(m)
    PROVE  EffectInv'
<1>1. /\ m \in sent /\ m \notin received.messages /\ handler.pc = "idle"
      /\ m.type # "END" => m.pause \in Pauses
      /\ UNCHANGED <<steps, trays, log, host, received, page, faults, torn>>
      /\ PausedStep(m) \/ ResumedStep(m) \/ StoppedStep(m) \/ EndedStep(m)
  BY ReceiveFacts
<1>2. Commands' = Commands /\ sent' = sent /\ (OneKindOfStop' <=> OneKindOfStop)
  BY <1>1 DEF Commands, host, OneKindOfStop
<1>3. handler'.message = m
  BY <1>1 DEF PausedStep, ResumedStep, StoppedStep, EndedStep, Hands
<1>4. \A n \in sent : Made(n)' => Made(n) \/ (n = m /\ handler'.pc = "log")
  BY <1>1, <1>3 DEF Made, PausedStep, ResumedStep, StoppedStep, EndedStep, Hands
<1>5. ASSUME NEW n \in sent, Recorded(n) PROVE Recorded(n)'
  <2>1. CASE n.type = "END"
    <3>1. run = "COMPLETED"
      BY <1>5, <2>1 DEF Recorded
    <3> QED
      BY <1>1, <2>1, <3>1 DEF Recorded, PausedStep, ResumedStep, StoppedStep, EndedStep
  <2>2. CASE n.type # "END"
    <3>1. n.pause \in Pauses
      BY <2>2 DEF SaltTypeOK, EventTypeOK
    <3>2. CASE n.type = "PAUSE"
      BY <1>1, <1>5, <3>1, <3>2 DEF Recorded, PausedStep, ResumedStep, StoppedStep, EndedStep, Sets
    <3>3. CASE n.type = "RESUME"
      BY <1>1, <1>5, <3>1, <3>3 DEF Recorded, PausedStep, ResumedStep, StoppedStep, EndedStep, Sets, PauseOpen
    <3>4. CASE n.type = "STOP" /\ OneKindOfStop
      <4>1. pause[n.pause].status = "STOPPED" /\ run \in {"ABNORMAL", "COMPLETED"}
        BY <1>5, <3>4 DEF Recorded
      <4>2. run' = run /\ pause'[n.pause] = pause[n.pause]
        BY <1>1, <3>1, <4>1 DEF PausedStep, ResumedStep, StoppedStep, EndedStep, Sets, PauseOpen
      <4> QED
        BY <1>5, <3>4, <4>2 DEF Recorded
    <3> QED
      BY <1>2, <2>2, <3>2, <3>3, <3>4 DEF Recorded, SaltTypeOK, EventTypeOK, Message, Types
  <2> QED
    BY <2>1, <2>2
<1>6. CASE PausedStep(m)
  <2>1. handler'.pc = "log" /\ Recorded(m)'
    BY <1>1, <1>6 DEF PausedStep, Hands, Sets, Recorded
  <2> QED
    BY <1>2, <1>3, <1>4, <1>5, <2>1 DEF EffectInv, Resuming
<1>7. CASE ResumedStep(m)
  <2>1. handler'.pc \in {"samples", "samples_again"} /\ pause'[m.pause].status = "RESUMED"
    BY <1>1, <1>7 DEF ResumedStep, Hands, Sets
  <2> QED
    BY <1>2, <1>3, <1>4, <1>5, <2>1 DEF EffectInv, Resuming
<1>8. CASE EndedStep(m)
  <2>1. handler'.pc = "complete" /\ m.type = "END"
    BY <1>8 DEF EndedStep, Hands
  <2> QED
    BY <1>2, <1>3, <1>4, <1>5, <2>1 DEF EffectInv, Resuming
<1>9. CASE StoppedStep(m)
  <2>1. m.type = "STOP" /\ m.pause \in Pauses
    BY <1>1, <1>9 DEF StoppedStep
  <2>2. PICK c \in Commands :
            /\ c.type = "STOP" /\ c.pause = m.pause
            /\ \/ /\ pause[m.pause].status = "STOPPED" /\ UNCHANGED <<run, pause>>
                  /\ Hands(m, IF pause[m.pause].kind = "abnormal" THEN "terminate"
                              ELSE IF c.kind = "completion" THEN "complete" ELSE "log", c.kind)
               \/ /\ PauseOpen(m.pause) /\ Sets(m.pause, "STOPPED", c.kind)
                  /\ run' = IF c.kind = "abnormal" /\ run = "PAUSED" THEN "ABNORMAL" ELSE run
                  /\ Hands(m, IF c.kind = "abnormal" THEN "terminate" ELSE "complete", c.kind)
    BY <1>9 DEF StoppedStep
  <2>3. pause \in [Pauses -> [status : Statuses, kind : Stops]] /\ c.kind \in Stops
    BY CommandFacts DEF SaltTypeOK, MesTypeOK, LoggedCommand
  <2>4. handler'.pc \in {"terminate", "complete", "log"}
    BY <2>2 DEF Hands
  <2>5. ASSUME handler'.pc = "complete", OneKindOfStop
        PROVE  pause'[m.pause] = [status |-> "STOPPED", kind |-> "completion"]
    <3>1. CASE UNCHANGED pause /\ pause[m.pause].status = "STOPPED"
      BY <2>1, <2>2, <2>3, <2>5, <3>1 DEF Hands, Stops, PauseOpen
    <3>2. CASE Sets(m.pause, "STOPPED", c.kind) /\ PauseOpen(m.pause)
      BY <2>1, <2>2, <2>3, <2>5, <3>2 DEF Hands, Stops, PauseOpen, Sets
    <3> QED
      BY <2>2, <3>1, <3>2
  <2>6. handler'.pc = "log" => ~ OneKindOfStop
    <3>1. SUFFICES ASSUME handler'.pc = "log", OneKindOfStop PROVE FALSE
      OBVIOUS
    <3>2. pause[m.pause].status = "STOPPED" /\ pause[m.pause].kind # "abnormal" /\ c.kind # "completion"
      BY <2>2, <3>1 DEF Hands
    <3>3. PICK d \in Commands : d.type = "STOP" /\ d.pause = m.pause /\ d.kind = pause[m.pause].kind
      BY <2>1, <3>2 DEF CauseInv
    <3>4. c.kind = pause[m.pause].kind
      BY <2>2, <3>1, <3>3 DEF OneKindOfStop
    <3> QED
      BY <2>1, <2>3, <3>2, <3>4 DEF Stops
  <2>7. handler'.pc = "log" => Recorded(m)'
    BY <1>2, <2>1, <2>6 DEF Recorded
  <2> QED
    BY <1>2, <1>3, <1>4, <1>5, <2>4, <2>5, <2>7 DEF EffectInv, Resuming
<1> QED
  BY <1>1, <1>6, <1>7, <1>8, <1>9

LEMMA LaterKeepsEffectInv ==
    ASSUME SaltTypeOK, RunInv, DeviceInv, CauseInv, EffectInv, LaterStep
    PROVE  EffectInv'
<1>1. UNCHANGED <<pause, sent>> /\ (OneKindOfStop' <=> OneKindOfStop)
  BY DEF LaterStep, WriteSamples, Cascade, Terminate, Complete, LogMessage, LogEvent, Crash, mes, host, Commands, OneKindOfStop
<1>2. /\ handler \in [pc : Handling, message : Message, kind : Stops]
      /\ received \in [messages : SUBSET sent, events : SUBSET ((Types \union {"END"}) \X (0..MaxPauses))]
      /\ handler.pc # "idle" => handler.message \in sent
  BY DEF SaltTypeOK, EventTypeOK
<1>3. UNCHANGED run => \A n \in sent : Recorded(n) => Recorded(n)'
  BY <1>1 DEF Recorded
<1>4. CASE WriteSamples \/ Cascade
  <2>1. handler.pc \in Resuming /\ handler'.pc \in {"cascade", "log"} /\ handler'.message = handler.message
    BY <1>2, <1>4 DEF WriteSamples, Cascade, Goes, Resuming
  <2>2. UNCHANGED <<run, received>>
    BY <1>4 DEF WriteSamples, Cascade
  <2>3. Recorded(handler.message)
    BY <2>1 DEF EffectInv, RunInv, HandlerInv, Recorded
  <2>4. \A n \in sent : Made(n)' => Made(n) \/ n = handler.message
    BY <2>1, <2>2 DEF Made
  <2> QED
    BY <1>1, <1>2, <1>3, <2>1, <2>2, <2>3, <2>4 DEF EffectInv
<1>5. CASE Terminate
  <2>1. /\ handler.pc = "terminate" /\ run' = "ABNORMAL" /\ UNCHANGED received
        /\ handler'.pc = (IF handler.kind = "completion" THEN "complete" ELSE "log")
        /\ handler'.message = handler.message
    BY <1>2, <1>5 DEF Terminate, Goes
  <2>2. /\ handler.message \in sent /\ handler.message.type = "STOP"
        /\ pause[handler.message.pause].status = "STOPPED" /\ pause[handler.message.pause].kind = "abnormal"
    BY <1>2, <2>1 DEF RunInv, HandlerInv
  <2>3. ASSUME OneKindOfStop, handler.kind = "completion" PROVE FALSE
    <3>1. PICK c \in Commands : c.type = "STOP" /\ c.pause = handler.message.pause /\ c.kind = "completion"
      BY <2>1, <2>2, <2>3 DEF CauseInv
    <3>2. handler.message.pause \in Pauses
      BY <2>2 DEF SaltTypeOK, EventTypeOK
    <3>3. PICK d \in Commands : d.type = "STOP" /\ d.pause = handler.message.pause /\ d.kind = "abnormal"
      BY <2>2, <3>2 DEF CauseInv
    <3> QED
      BY <2>3, <3>1, <3>3 DEF OneKindOfStop
  <2>4. \A n \in sent : Made(n)' => Made(n) \/ n = handler.message
    BY <2>1 DEF Made
  <2>5. \A n \in sent : Final(n) => n = handler.message
    BY <2>2 DEF DeviceInv, Final
  <2>6. ASSUME NEW n \in sent, Made(n)' PROVE Recorded(n)'
    <3>1. CASE n = handler.message
      BY <1>1, <2>1, <2>2, <3>1 DEF Recorded
    <3>2. CASE n # handler.message
      BY <1>1, <2>4, <2>5, <2>6, <3>2 DEF Recorded, EffectInv, Final
    <3> QED
      BY <3>1, <3>2
  <2> QED
    BY <1>1, <2>1, <2>3, <2>6 DEF EffectInv, Resuming
<1>6. CASE Complete
  <2>1. /\ handler.pc = "complete" /\ run' = "COMPLETED" /\ UNCHANGED received
        /\ handler'.pc = "log" /\ handler'.message = handler.message
    BY <1>2, <1>6 DEF Complete, Goes
  <2>2. handler.message \in sent /\ handler.message.type \in {"STOP", "END"}
    BY <1>2, <2>1 DEF RunInv, HandlerInv
  <2>3. \A n \in sent : Made(n)' => Made(n) \/ n = handler.message
    BY <2>1 DEF Made
  <2>4. \A n \in sent : Final(n) => n = handler.message
    BY <2>2 DEF DeviceInv, Final
  <2>5. ASSUME NEW n \in sent, Made(n)' PROVE Recorded(n)'
    <3>1. CASE n = handler.message
      BY <1>1, <2>1, <2>2, <3>1 DEF Recorded, EffectInv
    <3>2. CASE n # handler.message
      BY <1>1, <2>3, <2>4, <2>5, <3>2 DEF Recorded, EffectInv, Final
    <3> QED
      BY <3>1, <3>2
  <2> QED
    BY <1>1, <2>1, <2>5 DEF EffectInv, Resuming
<1>7. CASE LogMessage \/ LogEvent \/ Crash
  <2>1. UNCHANGED run /\ handler'.pc \in {"event", "idle"}
    BY <1>2, <1>7 DEF LogMessage, LogEvent, Crash, Goes, Idle, mes
  <2>2. \A n \in sent : Made(n)' => Made(n)
    BY <1>2, <1>7 DEF Made, LogMessage, LogEvent, Crash, Goes, Idle
  <2> QED
    BY <1>1, <1>3, <2>1, <2>2 DEF EffectInv, Resuming
<1> QED
  BY <1>4, <1>5, <1>6, <1>7 DEF LaterStep

LEMMA EffectInvStep ==
    ASSUME SaltTypeOK, RunInv, DeviceInv, CauseInv, EffectInv, [Next]_vars
    PROVE  EffectInv'
<1>1. CASE UNCHANGED <<run, pause, received, handler>>
  BY <1>1, SaidGrows, ElsewhereKeepsEffectInv
<1>2. CASE PageStep
  BY <1>1, <1>2, PageStepFacts DEF SaltTypeOK, mes
<1>3. CASE EndByItself \/ \E c \in toHost : Execute(c)
  BY <1>1, <1>3, HostStepFacts DEF mes
<1>4. ASSUME NEW p \in Pauses, Inspect(p) \/ Prepare(p) PROVE EffectInv'
  BY <1>1, <1>4 DEF Inspect, Prepare
<1>5. CASE UNCHANGED vars
  BY <1>1, <1>5 DEF vars, mes
<1> QED
  BY <1>2, <1>3, <1>4, <1>5, NextCases, ReceiveKeepsEffectInv, LaterKeepsEffectInv

LEMMA EffectInvInit == Init => EffectInv
  BY DEF Init, EffectInv, Idle, Resuming

LEMMA AgreeInvHolds == SaltSpec => []AgreeInv
<1>1. Init => AgreeInv
  BY HostInvInit, CauseInvInit, EffectInvInit DEF AgreeInv
<1>2. SaltTypeOK /\ RunInv /\ AgreeInv /\ [Next]_vars => AgreeInv'
  BY HostInvStep, CauseInvStep, EffectInvStep DEF AgreeInv
<1> QED
  BY <1>1, <1>2, SaltTypes, RunInvHolds, PTL DEF SaltSpec

\* When everything the upper computer said is logged, the three states agree.
LEMMA AgreementFollows ==
    ASSUME SaltTypeOK, RunInv, AgreeInv, Quiet, OneKindOfStop
    PROVE  /\ device.state = "running" => run = "RUNNING"
           /\ device.state = "paused"  => run = "PAUSED" /\ PauseOpen(device.pause)
           /\ device.state = "over"    => run = (IF device.kind = "abnormal" THEN "ABNORMAL" ELSE "COMPLETED")
<1>1. \A m \in sent : Recorded(m)
  BY DEF Quiet, Unlogged, AgreeInv, EffectInv, Made
<1>2. run \in {"RUNNING", "PAUSED"} \union Over /\ pause \in [Pauses -> [status : Statuses, kind : Stops]]
  BY DEF SaltTypeOK, MesTypeOK
<1>3. ASSUME device.state # "over"
      PROVE  run \in {"RUNNING", "PAUSED"} /\ \A p \in Pauses : pause[p].status # "STOPPED"
  BY <1>2, <1>3 DEF AgreeInv, DeviceInv, CauseInv, Said, Final
<1>4. ASSUME NEW p \in Pauses, PauseOpen(p)
      PROVE  device.state = "over" \/ (device.state = "paused" /\ device.pause = p)
  <2>1. Said("PAUSE", p)
    BY <1>4 DEF PauseOpen, AgreeInv, CauseInv
  <2>2. ~ Said("RESUME", p)
    BY <1>1, <1>4 DEF Said, Recorded, PauseOpen
  <2> QED
    BY <2>1, <2>2 DEF AgreeInv, DeviceInv
<1>5. CASE device.state = "running"
  <2>1. run # "PAUSED"
    BY <1>3, <1>4, <1>5 DEF RunInv, PauseInv
  <2> QED
    BY <1>3, <1>5, <2>1
<1>6. CASE device.state = "paused"
  <2>1. device.pause \in Pauses /\ Said("PAUSE", device.pause) /\ ~ Said("RESUME", device.pause)
    BY <1>6 DEF AgreeInv, DeviceInv
  <2>2. pause[device.pause].status # "none"
    BY <1>1, <2>1 DEF Said, Recorded
  <2>3. pause[device.pause].status # "RESUMED"
    BY <2>1 DEF AgreeInv, CauseInv
  <2>4. PauseOpen(device.pause)
    BY <1>2, <1>3, <1>6, <2>1, <2>2, <2>3 DEF PauseOpen, Statuses
  <2>5. run # "RUNNING"
    BY <2>1, <2>4 DEF RunInv, PauseInv
  <2> QED
    BY <1>3, <1>6, <2>4, <2>5
<1>7. CASE device.state = "over"
  <2>1. PICK f \in sent : Final(f) /\ f.kind = device.kind
    BY <1>7 DEF AgreeInv, DeviceInv
  <2>2. CASE f.type = "END"
    BY <1>1, <1>7, <2>1, <2>2 DEF Recorded, AgreeInv, DeviceInv
  <2>3. CASE f.type = "STOP"
    <3>1. pause[f.pause].status = "STOPPED" /\ run = (IF pause[f.pause].kind = "abnormal" THEN "ABNORMAL" ELSE "COMPLETED")
      BY <1>1, <2>3 DEF Recorded
    <3>2. f.pause \in Pauses
      BY <2>3 DEF SaltTypeOK, EventTypeOK
    <3>3. PICK c \in Commands : c.type = "STOP" /\ c.pause = f.pause /\ c.kind = pause[f.pause].kind
      BY <3>1, <3>2 DEF AgreeInv, CauseInv
    <3>4. PICK d \in Commands : d.type = "STOP" /\ d.pause = f.pause /\ d.kind = f.kind
      BY <2>3 DEF AgreeInv, CommandInv
    <3>5. pause[f.pause].kind = device.kind
      BY <2>1, <3>3, <3>4 DEF OneKindOfStop
    <3> QED
      BY <1>7, <3>1, <3>5
  <2> QED
    BY <2>1, <2>2, <2>3 DEF Final
<1> QED
  BY <1>5, <1>6, <1>7 DEF SaltTypeOK, EventTypeOK

\* When no command is on its way and every confirmation is logged, MES and the
\* upper computer agree on running, paused or over and on how it ended,
\* for any number of pauses, commands, pages, crashes and losses.
THEOREM QuietMeansAgreedHolds == SaltSpec => []QuietMeansAgreed
<1>1. SaltTypeOK /\ RunInv /\ AgreeInv => QuietMeansAgreed
  BY AgreementFollows DEF QuietMeansAgreed
<1> QED
  BY <1>1, SaltTypes, RunInvHolds, AgreeInvHolds, PTL

-----------------------------------------------------------------------------
(* The order of the confirmations.                                          *)

\* A confirmation gets a number above those of all before it.
LEMMA NewestFacts ==
    ASSUME SaltTypeOK, OrderInv, NEW m \in Message, m.no = Cardinality(sent) + 1, sent' = sent \union {m}
    PROVE  /\ \A n \in sent : n.no \in Nat /\ n.no < m.no
           /\ m.no \in Nat /\ m \notin sent /\ m.no = Cardinality(sent')
<1>1. IsFiniteSet(sent) /\ Cardinality(sent) \in Nat /\ \A n \in sent : n.no \in Nat
  BY FS_CardinalityType DEF SaltTypeOK, EventTypeOK, Message
<1>2. \A n \in sent : n.no < m.no
  BY <1>1 DEF OrderInv
<1>3. m \notin sent
  BY <1>1, <1>2
<1>4. Cardinality(sent') = Cardinality(sent) + 1
  BY <1>1, <1>3, FS_AddElement
<1> QED
  BY <1>1, <1>2, <1>3, <1>4

\* What the newest confirmation must satisfy to keep the order.
LEMMA NewestKeepsOrder ==
    ASSUME SaltTypeOK, OrderInv, NEW m \in Message, m.no = Cardinality(sent) + 1, sent' = sent \union {m},
           \A n \in sent : ~ Final(n),
           m.type # "END" => \E n \in sent' : n.type = "PAUSE" /\ n.pause = m.pause,
           m.type = "PAUSE" => \A n \in sent : n.type = "PAUSE" => Said("RESUME", n.pause),
           m.type \in {"RESUME", "STOP"} => ~ Said("RESUME", m.pause)
    PROVE  OrderInv'
<1>1. /\ \A n \in sent : n.no \in Nat /\ n.no < m.no
      /\ m.no \in Nat /\ m \notin sent /\ m.no = Cardinality(sent')
  BY NewestFacts
<1>2. /\ \A n \in sent' : n.no <= Cardinality(sent')
      /\ \A n, o \in sent' : n.no = o.no => n = o
  BY <1>1 DEF OrderInv
<1>3. ASSUME NEW n \in sent', n.type # "END"
      PROVE  \E o \in sent' : o.type = "PAUSE" /\ o.pause = n.pause /\ o.no <= n.no
  <2>1. CASE n = m
    <3>1. PICK o \in sent' : o.type = "PAUSE" /\ o.pause = m.pause
      BY <1>3, <2>1
    <3>2. o.no <= m.no
      BY <1>1
    <3> QED
      BY <2>1, <3>1, <3>2
  <2>2. CASE n \in sent
    BY <1>3, <2>2 DEF OrderInv
  <2> QED
    BY <2>1, <2>2
<1>4. ASSUME NEW n \in sent', NEW o \in sent', n.type = "PAUSE", o.type = "PAUSE", n.no < o.no
      PROVE  \E r \in sent' : r.type = "RESUME" /\ r.pause = n.pause /\ r.no < o.no
  <2>1. CASE o = m
    <3>1. n \in sent
      BY <1>1, <1>4, <2>1
    <3>2. PICK r \in sent : r.type = "RESUME" /\ r.pause = n.pause
      BY <1>4, <2>1, <3>1 DEF Said
    <3> QED
      BY <1>1, <2>1, <3>2
  <2>2. CASE o \in sent
    <3>1. n \in sent
      BY <1>1, <1>4, <2>2
    <3> QED
      BY <1>4, <2>2, <3>1 DEF OrderInv
  <2> QED
    BY <2>1, <2>2
<1>5. \A f, n \in sent' : Final(f) => n.no <= f.no
  BY <1>1
<1>6. ASSUME NEW n \in sent', NEW o \in sent', n.type = "RESUME", o.type \in {"RESUME", "STOP"}, n.pause = o.pause
      PROVE  n = o
  <2>1. CASE n = m /\ o \in sent
    <3>1. o.type = "RESUME"
      BY <1>6, <2>1 DEF Final
    <3> QED
      BY <1>6, <2>1, <3>1 DEF Said
  <2>2. CASE n \in sent /\ o = m
    BY <1>6, <2>2 DEF Said
  <2>3. CASE n \in sent /\ o \in sent
    BY <1>6, <2>3 DEF OrderInv
  <2> QED
    BY <2>1, <2>2, <2>3
<1> QED
  BY <1>2, <1>3, <1>4, <1>5, <1>6 DEF OrderInv, Final

\* The upper computer confirms only what fits its state.
LEMMA ExecuteKeepsOrder ==
    ASSUME SaltTypeOK, CommandInv, DeviceInv, OrderInv, NEW c \in toHost, Execute(c)
    PROVE  OrderInv'
<1>1. CASE ~ Fits(c)
  <2>1. sent' = sent
    BY <1>1 DEF Execute
  <2> QED
    BY <2>1 DEF OrderInv, Final
<1>2. CASE Fits(c)
  <2>1. c \in LoggedCommand
    BY CommandFacts DEF SaltTypeOK, LogTypeOK
  <2>2. PICK m \in Message :
            m.no = Cardinality(sent) + 1 /\ m.type = c.type /\ m.pause = c.pause /\ sent' = sent \union {m}
    <3>1. Confirm(c.type, c.pause, c.kind)
      BY <1>2 DEF Execute
    <3> QED
      BY <2>1, <3>1, ConfirmFacts, SaltAssumption DEF SaltTypeOK, LoggedCommand, Pauses
  <2>3. m.type \in {"PAUSE", "RESUME", "STOP"}
    BY <2>1, <2>2 DEF LoggedCommand, Types
  <2>4. device.state # "over"
    BY <1>2 DEF Fits
  <2>5. \A n \in sent : ~ Final(n)
    BY <2>4 DEF DeviceInv
  <2>6. CASE m.type = "PAUSE"
    <3>1. device.state = "running"
      BY <1>2, <2>2, <2>6 DEF Fits
    <3>2. ASSUME NEW n \in sent, n.type = "PAUSE" PROVE Said("RESUME", n.pause)
      <4>1. n.pause \in Pauses /\ Said("PAUSE", n.pause)
        BY <3>2 DEF SaltTypeOK, EventTypeOK, Said
      <4> QED
        BY <3>1, <4>1 DEF DeviceInv
    <3>3. m \in sent'
      BY <2>2
    <3> QED
      BY <2>2, <2>5, <2>6, <3>2, <3>3, NewestKeepsOrder
  <2>7. CASE m.type \in {"RESUME", "STOP"}
    <3>1. device.state = "paused" /\ device.pause = m.pause
      BY <1>2, <2>2, <2>7 DEF Fits
    <3>2. Said("PAUSE", m.pause) /\ ~ Said("RESUME", m.pause)
      BY <3>1 DEF DeviceInv
    <3>3. \E n \in sent' : n.type = "PAUSE" /\ n.pause = m.pause
      BY <2>2, <3>2 DEF Said
    <3> QED
      BY <2>2, <2>5, <2>7, <3>2, <3>3, NewestKeepsOrder
  <2> QED
    BY <2>3, <2>6, <2>7
<1> QED
  BY <1>1, <1>2

LEMMA OrderInvStep ==
    ASSUME SaltTypeOK, CommandInv, DeviceInv, OrderInv, [Next]_vars
    PROVE  OrderInv'
<1>1. CASE sent' = sent
  BY <1>1 DEF OrderInv, Final
<1>2. CASE EndByItself
  <2>1. PICK m \in Message : m.no = Cardinality(sent) + 1 /\ m.type = "END" /\ sent' = sent \union {m}
    BY <1>2, ConfirmFacts, SaltAssumption DEF EndByItself, SaltTypeOK, Stops
  <2>2. \A n \in sent : ~ Final(n)
    BY <1>2 DEF EndByItself, DeviceInv
  <2> QED
    BY <2>1, <2>2, NewestKeepsOrder
<1>3. CASE PageStep
  BY <1>1, <1>3, PageStepFacts DEF SaltTypeOK
<1> QED
  BY <1>1, <1>2, <1>3, NextCases, MesKeepsHost, ExecuteKeepsOrder

-----------------------------------------------------------------------------
(* A resumption is asked for when the trays are ready for it.               *)

\* A step of a pause that is ready to resume is the last.
LEMMA ReadyStays ==
    ASSUME SaltTypeOK, [Next]_vars, NEW p \in Pauses, steps[p] = Ready
    PROVE  steps'[p] = Ready
<1>1. steps \in [Pauses -> 0..Ready]
  BY DEF SaltTypeOK, MesTypeOK
<1>2. ASSUME NEW q \in Pauses, Inspect(q) \/ Prepare(q) PROVE steps'[p] = Ready
  <2>1. steps' = [steps EXCEPT ![q] = @ + 1] /\ steps[q] # Ready
    BY <1>2 DEF Inspect, Prepare, Inspected, Returned, Ready
  <2> QED
    BY <1>1, <2>1
<1>3. CASE PageStep \/ (EndByItself \/ \E c \in toHost : Execute(c)) \/ UNCHANGED vars
  BY <1>3, PageStepFacts, HostStepFacts DEF SaltTypeOK, mes, vars
<1>4. ASSUME NEW m \in Unlogged, Receive(m) PROVE UNCHANGED steps
  BY <1>4 DEF Receive
<1>5. CASE LaterStep
  BY <1>5 DEF LaterStep, WriteSamples, Cascade, Terminate, Complete, LogMessage, LogEvent, Crash, mes
<1> QED
  BY <1>2, <1>3, <1>4, <1>5, NextCases

\* Asking, checking and publishing, of one page.
LEMMA PageKeepsAsked ==
    ASSUME SaltTypeOK, AskedInv, PageStep, UNCHANGED steps
    PROVE  AskedInv'
<1> DEFINE Fine(r) == r.pc = "checked" /\ r.command.type = "RESUME" /\ r.command.pause \in Pauses
                        => steps[r.command.pause] = Ready
<1>1. PICK g \in Pages : Ask(g) \/ Check(g) \/ Publish(g) \/ StopWaiting(g)
  BY DEF PageStep
<1>2. (\A q \in Pages : Fine(page[q])) /\ \A c \in Commands : c.type = "RESUME" => steps[c.pause] = Ready
  BY DEF AskedInv
<1>3. page \in [Pages -> [pc : {"idle", "asked", "checked", "awaiting"},
                          command : [no : {0}, type : Types, pause : 0..MaxPauses, kind : Stops]]]
  BY DEF SaltTypeOK, LogTypeOK
<1>4. \A q \in Pages : q # g => page'[q] = page[q]
  BY <1>1, <1>3 DEF Ask, Check, Publish, StopWaiting
<1>5. Fine(page'[g])
  <2>1. CASE Check(g)
    <3>1. CASE page'[g].pc = "checked"
      <4>1. Allowed(page[g].command) /\ page' = [page EXCEPT ![g].pc = "checked"]
        BY <1>3, <2>1, <3>1 DEF Check, NoPage
      <4>2. page'[g].command = page[g].command
        BY <1>3, <4>1
      <4> QED
        BY <4>1, <4>2 DEF Allowed, ReadyToResume
    <3> QED
      BY <3>1
  <2>2. CASE ~ Check(g)
    <3>1. page'[g].pc # "checked"
      BY <1>1, <1>3, <2>2 DEF Ask, Publish, StopWaiting, NoPage
    <3> QED
      BY <3>1
  <2> QED
    BY <2>1, <2>2
<1>6. \A c \in Commands' : c.type = "RESUME" => steps[c.pause] = Ready
  <2>1. CASE Publish(g)
    <3>1. PICK c \in LoggedCommand :
            /\ Commands' = Commands \union {c}
            /\ c.type = page[g].command.type /\ (c.type # "PAUSE" => c.pause = page[g].command.pause)
      BY <2>1, PublishFacts DEF SaltTypeOK
    <3>2. c.pause \in Pauses /\ page[g].pc = "checked"
      BY <2>1 DEF LoggedCommand, Publish
    <3> QED
      BY <1>2, <3>1, <3>2
  <2>2. CASE Ask(g) \/ StopWaiting(g)
    BY <1>2, <2>2 DEF Ask, StopWaiting, Commands
  <2>3. CASE Check(g)
    <3>1. Commands' = Commands
      <4>1. CASE PassPending
        BY <4>1, PassPendingFacts DEF SaltTypeOK
      <4> QED
        BY <2>3, <4>1 DEF Check, Commands
    <3> QED
      BY <1>2, <3>1
  <2> QED
    BY <1>1, <2>1, <2>2, <2>3
<1>7. \A q \in Pages : Fine(page'[q])
  BY <1>2, <1>4, <1>5
<1> QED
  BY <1>6, <1>7 DEF AskedInv

LEMMA AskedInvStep ==
    ASSUME SaltTypeOK, AskedInv, [Next]_vars
    PROVE  AskedInv'
<1>1. CASE PageStep
  BY <1>1, PageStepFacts, PageKeepsAsked DEF SaltTypeOK, mes
<1>2. CASE UNCHANGED <<page, log>>
  <2>1. Commands' = Commands
    BY <1>2 DEF Commands
  <2>2. \A c \in Commands : c.pause \in Pauses
    BY CommandFacts DEF SaltTypeOK, LoggedCommand
  <2> QED
    BY <1>2, <2>1, <2>2, ReadyStays DEF AskedInv
<1>3. CASE EndByItself \/ \E c \in toHost : Execute(c)
  BY <1>2, <1>3 DEF EndByItself, Execute
<1>4. ASSUME NEW p \in Pauses, Inspect(p) \/ Prepare(p) PROVE UNCHANGED <<page, log>>
  BY <1>4 DEF Inspect, Prepare
<1>5. ASSUME NEW m \in Unlogged, Receive(m) PROVE UNCHANGED <<page, log>>
  BY <1>5 DEF Receive
<1>6. CASE LaterStep \/ UNCHANGED vars
  BY <1>2, <1>6 DEF LaterStep, WriteSamples, Cascade, Terminate, Complete, LogMessage, LogEvent, Crash, vars
<1> QED
  BY <1>1, <1>2, <1>3, <1>4, <1>5, <1>6, NextCases

-----------------------------------------------------------------------------
(* How a run ends, and how a resumption does.                               *)

LEMMA ReceiveKeepsEndedInv ==
    ASSUME SaltTypeOK, EndedInv, NEW m \in Unlogged, Receive(m)
    PROVE  EndedInv'
<1>1. /\ m \in sent /\ handler.pc = "idle" /\ sent' = sent
      /\ m.type # "END" => m.pause \in Pauses
      /\ PausedStep(m) \/ ResumedStep(m) \/ StoppedStep(m) \/ EndedStep(m)
  BY ReceiveFacts DEF host
<1>2. ASSUME NEW p \in Pauses, pause[p].status = "STOPPED" PROVE pause'[p].status = "STOPPED"
  BY <1>1, <1>2 DEF PausedStep, ResumedStep, StoppedStep, EndedStep, Sets, PauseOpen
<1>3. m.type = "STOP" => Final(m) /\ pause'[m.pause].status = "STOPPED"
  BY <1>1 DEF PausedStep, ResumedStep, StoppedStep, EndedStep, Sets, Final
<1>4. handler'.pc = "complete" /\ handler'.message.type = "STOP" => pause'[handler'.message.pause].status = "STOPPED"
  BY <1>1, <1>3 DEF PausedStep, ResumedStep, StoppedStep, EndedStep, Hands
<1>5. run' \in Over => run \in Over \/ m.type = "STOP"
  BY <1>1 DEF PausedStep, ResumedStep, StoppedStep, EndedStep, Over
<1>6. ASSUME NEW f \in sent, f.type = "STOP", pause[f.pause].status = "STOPPED" PROVE pause'[f.pause].status = "STOPPED"
  BY <1>2, <1>6 DEF SaltTypeOK, EventTypeOK
<1>7. run' \in Over => \E f \in sent' : Final(f) /\ (f.type = "STOP" => pause'[f.pause].status = "STOPPED")
  <2>1. CASE m.type = "STOP"
    BY <1>1, <1>3, <2>1
  <2>2. CASE m.type # "STOP"
    BY <1>1, <1>5, <1>6, <2>2 DEF EndedInv
  <2> QED
    BY <2>1, <2>2
<1> QED
  BY <1>4, <1>7 DEF EndedInv, Final

LEMMA LaterKeepsEndedInv ==
    ASSUME SaltTypeOK, HandlerInv, EndedInv, LaterStep
    PROVE  EndedInv'
<1>1. UNCHANGED <<pause, sent>>
  BY DEF LaterStep, WriteSamples, Cascade, Terminate, Complete, LogMessage, LogEvent, Crash, mes, host
<1>2. handler \in [pc : Handling, message : Message, kind : Stops] /\ (handler.pc # "idle" => handler.message \in sent)
  BY DEF SaltTypeOK, EventTypeOK
<1>3. CASE Terminate
  <2>1. handler.pc = "terminate" /\ handler'.message = handler.message
    BY <1>2, <1>3 DEF Terminate, Goes
  <2>2. /\ handler.message \in sent /\ Final(handler.message)
        /\ pause[handler.message.pause].status = "STOPPED"
    BY <1>2, <2>1 DEF HandlerInv, Final
  <2> QED
    BY <1>1, <2>1, <2>2 DEF EndedInv, Final
<1>4. CASE Complete
  <2>1. handler.pc = "complete" /\ handler'.pc = "log"
    BY <1>2, <1>4 DEF Complete, Goes
  <2>2. /\ handler.message \in sent /\ Final(handler.message)
        /\ handler.message.type = "STOP" => pause[handler.message.pause].status = "STOPPED"
    BY <1>2, <2>1 DEF HandlerInv, EndedInv, Final
  <2> QED
    BY <1>1, <2>1, <2>2 DEF EndedInv, Final
<1>5. CASE ~ Terminate /\ ~ Complete
  <2>1. run' = run /\ handler'.pc # "complete"
    BY <1>2, <1>5 DEF LaterStep, WriteSamples, Cascade, LogMessage, LogEvent, Crash, Goes, Idle, mes
  <2> QED
    BY <1>1, <2>1 DEF EndedInv, Final
<1> QED
  BY <1>3, <1>4, <1>5

\* A resumption is recorded when it is taken up, and is not taken up again unless
\* it was cut short.
LEMMA ReceiveKeepsResumeInv ==
    ASSUME SaltTypeOK, OrderInv, ResumeInv, NEW m \in Unlogged, Receive(m)
    PROVE  ResumeInv'
<1>1. /\ m \in sent /\ m \notin received.messages /\ handler.pc = "idle"
      /\ m.type # "END" => m.pause \in Pauses
      /\ UNCHANGED <<steps, trays, log, host, received, page, faults, torn>>
      /\ PausedStep(m) \/ ResumedStep(m) \/ StoppedStep(m) \/ EndedStep(m)
  BY ReceiveFacts
<1>2. ASSUME NEW p \in Pauses
      PROVE  /\ pause[p].status = "RESUMED" => pause'[p].status = "RESUMED"
             /\ pause'[p].status = "RESUMED" =>
                    pause[p].status = "RESUMED" \/ (p = m.pause /\ m.type = "RESUME" /\ handler'.pc = "samples")
  BY <1>1 DEF PausedStep, ResumedStep, StoppedStep, EndedStep, Sets, Hands, PauseOpen
<1>3. handler'.message = m
  BY <1>1 DEF PausedStep, ResumedStep, StoppedStep, EndedStep, Hands
<1>4. ASSUME NEW n \in sent, n.type = "RESUME", pause'[n.pause].status = "RESUMED"
      PROVE  \/ n.pause \in torn \/ n \in received.messages
             \/ handler'.message = n /\ handler'.pc \in Resuming
  <2>1. n.pause \in Pauses
    BY <1>4 DEF SaltTypeOK, EventTypeOK
  <2>2. CASE pause[n.pause].status = "RESUMED"
    BY <1>1, <1>4, <2>2 DEF ResumeInv, Resuming
  <2>3. CASE n.pause = m.pause /\ m.type = "RESUME" /\ handler'.pc = "samples"
    BY <1>1, <1>3, <1>4, <2>3 DEF OrderInv, Resuming
  <2> QED
    BY <1>2, <1>4, <2>1, <2>2, <2>3
<1>5. handler'.pc = "samples" => run' = "RUNNING"
  BY <1>1 DEF PausedStep, ResumedStep, StoppedStep, EndedStep, Hands
<1>6. handler'.pc = "samples_again" => torn # {}
  <2>1. SUFFICES ASSUME handler'.pc = "samples_again" PROVE m.pause \in torn
    OBVIOUS
  <2>2. m.type = "RESUME" /\ pause[m.pause].status = "RESUMED"
    BY <1>1, <2>1 DEF PausedStep, ResumedStep, StoppedStep, EndedStep, Hands
  <2> QED
    BY <1>1, <2>2 DEF ResumeInv, Resuming
<1>7. \A q \in torn : q \in Pauses /\ pause'[q].status = "RESUMED"
  BY <1>2 DEF ResumeInv
<1> QED
  BY <1>1, <1>4, <1>5, <1>6, <1>7 DEF ResumeInv, host

LEMMA LaterKeepsResumeInv ==
    ASSUME SaltTypeOK, HandlerInv, EffectInv, ResumeInv, LaterStep
    PROVE  ResumeInv'
<1>1. UNCHANGED <<pause, sent>>
  BY DEF LaterStep, WriteSamples, Cascade, Terminate, Complete, LogMessage, LogEvent, Crash, mes, host
<1>2. /\ handler \in [pc : Handling, message : Message, kind : Stops]
      /\ received \in [messages : SUBSET sent, events : SUBSET ((Types \union {"END"}) \X (0..MaxPauses))]
      /\ handler.pc # "idle" => handler.message \in sent
  BY DEF SaltTypeOK, EventTypeOK
<1>3. handler'.pc \notin {"samples", "samples_again"}
  BY <1>2 DEF LaterStep, WriteSamples, Cascade, Terminate, Complete, LogMessage, LogEvent, Crash, Goes, Idle
<1>4. ASSUME handler.pc \in Resuming \/ (handler.pc = "log" /\ handler.message.type = "RESUME")
      PROVE  /\ handler.message \in sent /\ handler.message.type = "RESUME" /\ handler.message.pause \in Pauses
             /\ pause[handler.message.pause].status = "RESUMED"
  <2>1. handler.message \in sent /\ handler.message.type = "RESUME"
    BY <1>2, <1>4 DEF HandlerInv, Resuming
  <2>2. handler.message.pause \in Pauses
    BY <2>1 DEF SaltTypeOK, EventTypeOK
  <2>3. pause[handler.message.pause].status = "RESUMED"
    BY <1>4, <2>1 DEF EffectInv, Made, Recorded
  <2> QED
    BY <2>1, <2>2, <2>3
<1>5. \A q \in torn' : q \in Pauses /\ pause[q].status = "RESUMED"
  <2>1. CASE Crash
    <3>1. torn' = torn \/ (torn' = torn \union {handler.message.pause}
                             /\ (handler.pc \in Resuming \/ (handler.pc = "log" /\ handler.message.type = "RESUME")))
      BY <2>1 DEF Crash, Resuming
    <3> QED
      BY <1>4, <3>1 DEF ResumeInv
  <2>2. CASE ~ Crash
    <3>1. torn' = torn
      BY <2>2 DEF LaterStep, WriteSamples, Cascade, Terminate, Complete, LogMessage, LogEvent
    <3> QED
      BY <3>1 DEF ResumeInv
  <2> QED
    BY <2>1, <2>2
<1>6. ASSUME NEW m \in sent, m.type = "RESUME", pause[m.pause].status = "RESUMED"
      PROVE  \/ m.pause \in torn' \/ m \in received'.messages
             \/ handler'.message = m /\ handler'.pc \in Resuming \union {"log"}
  <2>1. torn \subseteq torn' /\ received.messages \subseteq received'.messages
    BY <1>2 DEF LaterStep, WriteSamples, Cascade, Terminate, Complete, LogMessage, LogEvent, Crash
  <2>2. CASE handler.message = m /\ handler.pc \in Resuming \union {"log"}
    <3>1. CASE WriteSamples \/ Cascade
      BY <1>2, <2>2, <3>1 DEF WriteSamples, Cascade, Goes, Resuming
    <3>2. CASE LogMessage
      BY <1>2, <2>2, <3>2 DEF LogMessage
    <3>3. CASE Crash
      BY <1>6, <2>2, <3>3 DEF Crash, Resuming
    <3> QED
      BY <2>2, <3>1, <3>2, <3>3 DEF LaterStep, Terminate, Complete, LogEvent, Resuming
  <2> QED
    BY <1>6, <2>1, <2>2 DEF ResumeInv
<1> QED
  BY <1>1, <1>3, <1>5, <1>6 DEF ResumeInv

\* The upper computer confirms a resumption once.
LEMMA HostKeepsResumeInv ==
    ASSUME SaltTypeOK, SaltTypeOK', CauseInv, OrderInv', ResumeInv,
           UNCHANGED <<run, pause, received, handler, torn>>, sent \subseteq sent'
    PROVE  ResumeInv'
<1>1. ASSUME NEW m \in sent', m.type = "RESUME", pause[m.pause].status = "RESUMED" PROVE m \in sent
  <2>1. m.pause \in Pauses
    BY <1>1 DEF SaltTypeOK, EventTypeOK
  <2>2. PICK n \in sent : n.type = "RESUME" /\ n.pause = m.pause
    BY <1>1, <2>1 DEF CauseInv, Said
  <2> QED
    BY <1>1, <2>2 DEF OrderInv
<1> QED
  BY <1>1 DEF ResumeInv

-----------------------------------------------------------------------------
(* The trays of an open pause.                                              *)

LEMMA PreparationKeepsBackInv ==
    ASSUME SaltTypeOK, PauseInv, BackInv, NEW p \in Pauses, Inspect(p) \/ Prepare(p)
    PROVE  BackInv'
<1>1. steps \in [Pauses -> 0..Ready] /\ steps' = [steps EXCEPT ![p] = @ + 1] /\ UNCHANGED <<run, pause, torn>>
  BY DEF SaltTypeOK, MesTypeOK, Inspect, Prepare
<1>2. PauseOpen(p) /\ run = "PAUSED"
  BY DEF Inspect, Prepare
<1>3. ASSUME NEW q \in Pauses, pause[q].status = "none" PROVE steps'[q] = 0
  <2>1. q # p
    BY <1>2, <1>3 DEF PauseOpen
  <2> QED
    BY <1>1, <1>3, <2>1 DEF BackInv
<1>4. ASSUME NEW q \in Pauses, PauseOpen(q), torn = {}, steps'[q] >= Returned PROVE trays' \in {"returned", "preparing"}
  <2>1. q = p /\ steps'[p] = steps[p] + 1 /\ steps[p] \in 0..Ready
    BY <1>1, <1>2, <1>4 DEF PauseInv
  <2>2. CASE Inspect(p)
    BY <1>4, <2>1, <2>2 DEF Inspect, Inspected, Returned
  <2>3. CASE Prepare(p)
    <3>1. CASE steps[p] = Returned
      BY <2>3, <3>1 DEF Prepare, TraysBack
    <3>2. CASE steps[p] # Returned
      BY <2>3, <3>2 DEF Prepare
    <3> QED
      BY <3>1, <3>2
  <2> QED
    BY <2>2, <2>3
<1> QED
  BY <1>1, <1>3, <1>4 DEF BackInv, PauseOpen

LEMMA ReceiveKeepsBackInv ==
    ASSUME SaltTypeOK, PauseInv, BackInv, NEW m \in Unlogged, Receive(m)
    PROVE  BackInv'
<1>1. /\ m.type # "END" => m.pause \in Pauses
      /\ UNCHANGED <<steps, trays, torn>>
      /\ PausedStep(m) \/ ResumedStep(m) \/ StoppedStep(m) \/ EndedStep(m)
  BY ReceiveFacts
<1>2. ASSUME NEW p \in Pauses, pause'[p].status = "none" PROVE pause[p].status = "none"
  BY <1>1, <1>2 DEF PausedStep, ResumedStep, StoppedStep, EndedStep, Sets
<1>3. ASSUME NEW p \in Pauses, pause'[p].status = "PAUSED", run' = "PAUSED"
      PROVE  (run = "PAUSED" /\ PauseOpen(p)) \/ pause[p].status = "none"
  BY <1>1, <1>3 DEF PausedStep, ResumedStep, StoppedStep, EndedStep, Sets, PauseInv, PauseOpen
<1> QED
  BY <1>1, <1>2, <1>3 DEF BackInv, PauseOpen, Returned

LEMMA LaterKeepsBackInv ==
    ASSUME SaltTypeOK, ResumeInv, BackInv, LaterStep
    PROVE  BackInv'
<1>1. UNCHANGED <<pause, steps>> /\ (torn' = {} => torn = {}) /\ (run' = "PAUSED" => run = "PAUSED")
  BY DEF LaterStep, WriteSamples, Cascade, Terminate, Complete, LogMessage, LogEvent, Crash, mes
<1>2. torn = {} /\ run' = "PAUSED" => UNCHANGED trays
  BY DEF LaterStep, WriteSamples, Cascade, Terminate, Complete, LogMessage, LogEvent, Crash, mes, ResumeInv
<1> QED
  BY <1>1, <1>2 DEF BackInv, PauseOpen

-----------------------------------------------------------------------------
(* The first confirmation that is not applied is accepted.                  *)

LEMMA NextInvInit == Init => NextInv
<1> SUFFICES ASSUME Init PROVE NextInv
  OBVIOUS
<1>1. sent = {} /\ Commands = {} /\ torn = {} /\ run = "RUNNING" /\ handler.pc = "idle"
  BY DEF Init, Commands, Idle
<1>2. (\A g \in Pages : page[g].pc = "idle") /\ (\A p \in Pauses : steps[p] = 0)
  BY DEF Init, NoPage
<1> QED
  BY <1>1, <1>2 DEF NextInv, OrderInv, AskedInv, EndedInv, ResumeInv, BackInv, Over

LEMMA NextInvStep ==
    ASSUME SaltTypeOK, RunInv, AgreeInv, NextInv, [Next]_vars
    PROVE  NextInv'
<1>1. OrderInv' /\ AskedInv'
  BY OrderInvStep, AskedInvStep DEF AgreeInv, NextInv
<1>2. ASSUME UNCHANGED <<run, pause, handler, received, torn>>, sent \subseteq sent' PROVE EndedInv' /\ ResumeInv'
  <2>1. EndedInv'
    BY <1>2 DEF NextInv, EndedInv
  <2>2. ResumeInv'
    BY <1>1, <1>2, TypeStep, HostKeepsResumeInv DEF AgreeInv, NextInv
  <2> QED
    BY <2>1, <2>2
<1>3. ASSUME UNCHANGED <<run, pause, torn, steps, trays>> PROVE BackInv'
  BY <1>3 DEF NextInv, BackInv, PauseOpen
<1>4. CASE PageStep \/ (EndByItself \/ \E c \in toHost : Execute(c)) \/ UNCHANGED vars
  <2>1. UNCHANGED <<mes, received, handler, torn>> /\ sent \subseteq sent'
    BY <1>4, PageStepFacts, HostStepFacts DEF SaltTypeOK, vars, host
  <2> QED
    BY <1>1, <1>2, <1>3, <2>1 DEF NextInv, mes
<1>5. ASSUME NEW p \in Pauses, Inspect(p) \/ Prepare(p) PROVE NextInv'
  <2>1. UNCHANGED <<run, pause, handler, received, torn, sent>>
    BY <1>5 DEF Inspect, Prepare, host
  <2>2. BackInv'
    BY <1>5, PreparationKeepsBackInv DEF RunInv, NextInv
  <2> QED
    BY <1>1, <1>2, <2>1, <2>2 DEF NextInv
<1>6. ASSUME NEW m \in Unlogged, Receive(m) PROVE NextInv'
  BY <1>1, <1>6, ReceiveKeepsEndedInv, ReceiveKeepsResumeInv, ReceiveKeepsBackInv DEF RunInv, NextInv
<1>7. CASE LaterStep
  BY <1>1, <1>7, LaterKeepsEndedInv, LaterKeepsResumeInv, LaterKeepsBackInv DEF RunInv, AgreeInv, NextInv
<1> QED
  BY <1>4, <1>5, <1>6, <1>7, NextCases

LEMMA NextInvHolds == SaltSpec => []NextInv
<1>1. Init => NextInv
  BY NextInvInit
<1>2. SaltTypeOK /\ RunInv /\ AgreeInv /\ NextInv /\ [Next]_vars => NextInv'
  BY NextInvStep
<1> QED
  BY <1>1, <1>2, SaltTypes, RunInvHolds, AgreeInvHolds, PTL DEF SaltSpec

\* Exactly the confirmations before m are applied.
AppliedUpTo(m) == \A n \in sent : Applied(n) <=> n.no < m.no

\* The run is not over before its last confirmation is applied.
LEMMA NotOverYet ==
    ASSUME SaltTypeOK, NextInv, NEW m \in sent, AppliedUpTo(m)
    PROVE  run \notin Over
<1>1. SUFFICES ASSUME run \in Over PROVE FALSE
  OBVIOUS
<1>2. PICK f \in sent : Final(f) /\ (f.type = "STOP" => pause[f.pause].status = "STOPPED")
  BY <1>1 DEF NextInv, EndedInv
<1>3. Applied(f)
  BY <1>1, <1>2 DEF Applied, Final
<1>4. f.no < m.no /\ m.no <= f.no /\ f.no \in Nat /\ m.no \in Nat
  BY <1>2, <1>3 DEF AppliedUpTo, NextInv, OrderInv, SaltTypeOK, EventTypeOK, Message
<1> QED
  BY <1>4

\* The pause of a later confirmation is recorded.
LEMMA PauseIsRecorded ==
    ASSUME SaltTypeOK, NextInv, NEW m \in sent, m.type \in {"RESUME", "STOP"}, AppliedUpTo(m)
    PROVE  m.pause \in Pauses /\ pause[m.pause].status # "none"
<1>1. PICK n \in sent : n.type = "PAUSE" /\ n.pause = m.pause /\ n.no <= m.no
  BY DEF NextInv, OrderInv
<1>2. n.no # m.no /\ n.no \in Nat /\ m.no \in Nat
  BY <1>1 DEF NextInv, OrderInv, SaltTypeOK, EventTypeOK, Message
<1>3. Applied(n)
  BY <1>1, <1>2 DEF AppliedUpTo
<1> QED
  BY <1>1, <1>3 DEF Applied, SaltTypeOK, EventTypeOK

\* The next pause comes when the one before it is over.
LEMMA NextPauseIsAccepted ==
    ASSUME SaltTypeOK, RunInv, AgreeInv, NextInv, NEW m \in sent, m.type = "PAUSE", Live("PAUSE", m.pause) # {},
           AppliedUpTo(m)
    PROVE  MayPause(m)
<1>1. m.pause \in Pauses /\ m.no \in Nat /\ ~ Applied(m)
  BY DEF SaltTypeOK, EventTypeOK, Message, AppliedUpTo
<1>2. pause[m.pause].status = "none"
  BY <1>1 DEF Applied
<1>3. ASSUME run = "PAUSED" PROVE FALSE
  <2>1. PICK p \in Pauses : PauseOpen(p) \/ pause[p] = [status |-> "STOPPED", kind |-> "completion"]
    BY <1>3 DEF RunInv, PauseInv
  <2>2. pause[p].status \in {"PAUSED", "STOPPED"}
    BY <2>1 DEF PauseOpen
  <2>3. PICK n \in sent : n.type = "PAUSE" /\ n.pause = p
    BY <2>2 DEF AgreeInv, CauseInv, Said
  <2>4. Applied(n)
    BY <2>2, <2>3 DEF Applied
  <2>5. n.no < m.no
    BY <2>4 DEF AppliedUpTo
  <2>6. PICK r \in sent : r.type = "RESUME" /\ r.pause = p /\ r.no < m.no
    BY <2>3, <2>5 DEF NextInv, OrderInv
  <2>7. Applied(r)
    BY <2>6 DEF AppliedUpTo
  <2> QED
    BY <2>2, <2>6, <2>7 DEF Applied
<1>4. run = "RUNNING"
  BY <1>3, NotOverYet DEF SaltTypeOK, MesTypeOK
<1> QED
  BY <1>2, <1>4 DEF MayPause

\* A resumption finds its pause open and, unless an earlier one was cut short, the
\* trays where the preparation left them.
LEMMA NextResumeIsAccepted ==
    ASSUME SaltTypeOK, RunInv, AgreeInv, NextInv, NEW m \in sent, m.type = "RESUME", Live("RESUME", m.pause) # {},
           AppliedUpTo(m), torn \subseteq {m.pause}
    PROVE  MayResume(m)
<1>1. m.pause \in Pauses /\ m.no \in Nat /\ ~ Applied(m) /\ pause[m.pause].status # "none"
  BY PauseIsRecorded DEF SaltTypeOK, EventTypeOK, Message, AppliedUpTo
<1>2. pause[m.pause].status # "RESUMED"
  BY <1>1 DEF Applied
<1>3. pause[m.pause].status # "STOPPED"
  <2>1. SUFFICES ASSUME Said("STOP", m.pause) PROVE FALSE
    BY <1>1 DEF AgreeInv, CauseInv
  <2>2. PICK n \in sent : n.type = "STOP" /\ n.pause = m.pause
    BY <2>1 DEF Said
  <2>3. n = m
    BY <2>2 DEF NextInv, OrderInv
  <2> QED
    BY <2>2, <2>3
<1>4. PauseOpen(m.pause)
  BY <1>1, <1>2, <1>3 DEF PauseOpen, SaltTypeOK, MesTypeOK, Statuses
<1>5. run = "PAUSED"
  BY <1>1, <1>4, NotOverYet DEF RunInv, PauseInv, SaltTypeOK, MesTypeOK
<1>6. torn = {}
  BY <1>2 DEF NextInv, ResumeInv
<1>7. steps[m.pause] = Ready
  <2>1. PICK c \in Commands : c.type = "RESUME" /\ c.pause = m.pause
    BY DEF Live, Commands
  <2> QED
    BY <2>1 DEF NextInv, AskedInv
<1>8. trays \in {"returned", "preparing"}
  BY <1>1, <1>4, <1>5, <1>6, <1>7 DEF NextInv, BackInv, Ready, Returned
<1> QED
  BY <1>4, <1>5, <1>7, <1>8 DEF MayResume, ReadyToResume, TraysBack, Ready, Returned, Started

\* A stop finds its pause open, or stopped by an attempt that was cut short.
LEMMA NextStopIsAccepted ==
    ASSUME SaltTypeOK, AgreeInv, NextInv, NEW m \in sent, m.type = "STOP", Live("STOP", m.pause) # {},
           AppliedUpTo(m)
    PROVE  MayStop(m)
<1>1. m.pause \in Pauses /\ pause[m.pause].status # "none"
  BY PauseIsRecorded
<1>2. pause[m.pause].status # "RESUMED"
  <2>1. SUFFICES ASSUME Said("RESUME", m.pause) PROVE FALSE
    BY <1>1 DEF AgreeInv, CauseInv
  <2>2. PICK n \in sent : n.type = "RESUME" /\ n.pause = m.pause
    BY <2>1 DEF Said
  <2>3. n = m
    BY <2>2 DEF NextInv, OrderInv
  <2> QED
    BY <2>2, <2>3
<1> QED
  BY <1>1, <1>2 DEF MayStop, PauseOpen, SaltTypeOK, MesTypeOK, Statuses

\* What is logged is applied, so the next confirmation is no duplicate.
LEMMA NextIsNotLogged ==
    ASSUME SaltTypeOK, AgreeInv, OneKindOfStop, NEW m \in sent, AppliedUpTo(m)
    PROVE  m \notin received.messages
<1>1. m.no \in Nat /\ m.type \in {"PAUSE", "RESUME", "STOP", "END"} /\ ~ Applied(m)
  BY DEF SaltTypeOK, EventTypeOK, Message, Types, AppliedUpTo
<1>2. SUFFICES ASSUME m \in received.messages PROVE Applied(m)
  BY <1>1
<1>3. Recorded(m)
  BY <1>2 DEF AgreeInv, EffectInv, Made
<1> QED
  BY <1>1, <1>3 DEF Recorded, Applied, Over

\* The first confirmation that is not applied is accepted whenever it comes, also
\* after a crash in the middle of it, for any number of pauses, commands and faults.
THEOREM NextIsAcceptedHolds == SaltSpec => []NextIsAccepted
<1>1. ASSUME SaltTypeOK, RunInv, AgreeInv, NextInv PROVE NextIsAccepted
  <2>1. SUFFICES ASSUME OneKindOfStop, NEW m \in sent,
                        m.type = "END" \/ Live(m.type, m.pause) # {},
                        \A n \in sent : Applied(n) <=> n.no < m.no,
                        torn \subseteq {m.pause}
                 PROVE  Accepts(m)
    BY DEF NextIsAccepted
  <2>2. AppliedUpTo(m)
    BY <2>1 DEF AppliedUpTo
  <2>3. m \notin received.messages
    BY <1>1, <2>1, <2>2, NextIsNotLogged
  <2>4. m.type \in {"PAUSE", "RESUME", "STOP", "END"}
    BY <1>1 DEF SaltTypeOK, EventTypeOK, Message, Types
  <2>5. MayPause(m) \/ MayResume(m) \/ MayStop(m) \/ m.type = "END"
    BY <1>1, <2>1, <2>2, <2>4, NextPauseIsAccepted, NextResumeIsAccepted, NextStopIsAccepted
  <2> QED
    BY <2>3, <2>5 DEF Accepts
<1> QED
  BY <1>1, SaltTypes, RunInvHolds, AgreeInvHolds, NextInvHolds, PTL
=============================================================================
