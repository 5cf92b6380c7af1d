------------------------ MODULE FixtureInstall_proofs ------------------------
(***************************************************************************)
(* The READY gate of FixtureInstall for every set of trays and of          *)
(* installation ids, either kind of message id and any number of faults,   *)
(* repetitions and withdrawals.  MarkedIsFitted is not inductive: a mark   *)
(* is right because the answer that made it was, and the answer because    *)
(* the command was, for every tray that has not been withdrawn since.      *)
(***************************************************************************)
EXTENDS FixtureInstall, TLAPS

-----------------------------------------------------------------------------
(* The inductive invariant.                                                 *)

FlowOK ==
    /\ tray \in [Trays -> Statuses] /\ mark \in [Trays -> BOOLEAN]
    /\ markedBy \in [Trays -> Installs \union {0}]

TablesOK ==
    /\ named \in [Installs -> SUBSET Trays]
    /\ rows \in [Installs -> [Trays -> RowStatuses]]
    /\ request \in [Installs -> {"idle", "register", "publish", "fail"}]

ChannelsOK ==
    /\ commands \subseteq Installs /\ answers \subseteq Installs
    /\ handler.pc # "idle" => handler.install \in Installs

\* A tray that a requested or commanded installation names and that is not in the
\* laboratory has been withdrawn since.
AbsentIsOvertaken ==
    \A i \in Installs : request[i] # "idle" \/ i \in commands =>
        \A t \in named[i] : tray[t] = "outside" => <<i, t>> \in overtaken

\* What an answer reports is so: the fixture is fitted, or the tray was withdrawn since.
AnswerIsTrue ==
    \A i \in Installs : i \in answers \/ (handler.pc # "idle" /\ handler.install = i) =>
        \A t \in named[i] : t \in fitted \/ <<i, t>> \in overtaken

IInv == FlowOK /\ TablesOK /\ ChannelsOK /\ AbsentIsOvertaken /\ AnswerIsTrue /\ MarkedIsFitted

-----------------------------------------------------------------------------
LEMMA InitIInv == Init => IInv
BY DEF Init, IInv, FlowOK, TablesOK, ChannelsOK, AbsentIsOvertaken, AnswerIsTrue,
   MarkedIsFitted, Idle, Statuses, RowStatuses

\* Moving trays keeps the types of the flow.
LEMMA MoveFacts ==
    ASSUME FlowOK, NEW ts \in SUBSET Trays, NEW status \in Statuses, Move(ts, status)
    PROVE  /\ tray' \in [Trays -> Statuses] /\ mark' \in [Trays -> BOOLEAN]
           /\ \A t \in Trays : tray'[t] = IF t \in ts THEN status ELSE tray[t]
           /\ \A t \in Trays : mark'[t] = (mark[t] /\ t \notin ts)
BY DEF Move, FlowOK

LEMMA CompareStep ==
    ASSUME IInv, NEW ts \in SUBSET Trays, Compare(ts) PROVE IInv'
<1> USE DEF IInv, Compare, tables, history
<1>1. /\ tray' \in [Trays -> Statuses] /\ mark' \in [Trays -> BOOLEAN]
      /\ \A t \in Trays : tray'[t] = IF t \in ts THEN "compared" ELSE tray[t]
      /\ \A t \in Trays : mark'[t] = (mark[t] /\ t \notin ts)
  BY MoveFacts DEF Statuses
<1>2. FlowOK' /\ TablesOK' /\ ChannelsOK'
  BY <1>1 DEF FlowOK, TablesOK, ChannelsOK
<1>3. AbsentIsOvertaken'
  BY <1>1 DEF AbsentIsOvertaken, TablesOK
<1>4. AnswerIsTrue'
  BY DEF AnswerIsTrue
<1>5. MarkedIsFitted'
  BY <1>1 DEF MarkedIsFitted
<1> QED  BY <1>2, <1>3, <1>4, <1>5

LEMMA ConfirmReadyStep == ASSUME IInv, ConfirmReady PROVE IInv'
<1> USE DEF IInv, ConfirmReady, tables, history
<1> DEFINE ts == In("installing")
<1>1. /\ tray' \in [Trays -> Statuses] /\ mark' \in [Trays -> BOOLEAN]
      /\ \A t \in Trays : tray'[t] = IF t \in ts THEN "ready" ELSE tray[t]
      /\ \A t \in Trays : mark'[t] = (mark[t] /\ t \notin ts)
  BY MoveFacts, ts \in SUBSET Trays DEF Statuses, In
<1>2. FlowOK' /\ TablesOK' /\ ChannelsOK'
  BY <1>1 DEF FlowOK, TablesOK, ChannelsOK
<1>3. AbsentIsOvertaken'
  BY <1>1 DEF AbsentIsOvertaken, TablesOK
<1>4. AnswerIsTrue'
  BY DEF AnswerIsTrue
<1>5. MarkedIsFitted'
  BY <1>1 DEF MarkedIsFitted, FixtureReadyDone
<1> QED  BY <1>2, <1>3, <1>4, <1>5

LEMMA WithdrawStep ==
    ASSUME IInv, NEW ts \in SUBSET Trays, Withdraw(ts) PROVE IInv'
<1> USE DEF IInv, Withdraw, tables
<1>1. /\ tray' \in [Trays -> Statuses] /\ mark' \in [Trays -> BOOLEAN]
      /\ \A t \in Trays : tray'[t] = IF t \in ts THEN "outside" ELSE tray[t]
      /\ \A t \in Trays : mark'[t] = (mark[t] /\ t \notin ts)
  BY MoveFacts DEF Statuses
<1>2. FlowOK' /\ TablesOK' /\ ChannelsOK'
  BY <1>1 DEF FlowOK, TablesOK, ChannelsOK
<1>3. overtaken \subseteq overtaken'
  OBVIOUS
<1>4. ASSUME NEW i \in Installs, Open(i), NEW t \in named[i], t \in ts
      PROVE  <<i, t>> \in overtaken'
  BY <1>4
<1>5. AbsentIsOvertaken'
  BY <1>1, <1>3, <1>4 DEF AbsentIsOvertaken, TablesOK, Open
<1>6. AnswerIsTrue'
  BY <1>3, <1>4 DEF AnswerIsTrue, TablesOK, Open
<1>7. MarkedIsFitted'
  BY <1>1, <1>3 DEF MarkedIsFitted
<1> QED  BY <1>2, <1>5, <1>6, <1>7

-----------------------------------------------------------------------------
\* A new installation of trays that are in the laboratory.  Nothing refers to its id,
\* so that forgetting its past changes nothing that is said about the others.
LEMMA AskFacts ==
    ASSUME IInv, NEW i \in Installs, NEW ts \in SUBSET Trays, Ask(i, ts),
           FlowOK',
           \A t \in Trays : tray'[t] = "outside" => tray[t] = "outside" /\ t \notin ts,
           \A t \in Trays : mark'[t] \/ tray'[t] = "ready" =>
               (mark[t] \/ tray[t] = "ready") /\ markedBy'[t] = markedBy[t]
    PROVE  IInv'
<1> USE DEF IInv, Ask, Fresh, Unused
<1>1. TablesOK' /\ ChannelsOK'
  BY DEF TablesOK, ChannelsOK, RowStatuses
<1>2. named'[i] = ts /\ \A j \in Installs : j # i => named'[j] = named[j] /\ request'[j] = request[j]
  BY DEF TablesOK
<1>3. \A j \in Installs, t \in Trays : j # i /\ <<j, t>> \in overtaken => <<j, t>> \in overtaken'
  OBVIOUS
<1>4. AbsentIsOvertaken'
  <2> SUFFICES ASSUME NEW j \in Installs, (request[j] # "idle" \/ j \in commands)',
                      NEW t \in named'[j], tray'[t] = "outside"
               PROVE  <<j, t>> \in overtaken'
    BY DEF AbsentIsOvertaken
  <2>1. t \in Trays
    BY <1>1 DEF TablesOK
  <2>2. CASE j = i
    BY <1>2, <2>1, <2>2
  <2>3. CASE j # i
    BY <1>2, <1>3, <2>1, <2>3 DEF AbsentIsOvertaken
  <2> QED  BY <2>2, <2>3
<1>5. AnswerIsTrue'
  <2> SUFFICES ASSUME NEW j \in Installs,
                      (j \in answers \/ (handler.pc # "idle" /\ handler.install = j))',
                      NEW t \in named'[j]
               PROVE  t \in fitted' \/ <<j, t>> \in overtaken'
    BY DEF AnswerIsTrue
  <2>1. j # i /\ t \in Trays
    BY <1>1 DEF Open, TablesOK
  <2> QED  BY <1>2, <1>3, <2>1 DEF AnswerIsTrue
<1>6. MarkedIsFitted'
  <2> SUFFICES ASSUME NEW t \in Trays, (mark[t] \/ tray[t] = "ready")'
               PROVE  t \in fitted' \/ <<markedBy'[t], t>> \in overtaken'
    BY DEF MarkedIsFitted
  <2>1. markedBy'[t] = markedBy[t] /\ markedBy[t] # i
    OBVIOUS
  <2>2. t \in fitted \/ <<markedBy[t], t>> \in overtaken
    BY DEF MarkedIsFitted
  <2> QED  BY <2>1, <2>2
<1> QED  BY <1>1, <1>4, <1>5, <1>6

LEMMA InstallStep == ASSUME IInv, NEW i \in Installs, Install(i) PROVE IInv'
<1> DEFINE ts == In("compared")
<1>1. ts \in SUBSET Trays
  BY DEF In
<1>2. /\ tray' \in [Trays -> Statuses] /\ mark' \in [Trays -> BOOLEAN]
      /\ \A t \in Trays : tray'[t] = IF t \in ts THEN "installing" ELSE tray[t]
      /\ \A t \in Trays : mark'[t] = (mark[t] /\ t \notin ts)
  BY <1>1, MoveFacts DEF Statuses, IInv, Install
<1>3. /\ FlowOK'
      /\ \A t \in Trays : t \notin ts => markedBy'[t] = markedBy[t]
  BY <1>2 DEF FlowOK, IInv, Install
<1>4. Ask(i, ts)
  BY DEF Install
<1>5. \A t \in Trays : tray'[t] = "outside" => tray[t] = "outside" /\ t \notin ts
  BY <1>2
<1>6. \A t \in Trays : mark'[t] \/ tray'[t] = "ready" =>
          (mark[t] \/ tray[t] = "ready") /\ markedBy'[t] = markedBy[t]
  BY <1>2, <1>3
<1> HIDE DEF ts
<1> QED  BY <1>1, <1>3, <1>4, <1>5, <1>6, AskFacts

LEMMA ResendStep == ASSUME IInv, NEW i \in Installs, Resend(i) PROVE IInv'
<1> DEFINE ts == In("installing")
<1>1. ts \in SUBSET Trays /\ Ask(i, ts) /\ FlowOK' /\ UNCHANGED <<tray, mark, markedBy>>
  BY DEF In, Resend, flow, IInv, FlowOK
<1>2. \A t \in Trays : tray[t] = "outside" => t \notin ts
  BY DEF In
<1> HIDE DEF ts
<1> QED  BY <1>1, <1>2, AskFacts

-----------------------------------------------------------------------------
LEMMA ServeStep ==
    ASSUME IInv, NEW i \in Installs,
           \/ Register(i) \/ RegisterFails(i) \/ Publish(i) \/ PublishNotConfirmed(i)
           \/ MarkFailed(i)
    PROVE  IInv'
<1> USE DEF IInv, Serve, flow, tables, history
<1>1. UNCHANGED <<flow, named, answers, handler, history>>
  BY DEF Register, RegisterFails, Publish, PublishNotConfirmed, MarkFailed
<1>2. /\ request' \in [Installs -> {"idle", "register", "publish", "fail"}]
      /\ rows' \in [Installs -> [Trays -> RowStatuses]]
  <2>1. CASE Register(i)
    BY <2>1 DEF Register, TablesOK, RowStatuses
  <2>2. CASE MarkFailed(i)
    BY <2>2 DEF MarkFailed, Conclude, TablesOK, RowStatuses
  <2>3. CASE RegisterFails(i) \/ Publish(i) \/ PublishNotConfirmed(i)
    BY <2>3 DEF RegisterFails, Publish, PublishNotConfirmed, TablesOK
  <2> QED  BY <2>1, <2>2, <2>3
<1>3. \A j \in Installs : j # i => request'[j] = request[j]
  BY DEF Register, RegisterFails, Publish, PublishNotConfirmed, MarkFailed, TablesOK
<1>4. request[i] # "idle" /\ commands' \in {commands, commands \union {i}}
  BY DEF Register, RegisterFails, Publish, PublishNotConfirmed, MarkFailed
<1>5. FlowOK' /\ TablesOK' /\ ChannelsOK'
  BY <1>1, <1>2, <1>4 DEF FlowOK, TablesOK, ChannelsOK
<1>6. AbsentIsOvertaken'
  BY <1>1, <1>3, <1>4 DEF AbsentIsOvertaken
<1>7. AnswerIsTrue' /\ MarkedIsFitted'
  BY <1>1 DEF AnswerIsTrue, MarkedIsFitted
<1> QED  BY <1>5, <1>6, <1>7

\* The host reports what it has fitted, and it fits every tray that is there.
LEMMA HostStep == ASSUME IInv, NEW i \in Installs, HostInstalls(i) PROVE IInv'
<1> USE DEF IInv, HostInstalls, flow, tables
<1>1. FlowOK' /\ TablesOK' /\ ChannelsOK'
  BY DEF FlowOK, TablesOK, ChannelsOK
<1>2. AbsentIsOvertaken'
  BY DEF AbsentIsOvertaken
<1>3. \A t \in named[i] : t \in fitted' \/ <<i, t>> \in overtaken
  BY DEF AbsentIsOvertaken, In, TablesOK
<1>4. AnswerIsTrue'
  BY <1>3 DEF AnswerIsTrue
<1>5. MarkedIsFitted'
  BY DEF MarkedIsFitted
<1> QED  BY <1>1, <1>2, <1>4, <1>5

\* Losing, refusing or taking an answer adds none.
LEMMA DeliveryStep ==
    ASSUME IInv, NEW i \in Installs, Lose(i) \/ Refuse(i) \/ Receive(i) PROVE IInv'
<1> USE DEF IInv, flow, tables, history
<1>1. /\ UNCHANGED <<flow, tables, request, commands, history>>
      /\ i \in answers /\ answers' \subseteq answers
      /\ handler' = handler \/ handler'.install = i
  BY DEF Lose, Refuse, Receive, Deliver
<1>2. FlowOK' /\ TablesOK' /\ ChannelsOK'
  BY <1>1 DEF FlowOK, TablesOK, ChannelsOK
<1>3. AbsentIsOvertaken' /\ MarkedIsFitted'
  BY <1>1 DEF AbsentIsOvertaken, MarkedIsFitted
<1>4. AnswerIsTrue'
  BY <1>1 DEF AnswerIsTrue
<1> QED  BY <1>2, <1>3, <1>4

LEMMA SubscriberStep == ASSUME IInv, Subscriber PROVE IInv'
<1> USE DEF IInv, flow, tables, history
<1>1. CASE Log
  <2>1. UNCHANGED <<flow, named, rows, request, commands, answers, history>>
    BY <1>1 DEF Log
  <2>2. handler.pc # "idle" /\ (handler' = Idle \/ handler'.install = handler.install)
    BY <1>1 DEF Log
  <2>3. handler'.pc # "idle" => handler'.install = handler.install
    BY <2>2 DEF Idle
  <2> QED  BY <2>1, <2>2, <2>3 DEF FlowOK, TablesOK, ChannelsOK, AbsentIsOvertaken,
              AnswerIsTrue, MarkedIsFitted
<1>2. CASE MarkReady
  <2>1. UNCHANGED <<flow, named, request, commands, answers, history>> /\ handler' = Idle
    BY <1>2 DEF MarkReady
  <2>2. rows' \in [Installs -> [Trays -> RowStatuses]]
    BY <1>2 DEF MarkReady, Conclude, TablesOK, RowStatuses
  <2> QED  BY <2>1, <2>2 DEF FlowOK, TablesOK, ChannelsOK, AbsentIsOvertaken,
              AnswerIsTrue, MarkedIsFitted, Idle
<1>3. CASE Apply
  <2> DEFINE i == handler.install
             ts == named[i] \intersect In("installing")
  <2>1. /\ i \in Installs
        /\ UNCHANGED <<tray, tables, request, commands, answers, history>>
        /\ mark' = [t \in Trays |-> mark[t] \/ t \in ts]
        /\ markedBy' = [t \in Trays |-> IF t \in ts THEN i ELSE markedBy[t]]
    BY <1>3 DEF Apply, ChannelsOK
  <2>2. handler.pc # "idle" /\ (handler'.pc # "idle" => handler'.install = i)
    BY <1>3 DEF Apply, Idle
  <2>3. FlowOK' /\ TablesOK' /\ ChannelsOK'
    BY <2>1, <2>2 DEF FlowOK, TablesOK, ChannelsOK
  <2>4. AbsentIsOvertaken' /\ AnswerIsTrue'
    BY <2>1, <2>2 DEF AbsentIsOvertaken, AnswerIsTrue
  <2>5. \A t \in ts : t \in fitted \/ <<i, t>> \in overtaken
    BY <2>1, <2>2 DEF AnswerIsTrue
  <2>6. MarkedIsFitted'
    <3> HIDE DEF ts, i
    <3> QED  BY <2>1, <2>5 DEF MarkedIsFitted
  <2> QED  BY <2>3, <2>4, <2>6
<1> QED  BY <1>1, <1>2, <1>3 DEF Subscriber

\* The clock and a crash take away and add nothing.
LEMMA OtherStep ==
    ASSUME IInv, NextSecond \/ Crash \/ UNCHANGED vars PROVE IInv'
<1> USE DEF IInv, flow, tables, history, vars
<1>1. /\ UNCHANGED <<flow, named, rows, commands, answers, history>>
      /\ request' = request \/ request' = [i \in Installs |-> "idle"]
      /\ handler' = handler \/ handler' = Idle
  BY DEF NextSecond, Crash
<1>2. FlowOK' /\ TablesOK' /\ ChannelsOK'
  BY <1>1 DEF FlowOK, TablesOK, ChannelsOK, Idle
<1>3. AbsentIsOvertaken'
  BY <1>1 DEF AbsentIsOvertaken
<1>4. AnswerIsTrue' /\ MarkedIsFitted'
  BY <1>1 DEF AnswerIsTrue, MarkedIsFitted, Idle
<1> QED  BY <1>2, <1>3, <1>4

-----------------------------------------------------------------------------
LEMMA NextIInv == IInv /\ [Next]_vars => IInv'
<1> SUFFICES ASSUME IInv, [Next]_vars PROVE IInv'
  OBVIOUS
<1>1. ASSUME NEW ts \in SUBSET Trays, Compare(ts) \/ Withdraw(ts) PROVE IInv'
  BY <1>1, CompareStep, WithdrawStep
<1>2. ASSUME NEW i \in Installs, Install(i) \/ Repeat(i) \/ RepeatImpatiently(i) PROVE IInv'
  BY <1>2, InstallStep, ResendStep DEF Repeat, RepeatImpatiently
<1>3. ASSUME NEW i \in Installs,
             \/ Register(i) \/ RegisterFails(i) \/ Publish(i) \/ PublishNotConfirmed(i)
             \/ MarkFailed(i)
      PROVE  IInv'
  BY <1>3, ServeStep
<1>4. ASSUME NEW i \in Installs, HostInstalls(i) \/ Lose(i) \/ Refuse(i) \/ Receive(i)
      PROVE  IInv'
  BY <1>4, HostStep, DeliveryStep
<1>5. CASE ConfirmReady
  BY <1>5, ConfirmReadyStep
<1>6. CASE Subscriber
  BY <1>6, SubscriberStep
<1>7. CASE NextSecond \/ Crash \/ UNCHANGED vars
  BY <1>7, OtherStep
<1> QED  BY <1>1, <1>2, <1>3, <1>4, <1>5, <1>6, <1>7 DEF Next

\* The inductive invariant holds in every reachable state: every command, answer and
\* mark is right for the trays that have not been withdrawn since it was asked for.
THEOREM FixtureInvariant == Spec => []IInv
<1>1. [Next /\ UNCHANGED idKind]_<<vars, idKind>> => [Next]_vars
  OBVIOUS
<1> QED  BY <1>1, InitIInv, NextIInv, PTL DEF Spec

\* The READY gate: only the late answer of an installation that a withdrawal overtook
\* can unlock it for a tray without a fixture.
THEOREM ReadyMeansFitted == Spec => []MarkedIsFitted
BY FixtureInvariant, PTL DEF IInv
===============================================================================
