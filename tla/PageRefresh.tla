----------------------------- MODULE PageRefresh -----------------------------
(***************************************************************************)
(* A page of the frontend that shows a snapshot of the store and keeps it  *)
(* up to date: the update stream of the API process, the notifications of  *)
(* other tabs, and the refresh scheduler of useStorageSnapshotRefresh.     *)
(* What a read returns is SnapshotRead, which the read cache implements.   *)
(*                                                                         *)
(* Three kinds of pages exist.  "app" is the shell with its navigation     *)
(* alerts, which also reads again every minute.  "viewer" pages pause      *)
(* while a dialog is open.  "editor" pages do too, write, and ignore the   *)
(* updates their own requests cause.                                       *)
(***************************************************************************)
EXTENDS SnapshotRead

CONSTANTS
    Watched,    \* the keys the page shows
    Kinds,      \* the kinds of page to consider
    QueueSize   \* maxsize of a subscriber's queue

ASSUME PageAssumption ==
    /\ Watched \subseteq Keys /\ Watched # {}
    /\ Kinds \subseteq {"app", "viewer", "editor"}
    /\ Origins \subseteq {"own", "tab", "other"}
    /\ "editor" \in Kinds => "own" \in Origins
    /\ Readers = {"refresh", "direct"}
    /\ QueueSize \in Nat \ {0}

VARIABLES
    kind,     \* the page's kind
    stream,   \* the EventSource of the browser and its queue in the process
    markers,  \* notifications of other tabs on their way (localStorage)
    seen,     \* recentRequestTimes: requests whose update was accepted
    page,     \* the scheduler of the page
    own,      \* a write of this page
    shown,    \* the writes the page shows
    untold    \* history: writes the page may never be told of, see below

client   == <<stream, markers, seen, page, own, shown>>
pageVars == <<readVars, kind, client, untold>>

NoOwn == [pc |-> "idle", id |-> 0]

WatchedIds == {i \in Ids : writes[i].key \in Watched}
Of(n, keys) == {i \in 1..n : writes[i].key \in keys}

\* What publish_storage_update and notifyStorageSnapshotUpdated send.
Message(i, v) ==
    [keys |-> {writes[i].key}, version |-> v, full |-> FALSE,
     id |-> IF writes[i].by = "other" THEN 0 ELSE i]
Reconnected == [keys |-> {}, version |-> 0, full |-> TRUE, id |-> 0]

Connection(state) == [state |-> state, queue |-> <<>>, dropped |-> {}]
Calm(last) == [pending |-> {}, keys |-> {}, timer |-> FALSE,
               hasPending |-> FALSE, paused |-> FALSE, last |-> last]

\* The page is mounted, or it has been open for a while and up to date.
PageInit ==
    /\ PubInit
    /\ kind \in Kinds
    /\ \/ /\ stream = Connection("new") /\ page = Calm(0)
          /\ read = [refresh |-> NoRead, direct |-> Asking]
       \/ /\ stream = Connection("open") /\ page = Calm(version)
          /\ read = [refresh |-> NoRead, direct |-> NoRead]
    /\ markers = {} /\ seen = {} /\ untold = {} /\ shown = {}
    /\ own = NoOwn

-----------------------------------------------------------------------------
(* The scheduler.  `pending` is pendingRefreshKeys, nonempty exactly when   *)
(* pendingRefreshRequested; `keys` are the keys of the refresh in flight,   *)
(* empty when none is.  refreshQueued has an effect only with pending keys.   *)

\* executeRefresh.
Executed(p) == IF p.keys = {} THEN [p EXCEPT !.keys = p.pending, !.pending = {}] ELSE p

\* The page's state becomes p, and a refresh that p starts asks for a snapshot.
Becomes(p) ==
    /\ page' = p
    /\ read' = IF page.keys # p.keys /\ p.keys # {}
               THEN [read EXCEPT !["refresh"] = Asking] ELSE read

\* A version that neither repeats nor follows the last one seen.
Gap(m) == m.version # 0 /\ page.last # 0 /\ m.version \notin {page.last, page.last + 1}

\* Mutated: without the check of the versions.
RequestedNoGap(m) ==
    LET p    == IF m.version = 0 THEN page ELSE [page EXCEPT !.last = m.version]
        keys == IF m.full THEN Watched ELSE m.keys \intersect Watched
        new  == [p EXCEPT !.pending = @ \union keys]
    IN  IF keys = {} THEN p
        ELSE IF page.paused THEN [new EXCEPT !.hasPending = TRUE]
        ELSE [new EXCEPT !.hasPending = FALSE, !.timer = TRUE]

\* requestRefresh of an update that is not ignored.
Requested(m) ==
    LET full == m.full \/ Gap(m)
        p    == IF m.version = 0 THEN page ELSE [page EXCEPT !.last = m.version]
        keys == IF full THEN Watched ELSE m.keys \intersect Watched
        new  == [p EXCEPT !.pending = @ \union keys]
    IN  IF keys = {} THEN p
        ELSE IF page.paused THEN [new EXCEPT !.hasPending = TRUE]
        ELSE [new EXCEPT !.hasPending = FALSE, !.timer = TRUE]

Mine(m)     == m.id # 0 /\ writes[m.id].by = "own"
Matters(m)  == m.full \/ Gap(m) \/ m.keys \intersect Watched # {}
Repeated(m) == Matters(m) /\ m.id \in seen

\* shouldIgnoreUpdate: the schedule page forgets its own requests five seconds
\* after their answer, the others keep the last twenty.
Ignore(m) == Mine(m) /\ UNCHANGED <<page, seen>>

\* Another update of a request accepted in the last five seconds is dropped, when
\* its version was noted.
Drop(m) ==
    /\ ~Mine(m) /\ Repeated(m)
    /\ page' = IF m.version = 0 THEN page ELSE [page EXCEPT !.last = m.version]
    /\ UNCHANGED seen

\* recentRequestTimes: an entry counts for five seconds, so a repeated update may
\* be accepted as well.
Accept(m) ==
    /\ Mine(m) => own.id # m.id
    /\ page' = Requested(m)
    /\ seen' = IF Matters(m) /\ m.id # 0 THEN seen \union {m.id} ELSE seen

\* Mutated: what was requested during a refresh is left pending.
SettledOnly(p) == [p EXCEPT !.keys = {}]

\* settleRefresh.
Settled(p) ==
    LET q == [p EXCEPT !.keys = {}]
    IN  IF q.pending = {} THEN q
        ELSE IF q.paused THEN [q EXCEPT !.hasPending = TRUE] ELSE Executed(q)

\* The refresh that follows a settled one asks at once.
SettleReader(p) ==
    read' = [read EXCEPT !["refresh"] = IF p.keys # {} THEN Asking ELSE NoRead]

Timer ==
    /\ page.timer
    /\ Becomes(Executed([page EXCEPT !.timer = FALSE]))
    /\ UNCHANGED <<pubVars, kind, stream, markers, seen, own, shown, untold>>

\* Writes a page shows no more, because an older snapshot overwrote them.
Overwritten(new) == shown \ new

Refreshed ==
    /\ read["refresh"].state = "answered"
    /\ page' = Settled(page) /\ SettleReader(page')
    /\ shown' = {i \in shown : writes[i].key \notin page.keys}
                   \union Of(read["refresh"].n, page.keys)
    /\ untold' = untold \union Overwritten(shown')
    /\ UNCHANGED <<pubVars, kind, stream, markers, seen, own>>

\* The callback rejects or gives up: its keys are not asked for again.
RefreshFails ==
    /\ read["refresh"].state = "failed"
    /\ page' = Settled(page) /\ SettleReader(page')
    /\ untold' = untold \union Of(Len(writes), page.keys)
    /\ UNCHANGED <<pubVars, kind, stream, markers, seen, own, shown>>

-----------------------------------------------------------------------------
(* Reads outside the scheduler: when the page is mounted, every minute in   *)
(* the shell, and in some pages when a write of theirs failed.              *)

\* The timer of the shell, which lets a minute pass when the tab is hidden.
\* Bound: the previous read has ended.
Load ==
    /\ kind = "app" /\ read["direct"] = NoRead
    /\ read' = [read EXCEPT !["direct"] = Asking]
    /\ UNCHANGED <<pubVars, kind, client, untold>>

Loaded ==
    /\ read["direct"].state = "answered"
    /\ shown' = Of(read["direct"].n, Watched)
    /\ untold' = untold \union Overwritten(shown')
    /\ read' = [read EXCEPT !["direct"] = NoRead]
    /\ UNCHANGED <<pubVars, kind, stream, markers, seen, page, own>>

LoadFailed ==
    /\ read["direct"].state = "failed"
    /\ untold' = untold \union WatchedIds
    /\ read' = [read EXCEPT !["direct"] = NoRead]
    /\ UNCHANGED <<pubVars, kind, client>>

-----------------------------------------------------------------------------
(* Dialogs.  While one is open updates are only noted.  Most handlers that  *)
(* close one call flushPendingRefresh; some close it and nothing else.      *)

Pause ==
    /\ kind # "app" /\ ~page.paused
    /\ page' = [page EXCEPT !.paused = TRUE]
    /\ UNCHANGED <<readVars, kind, stream, markers, seen, own, shown, untold>>

Resume ==
    /\ page.paused
    /\ LET p == [page EXCEPT !.paused = FALSE]
       IN  Becomes(IF page.hasPending
                   THEN Executed([p EXCEPT !.hasPending = FALSE, !.timer = FALSE]) ELSE p)
    /\ UNCHANGED <<pubVars, kind, stream, markers, seen, own, shown, untold>>

\* Something will still ask for the pending keys.
Asks(p) == p.timer \/ p.keys # {} \/ p.paused

\* confirmScheduleConflict, and the like in the tasks page: what was noted stays
\* noted, for the next update or the closing of another dialog.
CloseQuietly ==
    /\ page.paused
    /\ page' = [page EXCEPT !.paused = FALSE]
    /\ untold' = IF Asks(page') THEN untold ELSE untold \union Of(Len(writes), page.pending)
    /\ UNCHANGED <<readVars, kind, stream, markers, seen, own, shown>>

-----------------------------------------------------------------------------
(* Writes, and the way of their updates to the page.                        *)

WriteElsewhere ==
    /\ \E w \in Write : w.by # "own" /\ Commit(w)
    /\ UNCHANGED <<read, kind, client, untold>>

\* An editor page sends a write of one of its keys, and MES commits it.
WriteOwn ==
    /\ kind = "editor" /\ own.pc = "idle"
    /\ \E k \in Watched : Commit([key |-> k, by |-> "own"])
    /\ own' = [pc |-> "sent", id |-> Len(writes) + 1]
    /\ UNCHANGED <<read, kind, stream, markers, seen, page, shown, untold>>

\* The answer, which follows the publication: the page shows its own write.
OwnAnswer ==
    /\ own.pc = "sent" /\ \A p \in pubs : p.id # own.id
    /\ shown' = shown \union {own.id}
    /\ own' = [own EXCEPT !.pc = "idle"]
    /\ UNCHANGED <<readVars, kind, stream, markers, seen, page, untold>>

\* No answer comes: the page reports a failure, and some pages read again.
OwnFails ==
    /\ \/ own.pc = "lost" /\ UNCHANGED faults
       \/ own.pc = "sent" /\ Fault("reply_lost")
    /\ own' = [own EXCEPT !.pc = "idle"]
    /\ untold' = untold \union {own.id}
    /\ \/ UNCHANGED read
       \/ read["direct"] = NoRead /\ read' = [read EXCEPT !["direct"] = Asking]
    /\ UNCHANGED <<writes, pubs, version, kind, stream, markers, seen, page, shown>>

InvalidateCache ==
    /\ \E p \in pubs : Invalidate(p)
    /\ UNCHANGED <<read, kind, client, untold>>

\* enqueue: a full queue loses its oldest update. Writers may enqueue in another
\* order than that of their versions. A tab of this browser that wrote notifies
\* the others when it has its answer.
Enqueue(p) ==
    /\ HandOver(p)
    /\ LET full == Len(stream.queue) = QueueSize
           kept == IF full THEN Tail(stream.queue) ELSE stream.queue
       IN  stream' = IF stream.state # "open" THEN stream
                     ELSE [stream EXCEPT !.queue = Append(kept, [write |-> p.id, version |-> p.version]),
                                         !.dropped = IF full THEN @ \union {stream.queue[1].write} ELSE @]
    /\ untold' = IF stream.state = "new" THEN untold \union {p.id} ELSE untold
    /\ markers' = IF writes[p.id].by = "tab" THEN markers \union {p.id} ELSE markers
    /\ UNCHANGED <<read, kind, seen, page, own, shown>>

\* An update of the stream arrives. Updates the queue lost are made up for when
\* the gap in the versions is noticed.
Receive ==
    /\ stream.queue # <<>>
    /\ LET next == Head(stream.queue)
           m == Message(next.write, next.version)
       IN  \/ /\ Ignore(m)
              /\ stream' = [stream EXCEPT !.queue = Tail(@)] /\ UNCHANGED untold
           \/ /\ Drop(m)
              /\ stream' = [stream EXCEPT !.queue = Tail(@), !.dropped = {}]
              /\ untold' = untold \union stream.dropped
           \/ /\ Accept(m)
              /\ stream' = [stream EXCEPT !.queue = Tail(@), !.dropped = {}]
              /\ untold' = IF Gap(m) THEN untold ELSE untold \union stream.dropped
    /\ UNCHANGED <<readVars, kind, markers, own, shown>>

Notified(i) ==
    /\ i \in markers
    /\ markers' = markers \ {i}
    /\ Accept(Message(i, 0)) \/ Drop(Message(i, 0))
    /\ UNCHANGED <<readVars, kind, stream, own, shown, untold>>

\* Mutated: a later connection asks for nothing either.
ConnectSilently ==
    /\ stream.state # "open"
    /\ stream' = Connection("open")
    /\ UNCHANGED <<readVars, kind, markers, seen, page, own, shown, untold>>

\* The first connection is only noted; a later one asks for everything.
Connect ==
    /\ stream.state # "open"
    /\ stream' = Connection("open")
    /\ page' = IF stream.state = "new" THEN page ELSE Requested(Reconnected)
    /\ UNCHANGED <<readVars, kind, markers, seen, own, shown, untold>>

Cut == IF stream.state = "open" THEN Connection("down") ELSE stream

Disconnect ==
    /\ Fault("disconnect") /\ stream.state = "open"
    /\ stream' = Cut
    /\ UNCHANGED <<writes, pubs, version, read, kind, markers, seen, page, own, shown, untold>>

\* A write that was not published is told of by the next connection, unless the
\* page never had one.
RestartMES ==
    /\ Restart
    /\ stream' = Cut
    /\ untold' = IF stream.state = "new" THEN untold \union {p.id : p \in pubs} ELSE untold
    /\ own' = IF own.pc = "sent" THEN [own EXCEPT !.pc = "lost"] ELSE own
    /\ UNCHANGED <<kind, markers, seen, page, shown>>

\* An answer is on its way, or a failure: the request ended, or timed out.
Served(r) == Reply(r) /\ UNCHANGED <<kind, client, untold>>
NotServed(r) == Fail(r) /\ UNCHANGED <<kind, client, untold>>

PageNext ==
    \/ WriteElsewhere \/ WriteOwn \/ OwnAnswer \/ OwnFails
    \/ InvalidateCache \/ (\E p \in pubs : Enqueue(p))
    \/ Receive \/ (\E i \in markers : Notified(i))
    \/ Connect \/ Disconnect \/ RestartMES
    \/ Timer \/ Refreshed \/ RefreshFails
    \/ Load \/ Loaded \/ LoadFailed
    \/ Pause \/ Resume \/ CloseQuietly
    \/ (\E r \in Readers : Served(r) \/ NotServed(r))

PageSpec == PageInit /\ [][PageNext]_pageVars

-----------------------------------------------------------------------------
\* What was asked for is never forgotten: pending keys have a timer, a refresh in
\* flight after which they follow, or the note without which flushPendingRefresh
\* does nothing; no order of updates, refreshes and dialogs takes the note away.
\* useStorageSnapshotRefresh.js requestRefresh, settleRefresh and flushPendingRefresh.
NoLostWakeup == page.pending # {} => page.timer \/ page.keys # {} \/ page.hasPending

\* Nothing that concerns the page is on its way, no dialog is open, and no refresh
\* will start by itself. Keys may still be noted.
Quiet ==
    /\ pubs = {} /\ stream.state = "open" /\ stream.queue = <<>> /\ markers = {}
    /\ ~Asks(page) /\ own.pc = "idle" /\ read["direct"] = NoRead

\* Writes the page may lack with nothing left that would tell it: what is in
\* `untold`, and what a full queue lost until the next update shows the gap.
Missed == untold \union stream.dropped

\* A page at rest shows every write of its keys but those it missed: the writes
\* published before its first connection, those a refresh failed to read, its own
\* ones whose answer was lost, those an older snapshot overwrote, those noted in a
\* dialog that was closed without a flush, and those a full queue lost without a gap
\* the page noticed. Under no order of updates, dialogs, answers and reads does it
\* show old data at rest in another way.
\* useStorageSnapshotRefresh.js, storageApi.js and storage_update_bus.py together.
QuietMeansFresh == Quiet => WatchedIds \subseteq shown \union Missed

\* What goes on by itself: publications, the connection, the timer, the requests
\* and their answers; dialogs are closed in the end, some without a flush. That of
\* Load takes the shell's tab to be looked at again and again.
Fairness ==
    /\ WF_pageVars(InvalidateCache \/ \E p \in pubs : Enqueue(p))
    /\ WF_pageVars(OwnAnswer \/ OwnFails)
    /\ WF_pageVars(Connect \/ Receive) /\ WF_pageVars(\E i \in markers : Notified(i))
    /\ WF_pageVars(Timer)
    /\ WF_pageVars(Served("refresh") \/ Refreshed \/ RefreshFails)
    /\ WF_pageVars(Load \/ Served("direct") \/ Loaded \/ LoadFailed)
    /\ WF_pageVars(Resume \/ CloseQuietly)
FairPageSpec == PageSpec /\ Fairness

\* Every page shows in the end every write of its keys but those it missed, and the
\* shell, which reads again every minute it is visible, shows all of them
\* ("missed events and reconnections self-heal",
\* docs/superpowers/plans/2026-07-13-sse-nav-alert-refresh.md:7).
EventuallyFresh ==
    <>[](WatchedIds \subseteq shown \union (IF kind = "app" THEN {} ELSE Missed))
=============================================================================
