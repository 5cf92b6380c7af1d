----------------------------- MODULE LabSchedule -----------------------------
(***************************************************************************)
(* The schedule of one laboratory and everyone who moves it: the cascade   *)
(* of delays the lab events cause, the pages that edit, drag, create and   *)
(* delete schedules from the snapshot they show, and the clean-up every    *)
(* load of the schedule page does on its own.                              *)
(*                                                                         *)
(* Start and completion of an experiment run the cascade inside the        *)
(* laboratory commit lock, as page writes run inside it; the resumption of *)
(* a paused salt-spray run reads and writes without it.  The pages are     *)
(* open in different browsers, so no marker of one stops the other.        *)
(***************************************************************************)
EXTENDS Integers, FiniteSets, FiniteSetsExt

CONSTANTS
    Ids,          \* the schedules, numbers: ties are broken by id
    Pages,        \* schedule pages
    Planned,      \* the windows scheduled at first, a function on some Ids
    Delivered,    \* the schedules whose samples are at the laboratory
    SaltSpray,    \* the schedules of salt-spray tests, which can be paused
    Maintenance,  \* windows in which the laboratory is under maintenance
    Buffer,       \* SLOT_BUFFER_MINUTES, as the drag demands it
    Durations,    \* durations of experiments
    Horizon,      \* bound: no user plans past it
    MaxNow,       \* bound: the clock stops there
    MaxRequests   \* bound: loads and changes by the pages

ASSUME ScheduleAssumption ==
    /\ Ids \subseteq Nat \ {0} /\ IsFiniteSet(Ids) /\ DOMAIN Planned \subseteq Ids
    /\ \A i \in DOMAIN Planned :
          /\ Planned[i] \in [start : Nat, end : Nat] /\ Planned[i].start < Planned[i].end
          /\ \A j \in DOMAIN Planned \ {i} :
                Planned[i].end <= Planned[j].start \/ Planned[j].end <= Planned[i].start
    /\ Delivered \subseteq Ids /\ SaltSpray \subseteq Ids
    /\ Durations \subseteq Nat \ {0}
    /\ Buffer \in Nat /\ Horizon \in Nat /\ MaxNow \in Nat /\ MaxRequests \in Nat

VARIABLES
    now,     \* the business clock
    store,   \* what the database holds: rows, progress of the experiments, run
    view,    \* view[p]: the snapshot page p shows
    loading, \* pages whose load has not yet written what it reconciles
    resumed, \* the snapshot a resumption plans its cascade on, or None
    requests, \* loads and changes by the pages so far
    excused  \* history: something happened that may make windows overlap, see below

vars == <<now, store, view, loading, resumed, requests, excused>>

None == [none |-> TRUE]

Window(s, d) == [start |-> s, end |-> s + d]
Overlap(w, x) == w.start < x.end /\ x.start < w.end
NewRow(w) == [start |-> w.start, end |-> w.end, orig |-> None, wait |-> 0, done |-> FALSE]

Init ==
    /\ now = 0
    /\ store = [rows |-> [i \in Ids |-> IF i \in DOMAIN Planned THEN NewRow(Planned[i]) ELSE None],
                lab  |-> [i \in Ids |-> "idle"],
                run  |-> None]
    /\ view = [p \in Pages |-> store]
    /\ loading = {} /\ resumed = None /\ requests = 0 /\ excused = FALSE

-----------------------------------------------------------------------------
(* Schedules.                                                               *)

Present(rows) == {i \in Ids : rows[i] # None}
\* _window(original = True).
Original(row) == IF row.orig = None THEN [start |-> row.start, end |-> row.end] ELSE row.orig
\* schedule_is_locked_for_automatic_reschedule, scheduleExperimentHasStarted.
Locked(snapshot, i) == snapshot.lab[i] # "idle" \/ snapshot.rows[i].done
Precedes(rows, i, j) ==
    LET s == Original(rows[i]).start  t == Original(rows[j]).start
    IN  s < t \/ (s = t /\ i < j)
\* The schedules after c, and the one of c and these that comes right before i.
Later(rows, c) == {i \in Present(rows) : Precedes(rows, c, i)}
Before(rows, c, i) ==
    LET earlier == {j \in Later(rows, c) \cup {c} : Precedes(rows, j, i)}
    IN  CHOOSE j \in earlier : \A k \in earlier \ {j} : Precedes(rows, k, j)
UnderMaintenance(w) == \E m \in Maintenance : Overlap(w, m)

\* Mutated: keeps the present gap, which earlier delays have widened.
ProposedPresentGap(row, orig, end) ==
    LET o == Original(row)
        s == Max({row.start, o.start, end + Max({row.start - orig, 0})})
    IN  Window(s, o.end - o.start)

\* Where a row goes when the one before it ends at `end`, originally at `orig`.
Proposed(row, orig, end) ==
    LET o == Original(row)
        s == Max({row.start, o.start, end + Max({o.start - orig, 0})})
    IN  Window(s, o.end - o.start)
Moves(row, w) == w.start > row.start \/ w.end > row.end
Delayed(row, w) ==
    [row EXCEPT !.start = w.start, !.end = w.end, !.orig = Original(row), !.wait = 0]

\* The windows the cascade proposes for the schedules after c when c ends at
\* `end`, each after the window of the one before it.
Windows(rows, c, end) ==
    LET window[i \in Later(rows, c) \cup {c}] ==
            IF i = c THEN [start |-> rows[c].start, end |-> end]
            ELSE LET b == Before(rows, c, i)
                 IN  Proposed(rows[i], Original(rows[b]).end, window[b].end)
    IN  window
\* The rows it delays: those whose window moves.
Delays(rows, c, windows) ==
    [i \in {j \in Later(rows, c) : Moves(rows[j], windows[j])} |-> Delayed(rows[i], windows[i])]

\* The updates of a plan, none when c is gone or a move that cannot be made
\* blocks the whole plan.
NoUpdates == [i \in {} |-> None]
Updates(snapshot, c, end) ==
    LET windows == Windows(snapshot.rows, c, end)
        delays  == Delays(snapshot.rows, c, windows)
    IN  IF \/ snapshot.rows[c] = None
           \/ \E i \in DOMAIN delays : Locked(snapshot, i) \/ UnderMaintenance(windows[i])
        THEN NoUpdates ELSE delays

\* patch_schedules: whole rows are written, also over newer ones.
Upsert(rows, updates) ==
    [i \in Ids |-> IF i \in DOMAIN updates THEN updates[i] ELSE rows[i]]

-----------------------------------------------------------------------------
(* The laboratory.                                                          *)

\* The windows of schedules that are not completed, and whether two overlap.
Open(rows) == {i \in Present(rows) : ~rows[i].done}
Apart(rows) == \A i, j \in Open(rows) : i = j \/ ~Overlap(rows[i], rows[j])
\* Delays so far have left the present order and lengths as the original ones.
Aligned(rows) ==
    /\ \A i, j \in Present(rows) : Precedes(rows, i, j) => rows[i].start <= rows[j].start
    /\ \A i \in Present(rows) :
          rows[i].end - rows[i].start = Original(rows[i]).end - Original(rows[i]).start

\* A lab event changed the store to `next`; the cascade follows before the
\* commit lock is released.
Cascaded(next, c, end) ==
    LET updates == Updates(next, c, end)
    IN  /\ store' = [next EXCEPT !.rows = Upsert(@, updates)]
        /\ excused' = (excused \/ (DOMAIN updates # {} /\ ~Aligned(next.rows)))

\* Task comparison, and the withdrawal that undoes it.
Compare(i) ==
    /\ i \in Delivered /\ store.rows[i] # None /\ store.lab[i] = "idle"
    /\ store' = [store EXCEPT !.lab[i] = "compared"]
    /\ UNCHANGED <<now, view, loading, resumed, requests, excused>>
Withdraw(i) ==
    /\ store.lab[i] = "compared"
    /\ store' = [store EXCEPT !.lab[i] = "idle"]
    /\ UNCHANGED <<now, view, loading, resumed, requests, excused>>

\* The experiment of schedule i starts and is planned to take d.
Start(i, d) ==
    /\ store.lab[i] = "compared" /\ store.run = None
    /\ Cascaded([store EXCEPT !.lab[i] = "running",
                              !.run = [id |-> i, end |-> now + d, paused |-> FALSE, since |-> 0]], i, now + d)
    /\ UNCHANGED <<now, view, loading, resumed, requests>>

\* It ends, however early or late.
Complete ==
    /\ store.run # None /\ ~store.run.paused
    /\ LET c == store.run.id
       IN  Cascaded([store EXCEPT !.lab[c] = "done", !.rows[c].done = TRUE, !.run = None], c, now)
    /\ UNCHANGED <<now, view, loading, resumed, requests>>

\* A salt-spray run is paused; resumed, its planned end shifts by the pause,
\* and the cascade reads the schedules without the commit lock.
Pause ==
    /\ store.run # None /\ store.run.id \in SaltSpray /\ ~store.run.paused /\ resumed = None
    /\ store' = [store EXCEPT !.run.paused = TRUE, !.run.since = now]
    /\ UNCHANGED <<now, view, loading, resumed, requests, excused>>
Resume ==
    /\ store.run # None /\ store.run.paused
    /\ store' = [store EXCEPT !.run.end = @ + (now - store.run.since),
                              !.run.paused = FALSE, !.run.since = 0]
    /\ resumed' = store'
    /\ UNCHANGED <<now, view, loading, requests, excused>>
\* The cascade of the resumption is written; it may be based on old rows.
WriteResumed ==
    /\ resumed # None /\ resumed' = None
    /\ LET updates == Updates(resumed, resumed.run.id, resumed.run.end)
       IN  /\ store' = [store EXCEPT !.rows = Upsert(@, updates)]
           /\ excused' = (excused \/ (DOMAIN updates # {} /\ (~Aligned(resumed.rows) \/ resumed.rows # store.rows)))
    /\ UNCHANGED <<now, view, loading, requests>>

Tick ==
    /\ now < MaxNow /\ now' = now + 1
    /\ UNCHANGED <<store, view, loading, resumed, requests, excused>>

-----------------------------------------------------------------------------
(* The pages.                                                               *)

Request == requests < MaxRequests /\ requests' = requests + 1

\* loadSnapshot: the page reads, and shows what it has read.
Load(p) ==
    /\ view' = [view EXCEPT ![p] = store]
    /\ loading' = loading \cup {p}
    /\ Request
    /\ UNCHANGED <<now, store, resumed, excused>>

\* reconcileScheduleExceptions on the snapshot a load has read.
Blocked(v) ==
    IF v.run = None \/ v.run.paused THEN {}
    ELSE {i \in Present(v.rows) :
             /\ ~Locked(v, i)
             /\ v.rows[v.run.id] # None
             /\ Original(v.rows[v.run.id]).start <= Original(v.rows[i]).start
             /\ v.run.end < now}
Missed(v) == {i \in Present(v.rows) : ~Locked(v, i) /\ v.rows[i].end < now} \ Blocked(v)
Unmarked(v) == {i \in Blocked(v) : v.rows[i].wait # v.run.id}
Marked(v) ==
    [i \in Ids |-> IF i \in Unmarked(v)
                   THEN [v.rows[i] EXCEPT !.wait = v.run.id, !.orig = Original(v.rows[i])]
                   ELSE v.rows[i]]
Without(rows, ids) == [i \in Ids |-> IF i \in ids THEN None ELSE rows[i]]

\* Mutated: compared schedules are not protected before they start.
KeepsStarted(rows) ==
    \A i \in Ids :
        store.rows[i] # None /\ store.lab[i] \in {"running", "done"} =>
            /\ rows[i] # None
            /\ rows[i].start = store.rows[i].start /\ rows[i].end = store.rows[i].end

\* validate_fixture_locked_schedules.
KeepsLocked(rows) ==
    \A i \in Ids :
        store.rows[i] # None /\ store.lab[i] # "idle" =>
            /\ rows[i] # None
            /\ rows[i].start = store.rows[i].start /\ rows[i].end = store.rows[i].end

\* The load ends with nothing written: there is nothing to write, or the
\* write is refused, and the page shows what it has read.
Reconciles(p, rows) == IF Missed(view[p]) # {} THEN KeepsLocked(Without(store.rows, Missed(view[p])))
                       ELSE Unmarked(view[p]) # {} /\ KeepsLocked(rows)
LoadEnds(p) ==
    /\ p \in loading /\ loading' = loading \ {p}
    /\ ~Reconciles(p, Marked(view[p]))
    /\ UNCHANGED <<now, store, view, resumed, requests, excused>>

\* Schedules that were never started and are over are deleted, by id.
DeleteMissed(p) ==
    LET missed == Missed(view[p])
    IN  /\ p \in loading /\ loading' = loading \ {p}
        /\ missed # {} /\ Reconciles(p, view[p].rows)
        /\ store' = [store EXCEPT !.rows = Without(@, missed)]
        /\ view' = [view EXCEPT ![p].rows = Without(Marked(view[p]), missed)]
        /\ UNCHANGED <<now, resumed, requests, excused>>

\* Schedules that wait for an overdue run are marked: all rows the page has
\* read are written, and the rows it has not read are dropped.
MarkWaiting(p) ==
    LET rows == Marked(view[p])
    IN  /\ p \in loading /\ loading' = loading \ {p}
        /\ Missed(view[p]) = {} /\ Reconciles(p, rows)
        /\ store' = [store EXCEPT !.rows = rows]
        /\ view' = [view EXCEPT ![p].rows = rows]
        /\ excused' = (excused \/ view[p].rows # store.rows)
        /\ UNCHANGED <<now, resumed, requests>>

\* Mutated: the windows are not compared with the stored ones.
AcceptedUnchecked(i, row) ==
    KeepsLocked([store.rows EXCEPT ![i] = row]) /\ (row # None => ~UnderMaintenance(row))

\* patch_storage_schedules: page p writes `row` (None deletes) as schedule i,
\* and the patch is refused when the store does not allow it.
Accepted(i, row) ==
    /\ KeepsLocked([store.rows EXCEPT ![i] = row])
    /\ row # None =>
          /\ \A j \in Open(store.rows) \ {i} : ~Overlap(row, store.rows[j])
          /\ ~UnderMaintenance(row)
Patch(p, i, row) ==
    /\ loading' = loading \ {p}
    /\ IF Accepted(i, row)
       THEN /\ store' = [store EXCEPT !.rows[i] = row]
            /\ view' = [view EXCEPT ![p].rows[i] = row]
       ELSE UNCHANGED <<store, view>>
    /\ UNCHANGED <<now, resumed, excused>>

\* The page's own check of a new window against the rows it shows.
Free(p, i, w, gap) ==
    /\ w.start >= now /\ w.end <= Horizon /\ ~UnderMaintenance(w)
    /\ \A j \in Open(view[p].rows) \ {i} :
          w.end + gap <= view[p].rows[j].start \/ view[p].rows[j].end + gap <= w.start
Movable(p, i) == view[p].rows[i] # None /\ ~Locked(view[p], i)

Create(p, i, w) ==
    /\ Request /\ store.rows[i] = None /\ view[p].rows[i] = None /\ i \notin DOMAIN Planned
    /\ Free(p, i, w, 0)
    /\ Patch(p, i, NewRow(w))
\* The edit drawer keeps the original window of a delayed schedule.
Edit(p, i, w) ==
    /\ Request /\ Movable(p, i) /\ Free(p, i, w, 0)
    /\ w # [start |-> view[p].rows[i].start, end |-> view[p].rows[i].end]
    /\ Patch(p, i, [view[p].rows[i] EXCEPT !.start = w.start, !.end = w.end])
\* A drag keeps the duration and makes the new window the original one.
Drag(p, i, s) ==
    LET row == view[p].rows[i]
    IN  /\ Request /\ Movable(p, i) /\ s # row.start
        /\ Free(p, i, Window(s, row.end - row.start), Buffer)
        /\ Patch(p, i, NewRow(Window(s, row.end - row.start)))
Delete(p, i) == Request /\ Movable(p, i) /\ Patch(p, i, None)

-----------------------------------------------------------------------------
Starts == now..Horizon
PageNext(p) ==
    \/ Load(p) \/ LoadEnds(p) \/ DeleteMissed(p) \/ MarkWaiting(p)
    \/ \E i \in Ids :
          \/ Delete(p, i)
          \/ \E s \in Starts : Drag(p, i, s)
          \/ \E s \in Starts, d \in Durations : Create(p, i, Window(s, d)) \/ Edit(p, i, Window(s, d))
Next ==
    \/ \E i \in Ids : Compare(i) \/ Withdraw(i) \/ \E d \in Durations : Start(i, d)
    \/ Complete \/ Pause \/ Resume \/ WriteResumed \/ Tick
    \/ \E p \in Pages : PageNext(p)

Spec == Init /\ [][Next]_vars

-----------------------------------------------------------------------------
(* Properties                                                               *)

\* Two open schedules of the laboratory overlap only after one of three
\* things: a cascade planned on schedules whose order or length is no longer
\* the original one (plan_same_lab_schedule_cascade), a load that wrote back
\* rows another page has changed since (useStorageSnapshot.js), or a resumption
\* that did (mq_event_processor.py).  Page patches, the deletion of missed
\* schedules and every other cascade keep the windows apart.
OverlapHasCause == ~Apart(store.rows) => excused

\* The cascade of a resumption is written over a store that has changed.
StaleResumption == resumed # None /\ resumed' = None /\ resumed # store

\* A schedule whose trays have been compared stays where it is until they are
\* withdrawn: no page with an old snapshot, no clean-up and no cascade moves
\* or removes it (storage_schedule_lock_policy.py).  Only the unlocked cascade
\* of a resumption may.
KeepsCompared ==
    \A i \in Ids :
        store.lab[i] # "idle" /\ store.rows[i] # None /\ ~StaleResumption =>
            /\ store'.rows[i] # None
            /\ store'.rows[i].start = store.rows[i].start
            /\ store'.rows[i].end = store.rows[i].end
ComparedStays == [][KeepsCompared]_vars

\* Starts of the schedules after the current run that leave each no earlier
\* than its present and its original start, after the one before it, with the
\* original gap between them.
Allowed(starts, rows, run) ==
    \A i \in Later(rows, run.id) :
        LET o == Original(rows[i])
            b == Before(rows, run.id, i)
            gap == o.start - Original(rows[b]).end
            end == IF b = run.id THEN run.end
                   ELSE starts[b] + (Original(rows[b]).end - Original(rows[b]).start)
        IN  /\ starts[i] >= rows[i].start /\ starts[i] >= o.start
            /\ starts[i] >= end + gap /\ starts[i] >= end

\* The cascade against its definition (plan_same_lab_schedule_cascade): the
\* windows it would give for the forecast of the current run are the earliest
\* allowed ones, and a schedule it moves gets its original length.
CascadeIsLeast ==
    store.run # None /\ store.rows[store.run.id] # None =>
        LET rows   == store.rows
            later  == Later(rows, store.run.id)
            delays == Delays(rows, store.run.id, Windows(rows, store.run.id, store.run.end))
            starts == [i \in later |-> Upsert(rows, delays)[i].start]
        IN  /\ Allowed(starts, rows, store.run)
            /\ \A i \in DOMAIN delays :
                  delays[i].end - delays[i].start = Original(rows[i]).end - Original(rows[i]).start
            /\ \A other \in [later -> 0..Horizon] :
                  Allowed(other, rows, store.run) => \A i \in later : starts[i] <= other[i]
=============================================================================
