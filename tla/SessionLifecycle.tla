-------------------------- MODULE SessionLifecycle --------------------------
(***************************************************************************)
(* How a mow or another run becomes a live session and then an archive     *)
(* entry: coordinator/_mqtt_handlers.py opens and closes the live map from *)
(* MQTT pushes, coordinator/_session.py and _lidar_oss.py run the finalize *)
(* coroutines, archive/session.py keeps the files.                         *)
(*                                                                         *)
(* Threads and coroutines.  A push is received on paho's thread, which     *)
(* computes the new MowerState, and applied later on the event loop: the   *)
(* inbox.  Each finalize coroutine is a task that runs from await to await;*)
(* between two of its steps every other action may happen.  The wait for   *)
(* the dock ends with charging or after ten minutes: at any time.          *)
(*                                                                         *)
(* Abstractions.  A run of the device is a number; what a session holds is *)
(* the set of runs it followed; its start_ts is a count.  task_state_code  *)
(* is 0 running, 4 paused, 2 complete, None idle.  Of the two timestamps   *)
(* of a pending summary the gate reads two facts, aged and recent.  A      *)
(* patrol is a "mow" (it too has a cloud summary), a cruise or a manual    *)
(* drive is a "run".                                                       *)
(***************************************************************************)
EXTENDS Integers, Sequences, FiniteSets

CONSTANTS
    None,         \* Python's None
    Kinds,        \* kinds of runs the device makes
    Tasks,        \* slots for finalize coroutines (bound on how many overlap)
    MaxRuns,      \* bound on the runs of the device
    MaxInFlight,  \* bound on the pushes received and not yet applied
    MaxAttempts,  \* finalize.MAX_ATTEMPTS
    MaxRestarts,  \* bound on the restarts of Home Assistant
    MaxPresses,   \* bound on presses of "Finalize stuck session"
    Lossy,        \* an MQTT push may be lost
    FetchFails,   \* a fetch of the cloud summary may fail
    DiskFails     \* a write or delete may fail with an OSError

ASSUME SessionAssumption ==
    /\ None \notin Nat
    /\ Kinds \subseteq {"mow", "run"}
    /\ MaxRuns \in Nat /\ MaxInFlight \in Nat \ {0} /\ MaxAttempts \in Nat
    /\ MaxRestarts \in Nat /\ MaxPresses \in Nat
    /\ Lossy \in BOOLEAN /\ FetchFails \in BOOLEAN /\ DiskFails \in BOOLEAN

VARIABLES
    device,    \* the mower: its run, the kind, task state, whether it mowed
    heard,     \* its last task state reached Home Assistant
    data,      \* MowerState: the fields the session code reads
    inbox,     \* pushes received by paho's thread, with the state computed
    gate,      \* _prev_task_state, _real_task_state_observed, _prev_s2p56_empty
    live,      \* LiveMapState, and _live_map_dirty
    latch,     \* _non_mow_finalize_in_progress
    task,      \* the finalize coroutines
    writing,   \* payload of the in-progress write in the executor
    disk,      \* in_progress.json
    archive,   \* the SessionArchive index
    begun,     \* sessions begun so far, the source of start_ts
    restarts, presses   \* (bounds)

vars == <<device, heard, data, inbox, gate, live, latch, task, writing, disk,
          archive, begun, restarts, presses>>

Runs      == 1..MaxRuns
ACTIVE    == {0, 4}
ENDED     == {2, None}
TaskState == ACTIVE \cup ENDED

State    == [ts : TaskState,     \* task_state_code
             pos : BOOLEAN,      \* position_x_m and position_y_m are known
             area : BOOLEAN,     \* area_mowed_m2 > 0
             pending : Runs \cup {None}, attempts : Nat,
             aged : BOOLEAN, recent : BOOLEAN]
Push     == [kind : {"task", "move", "arrived"}, new : State]
Payload  == [start : Nat, runs : SUBSET Runs]
Saved    == [start : Nat, runs : SUBSET Runs, points : BOOLEAN,
             started : BOOLEAN]
Entry    == [summary : Runs \cup {None}, start : Nat, runs : SUBSET Runs]

NoPayload == [start |-> 0, runs |-> {}]
Free      == [pc |-> "free", path |-> "local", latched |-> FALSE,
              name |-> None, load |-> NoPayload]
NoLive    == [start |-> 0, runs |-> {}, points |-> FALSE, started |-> FALSE,
              area |-> FALSE, dirty |-> FALSE]
NoState   == [ts |-> None, pos |-> FALSE, area |-> FALSE, pending |-> None,
              attempts |-> 0, aged |-> FALSE, recent |-> FALSE]

TypeOK ==
    /\ device \in [run : 0..MaxRuns, kind : {"mow", "run"}, ts : TaskState,
                   mowed : BOOLEAN]
    /\ heard \in BOOLEAN
    /\ data \in State
    /\ inbox \in Seq(Push) /\ Len(inbox) <= MaxInFlight
    /\ gate \in [prev : TaskState, observed : BOOLEAN,
                 empty : BOOLEAN \cup {None}]
    /\ live \in [start : Nat, runs : SUBSET Runs, points : BOOLEAN,
                 started : BOOLEAN, area : BOOLEAN, dirty : BOOLEAN]
    /\ latch \in BOOLEAN
    /\ task \in [Tasks -> [pc : {"free", "wait", "fetch", "read", "archive",
                                 "delete", "finish"},
                           path : {"oss", "local"}, latched : BOOLEAN,
                           name : Runs \cup {None}, load : Payload]]
    /\ writing \in Saved \cup {None}
    /\ disk \in Saved \cup {None}
    /\ archive \subseteq Entry
    /\ begun \in Nat /\ restarts \in Nat /\ presses \in Nat

Init ==
    /\ device = [run |-> 0, kind |-> "run", ts |-> None, mowed |-> FALSE]
    /\ heard = TRUE
    /\ data = NoState
    /\ inbox = <<>>
    /\ gate = [prev |-> None, observed |-> FALSE, empty |-> None]
    /\ live = NoLive
    /\ latch = FALSE
    /\ task = [t \in Tasks |-> Free]
    /\ writing = None /\ disk = None /\ archive = {}
    /\ begun = 0 /\ restarts = 0 /\ presses = 0

IsActive(lm) == lm.start # 0

(* _provisional_session_is_cloud_finalized: evidence of a mow or a patrol. *)
(* start codes are persisted with the samples, the other two are not.      *)
CloudFinalized(lm) == lm.started \/ lm.area

(* LiveMapState.end_session: the samples go, area_ever_positive stays.     *)
EndSession(lm) == [NoLive EXCEPT !.area = lm.area, !.dirty = lm.dirty]

-----------------------------------------------------------------------------
(* The finalize coroutines.                                                *)

(* _run_finalize_incomplete up to its first await, in task t: it captures  *)
(* the live map, or else reads the file left on disk.                      *)
RunIncomplete(t, lm, latched) ==
    task' = [task EXCEPT ![t] =
                IF IsActive(lm)
                THEN [Free EXCEPT !.pc = "archive", !.latched = latched,
                                  !.load = [start |-> lm.start, runs |-> lm.runs]]
                ELSE [Free EXCEPT !.pc = "read"]]

(* Faulty: the latch is taken without looking whether it is held.          *)
FinalizeUnlatched(lm) ==
    IF ~IsActive(lm) \/ CloudFinalized(lm)
    THEN UNCHANGED <<task, latch>>
    ELSE \E t \in Tasks : /\ task[t].pc = "free"
                          /\ RunIncomplete(t, lm, TRUE)
                          /\ latch' = TRUE

(* _finalize_non_mow_immediate: its guards and the latch are one step.     *)
FinalizeNonMow(lm) ==
    IF latch \/ ~IsActive(lm) \/ CloudFinalized(lm)
    THEN UNCHANGED <<task, latch>>
    ELSE \E t \in Tasks : /\ task[t].pc = "free"
                          /\ RunIncomplete(t, lm, TRUE)
                          /\ latch' = TRUE

-----------------------------------------------------------------------------
(* The device, and what paho's thread makes of its pushes.                 *)

(* handle_property_push: a push that changes no field is dropped; else the *)
(* whole new state is computed from the data of this moment.               *)
Receive(kind, new) ==
    /\ Len(inbox) < MaxInFlight
    /\ inbox' = IF kind = "task" /\ new = data THEN inbox
                ELSE Append(inbox, [kind |-> kind, new |-> new])

Quiet == UNCHANGED <<data, gate, live, latch, task, writing, begun, disk,
                     archive, restarts, presses>>

(* s2p56: the device changes its task state; the push arrives or is lost.  *)
DeviceMoves(d) ==
    /\ device' = d
    /\ \/ heard' = TRUE /\ Receive("task", [data EXCEPT !.ts = d.ts])
       \/ Lossy /\ heard' = FALSE /\ UNCHANGED inbox
    /\ Quiet

StartRun ==
    /\ device.ts \in ENDED /\ device.run < MaxRuns
    /\ \E kind \in Kinds :
           DeviceMoves([run |-> device.run + 1, kind |-> kind, ts |-> 0,
                        mowed |-> FALSE])

PauseOrResume ==
    /\ device.ts \in ACTIVE
    /\ DeviceMoves([device EXCEPT !.ts = 4 - @])

EndRun ==
    /\ device.ts \in ACTIVE
    /\ \E ts \in ENDED : DeviceMoves([device EXCEPT !.ts = ts])

GoIdle ==
    /\ device.ts = 2
    /\ DeviceMoves([device EXCEPT !.ts = None])

(* s1p4: a full frame has the area mowed so far, a short one the position. *)
PushMove ==
    /\ device.run > 0 /\ device.ts = 0
    /\ \E mowed \in {device.mowed, device.kind = "mow"} :
           /\ device' = [device EXCEPT !.mowed = mowed]
           /\ \E area \in {mowed, data.area} :
                  Receive("move", [data EXCEPT !.pos = TRUE, !.area = area])
    /\ UNCHANGED heard /\ Quiet

(* s2p2 = 75: a cruise reached its point.                                  *)
PushArrived ==
    /\ device.kind = "run" /\ device.ts = 0
    /\ Receive("arrived", data)
    /\ UNCHANGED <<device, heard>> /\ Quiet

(* s2p2 = 50 or 53, captured as a sample of an active session.             *)
PushMowStart ==
    /\ device.kind = "mow" /\ device.ts = 0
    /\ IsActive(live) /\ ~live.started
    /\ live' = [live EXCEPT !.started = TRUE, !.dirty = TRUE]
    /\ UNCHANGED <<device, heard, data, inbox, gate, latch, task, writing, begun,
                   disk, archive, restarts, presses>>

(* event_occured with the name of the summary, once a mow is over.         *)
SummaryReady ==
    /\ device.kind = "mow" /\ device.mowed /\ device.ts \in ENDED
    /\ device' = [device EXCEPT !.mowed = FALSE]
    /\ \/ data' = [data EXCEPT !.pending = device.run, !.attempts = 0,
                               !.aged = FALSE, !.recent = FALSE]
       \/ Lossy /\ UNCHANGED data
    /\ UNCHANGED <<heard, inbox, gate, live, latch, task, writing, begun, disk,
                   archive, restarts, presses>>

-----------------------------------------------------------------------------
(* _apply on the event loop.                                               *)

(* _on_state_update opens the session, appends the last position known and *)
(* takes the last area known as evidence of a mow.                         *)
Tracked(p) ==
    LET begins == /\ p.new.ts \in ACTIVE
                  /\ gate.prev \notin ACTIVE
                  /\ ~IsActive(live)
        lm == IF begins THEN [NoLive EXCEPT !.start = begun + 1,
                                            !.runs = {device.run},
                                            !.dirty = live.dirty]
                        ELSE live
    IN  IF IsActive(lm) /\ p.new.pos
        THEN [lm EXCEPT !.runs = @ \cup {device.run}, !.points = TRUE,
                        !.dirty = TRUE, !.area = @ \/ p.new.area]
        ELSE lm

(* Faulty: a pause taken for the end.                                      *)
NonMowEndsOnPause(p, lm) ==
    /\ gate.prev \in ACTIVE
    /\ p.new.ts # gate.prev
    /\ IsActive(lm)
    /\ ~CloudFinalized(lm)

(* A run ended that has no cloud summary: 0/4 -> 2/None.                   *)
NonMowEnds(p, lm) ==
    /\ gate.prev \in ACTIVE
    /\ p.new.ts \in ENDED
    /\ IsActive(lm)
    /\ ~CloudFinalized(lm)

(* (c) A new command while a session without summary is still open.        *)
NewCommand(p) ==
    /\ p.kind = "task"
    /\ gate.empty = TRUE
    /\ p.new.ts # None
    /\ IsActive(live) /\ live.points /\ ~CloudFinalized(live)

(* The session is split first; the new state of this push is dropped.      *)
ApplyNewCommand ==
    /\ inbox # <<>> /\ NewCommand(Head(inbox))
    /\ inbox' = Tail(inbox)
    /\ gate' = [gate EXCEPT !.empty = FALSE]
    /\ \E t \in Tasks : task[t].pc = "free" /\ RunIncomplete(t, live, FALSE)
    /\ UNCHANGED <<device, heard, data, live, latch, writing, begun, disk,
                   archive, restarts, presses>>

ApplyPush ==
    /\ inbox # <<>> /\ ~NewCommand(Head(inbox))
    /\ inbox' = Tail(inbox)
    /\ LET p  == Head(inbox)
           lm == Tracked(p)
       IN  /\ live' = lm
           /\ begun' = IF IsActive(lm) /\ ~IsActive(live) THEN begun + 1 ELSE begun
           /\ data' = p.new
           /\ gate' = [prev     |-> p.new.ts,
                       observed |-> gate.observed \/ p.new.ts # None,
                       empty    |-> IF p.kind = "task" THEN p.new.ts = None
                                    ELSE gate.empty]
           /\ IF p.kind = "arrived" THEN FinalizeNonMow(live)
              ELSE IF NonMowEnds(p, lm) THEN FinalizeNonMow(lm)
              ELSE UNCHANGED <<task, latch>>
    /\ UNCHANGED <<device, heard, writing, disk, archive, restarts, presses>>

-----------------------------------------------------------------------------
(* finalize.decide and the 60 s tick that dispatches its answer.           *)

Decide ==
    CASE gate.prev \in ACTIVE /\ data.ts \in ENDED ->
             IF data.pending # None THEN "complete" ELSE "incomplete"
      [] ~(gate.prev \in ACTIVE /\ data.ts \in ENDED) /\ data.pending # None ->
             IF data.aged \/ data.attempts > MaxAttempts THEN "incomplete"
             ELSE IF data.recent THEN "noop" ELSE "await"
      [] OTHER -> "noop"

BootStale == data.ts = None /\ ~gate.observed /\ data.pending = None

(* _wait_for_dock_return: the path that is taken up when the wait is over. *)
WaitForDock(path) == [Free EXCEPT !.pc = "wait", !.path = path]

(* _dispatch_finalize_action: only what the cloud will summarise waits for *)
(* the dock; a run or a drive is finalized locally, whatever the action.   *)
Dispatch(t, action) ==
    IF CloudFinalized(live)
    THEN task' = [task EXCEPT ![t] =
                      WaitForDock(IF action = "incomplete" THEN "local" ELSE "oss")]
    ELSE RunIncomplete(t, live, FALSE)

PeriodicRetry ==
    /\ Decide # "noop"
    /\ ~(Decide = "incomplete" /\ BootStale)
    /\ \E t \in Tasks : task[t].pc = "free" /\ Dispatch(t, Decide)
    /\ UNCHANGED <<device, heard, data, inbox, gate, live, latch, writing, begun,
                   disk, archive, restarts, presses>>

(* Time passes: the retry interval, and the maximum age of a pending name. *)
RetryDue ==
    /\ data.recent
    /\ data' = [data EXCEPT !.recent = FALSE]
    /\ UNCHANGED <<device, heard, inbox, gate, live, latch, task, writing, begun,
                   disk, archive, restarts, presses>>

PendingAges ==
    /\ data.pending # None /\ ~data.aged
    /\ data' = [data EXCEPT !.aged = TRUE]
    /\ UNCHANGED <<device, heard, inbox, gate, live, latch, task, writing, begun,
                   disk, archive, restarts, presses>>

(* The wait for the dock is over: _do_oss_fetch returns when the cloud     *)
(* client is not ready, else counts its attempt, which saturates here past *)
(* the bound the gate compares with.                                       *)
WaitEnds(t) ==
    /\ task[t].pc = "wait"
    /\ IF task[t].path = "local"
       THEN RunIncomplete(t, live, FALSE) /\ UNCHANGED data
       ELSE IF data.pending = None
       THEN task' = [task EXCEPT ![t] = Free] /\ UNCHANGED data
       ELSE \/ FetchFails /\ task' = [task EXCEPT ![t] = Free] /\ UNCHANGED data
            \/ /\ task' = [task EXCEPT ![t].pc = "fetch", ![t].name = data.pending]
               /\ data' = [data EXCEPT !.recent = TRUE,
                                       !.attempts = IF @ > MaxAttempts THEN @ ELSE @ + 1]
    /\ UNCHANGED <<device, heard, inbox, gate, live, latch, writing, begun, disk,
                   archive, restarts, presses>>

(* Faulty: a failed fetch falls through to the cleanup.                    *)
FetchFallsThrough(t) ==
    /\ task[t].pc = "fetch"
    /\ \/ task' = [task EXCEPT ![t].pc = "archive",
                               ![t].load = [start |-> live.start, runs |-> live.runs]]
       \/ FetchFails /\ task' = [task EXCEPT ![t].pc = "delete"]
    /\ UNCHANGED <<device, heard, data, inbox, gate, live, latch, writing, begun,
                   disk, archive, restarts, presses>>

(* The summary was downloaded, and the live map is injected into it.       *)
FetchDone(t) ==
    /\ task[t].pc = "fetch"
    /\ \/ task' = [task EXCEPT ![t].pc = "archive",
                               ![t].load = [start |-> live.start, runs |-> live.runs]]
       \/ FetchFails /\ task' = [task EXCEPT ![t] = Free]
    /\ UNCHANGED <<device, heard, data, inbox, gate, live, latch, writing, begun,
                   disk, archive, restarts, presses>>

(* SessionArchive.archive: idempotent by (md5, start_ts); a summary prunes *)
(* the incomplete entries of its session, as far as their starts match.    *)
Archived(t) ==
    LET name == task[t].name
        load == task[t].load
        known == \E e \in archive : e.summary = name
                                    /\ (name = None => e.start = load.start)
        entry == [summary |-> name,
                  start |-> IF name = None THEN load.start ELSE 0,
                  runs |-> load.runs \cup IF name = None THEN {} ELSE {name}]
        prunable == {e \in archive : /\ name # None
                                     /\ e.summary = None /\ name \in e.runs}
    IN  IF known THEN archive' = archive
        ELSE \E pruned \in SUBSET prunable :
                 archive' = (archive \ pruned) \cup {entry}

(* The in-progress file was read: nothing left to finalize, or its start   *)
(* and what the live map holds by now.                                     *)
ReadDone(t) ==
    /\ task[t].pc = "read"
    /\ task' = [task EXCEPT ![t] =
                   IF disk = None THEN Free
                   ELSE [task[t] EXCEPT !.pc = "archive",
                          !.load = [start |-> disk.start,
                                    runs |-> disk.runs \cup live.runs]]]
    /\ UNCHANGED <<device, heard, data, inbox, gate, live, latch, writing, begun,
                   disk, archive, restarts, presses>>

(* archive() logs an OSError and returns None, as it does for a duplicate. *)
ArchiveDone(t) ==
    /\ task[t].pc = "archive"
    /\ Archived(t) \/ (DiskFails /\ archive' = archive)
    /\ task' = [task EXCEPT ![t].pc = "delete"]
    /\ UNCHANGED <<device, heard, data, inbox, gate, live, latch, writing, begun,
                   disk, restarts, presses>>

DeleteDone(t) ==
    /\ task[t].pc = "delete"
    /\ disk' = None \/ (DiskFails /\ disk' = disk)
    /\ task' = [task EXCEPT ![t].pc = "finish"]
    /\ UNCHANGED <<device, heard, data, inbox, gate, live, latch, writing, begun,
                   archive, restarts, presses>>

(* Faulty: the latch is never released.                                    *)
FinishKeepsLatch(t) ==
    /\ task[t].pc = "finish"
    /\ live' = EndSession(live)
    /\ data' = [data EXCEPT !.pending = None, !.attempts = 0, !.aged = FALSE,
                            !.recent = FALSE]
    /\ task' = [task EXCEPT ![t] = Free]
    /\ UNCHANGED <<device, heard, inbox, gate, latch, writing, begun, disk, archive,
                   restarts, presses>>

(* mowing_ended, end_session, and the pending fields cleared.              *)
Finish(t) ==
    /\ task[t].pc = "finish"
    /\ live' = EndSession(live)
    /\ data' = [data EXCEPT !.pending = None, !.attempts = 0, !.aged = FALSE,
                            !.recent = FALSE]
    /\ latch' = (latch /\ ~task[t].latched)
    /\ task' = [task EXCEPT ![t] = Free]
    /\ UNCHANGED <<device, heard, inbox, gate, writing, begun, disk, archive,
                   restarts, presses>>

(* The "Finalize stuck session" button.                                    *)
PressFinalize ==
    /\ presses < MaxPresses
    /\ presses' = presses + 1
    /\ \E t \in Tasks : task[t].pc = "free" /\ RunIncomplete(t, live, FALSE)
    /\ UNCHANGED <<device, heard, data, inbox, gate, live, latch, writing, begun,
                   disk, archive, restarts>>

-----------------------------------------------------------------------------
(* _persist_in_progress every 30 s, and a restart.                         *)

PersistStart ==
    /\ IsActive(live) /\ live.dirty /\ writing = None
    /\ writing' = [start |-> live.start, runs |-> live.runs,
                   points |-> live.points, started |-> live.started]
    /\ UNCHANGED <<device, heard, data, inbox, gate, live, latch, task, begun,
                   disk, archive, restarts, presses>>

PersistDone ==
    /\ writing # None
    /\ disk' = writing \/ (DiskFails /\ disk' = disk)
    /\ writing' = None
    /\ live' = [live EXCEPT !.dirty = FALSE]
    /\ UNCHANGED <<device, heard, data, inbox, gate, latch, task, begun, archive,
                   restarts, presses>>

(* Home Assistant restarts; _restore_in_progress hydrates the live map     *)
(* from the file and seeds _prev_task_state before MQTT connects.          *)
Restart ==
    /\ restarts < MaxRestarts
    /\ restarts' = restarts + 1
    /\ heard' = FALSE
    /\ \E onDisk \in {disk} \cup IF writing = None THEN {} ELSE {writing} :
           /\ disk' = onDisk
           /\ live' = IF onDisk = None THEN NoLive
                      ELSE [NoLive EXCEPT !.start = onDisk.start,
                                          !.runs = onDisk.runs,
                                          !.points = onDisk.points,
                                          !.started = onDisk.started]
           /\ gate' = [prev |-> IF onDisk = None THEN None ELSE 0,
                       observed |-> FALSE, empty |-> None]
    /\ data' = NoState
    /\ inbox' = <<>> /\ latch' = FALSE /\ writing' = None
    /\ task' = [t \in Tasks |-> Free]
    /\ UNCHANGED <<device, archive, begun, presses>>

-----------------------------------------------------------------------------
TaskStep == \E t \in Tasks : \/ WaitEnds(t) \/ FetchDone(t) \/ ReadDone(t)
                             \/ ArchiveDone(t) \/ DeleteDone(t) \/ Finish(t)

Next ==
    \/ StartRun \/ PauseOrResume \/ EndRun \/ GoIdle
    \/ PushMove \/ PushArrived \/ PushMowStart \/ SummaryReady
    \/ ApplyPush \/ ApplyNewCommand
    \/ PeriodicRetry \/ RetryDue \/ PendingAges
    \/ TaskStep \/ PressFinalize
    \/ PersistStart \/ PersistDone \/ Restart

Spec == Init /\ [][Next]_vars

(* Timers fire, coroutines are resumed and the loop runs its callbacks.    *)
FairSpec ==
    /\ Spec
    /\ WF_vars(ApplyPush) /\ WF_vars(ApplyNewCommand)
    /\ WF_vars(PeriodicRetry) /\ WF_vars(RetryDue) /\ WF_vars(PendingAges)
    /\ \A t \in Tasks : WF_vars(\/ WaitEnds(t) \/ FetchDone(t) \/ ReadDone(t)
                                \/ ArchiveDone(t) \/ DeleteDone(t) \/ Finish(t))

-----------------------------------------------------------------------------
(* Properties.                                                             *)

(* The latch of _finalize_non_mow_immediate is a mutual exclusion: it is   *)
(* held exactly while the one coroutine that took it runs, whatever other  *)
(* finalizers, restarts and pushes interleave.                             *)
LatchIsHeld ==
    /\ latch <=> \E t \in Tasks : task[t].latched
    /\ \A t, u \in Tasks : task[t].latched /\ task[u].latched => t = u

OnDisk == (UNION {e.runs : e \in archive})
              \cup (IF disk = None THEN {} ELSE disk.runs)

(* What a run left on the disk, as in_progress.json or as an archive entry,*)
(* is never lost again: not by a crash between the archive write and the   *)
(* delete, by overlapping finalizers, a failed fetch or the pruning.       *)
NothingOnDiskIsLost == [][OnDisk \subseteq OnDisk']_vars

EndedByPush == ~latch /\ latch' /\ Head(inbox).kind # "arrived"

RecordedRunIsOver == device.ts \in ENDED \/ device.run \notin live.runs

(* Once a task state was heard since the boot, a push ends a session as a  *)
(* finished non-mow run only when the run it records is over, however late *)
(* pushes are applied and whichever are lost.  An arrival (s2p2 = 75) ends *)
(* the session on purpose.                                                 *)
EdgeMeansEnded == [][ EndedByPush /\ gate.observed => RecordedRunIsOver ]_vars

(* A session whose run is over is finalized in the end, when the end of    *)
(* the run was heard.                                                      *)
SessionIsFinalized ==
    (IsActive(live) /\ device.ts \in ENDED /\ heard)
        ~> (~IsActive(live) \/ device.ts \in ACTIVE \/ ~heard)

=============================================================================
