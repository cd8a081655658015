------------------------ MODULE SessionLifecycle_proofs ------------------------
(***************************************************************************)
(* Theorems about SessionLifecycle for any number of finalize coroutines,  *)
(* runs, restarts and presses, whatever is lost and whatever fails: its    *)
(* state is typed, and the latch is a mutual exclusion.  With one push in  *)
(* flight the edge of a task state ends a session only when its run is     *)
(* over; with one run and a disk that works, what is on the disk stays.    *)
(***************************************************************************)
EXTENDS SessionLifecycle, TLAPS

Coroutines == [pc : {"free", "wait", "fetch", "read", "archive", "delete", "finish"},
               path : {"oss", "local"}, latched : BOOLEAN,
               name : Runs \cup {None}, load : Payload]
Devices == [run : 0..MaxRuns, kind : {"mow", "run"}, ts : TaskState, mowed : BOOLEAN]
Gates == [prev : TaskState, observed : BOOLEAN, empty : BOOLEAN \cup {None}]
Lives == [start : Nat, runs : SUBSET Runs, points : BOOLEAN, started : BOOLEAN,
          area : BOOLEAN, dirty : BOOLEAN]

(* Only who archives, deletes or finishes may hold the latch: whoever may  *)
(* still give up does not.                                                 *)
LatchedLate == \A t \in Tasks : task[t].latched => task[t].pc \in {"archive", "delete", "finish"}

-----------------------------------------------------------------------------
(* The types.                                                              *)
LEMMA Constants ==
    /\ Free \in Coroutines /\ NoLive \in Lives /\ NoState \in State /\ NoPayload \in Payload
    /\ ~Free.latched /\ Free.pc = "free" /\ NoLive.runs = {}
BY DEF Free, Coroutines, NoLive, Lives, NoState, State, NoPayload, Payload, TaskState, ENDED, ACTIVE

LEMMA InitType == Init => TypeOK
<1> SUFFICES ASSUME Init PROVE TypeOK
  OBVIOUS
<1>1. device \in Devices /\ gate \in Gates
  BY SessionAssumption DEF Init, Devices, Gates, TaskState, ENDED, ACTIVE
<1>2. task \in [Tasks -> Coroutines] /\ data \in State /\ live \in Lives
  BY Constants DEF Init
<1>3. inbox \in Seq(Push) /\ Len(inbox) <= MaxInFlight
  BY SessionAssumption DEF Init
<1>4. QED BY <1>1, <1>2, <1>3 DEF Init, TypeOK, Devices, Gates, Coroutines, Lives

LEMMA Typed ==
    ASSUME TypeOK
    PROVE  /\ device \in Devices /\ gate \in Gates /\ live \in Lives
           /\ task \in [Tasks -> Coroutines] /\ data \in State
           /\ inbox \in Seq(Push) /\ Len(inbox) <= MaxInFlight
BY DEF TypeOK, Devices, Gates, Coroutines, Lives

(* What a step of paho's thread may change.                                *)
LEMMA ReceiveType ==
    ASSUME TypeOK, NEW kind \in {"task", "move", "arrived"}, NEW new \in State, Receive(kind, new)
    PROVE  inbox' \in Seq(Push) /\ Len(inbox') <= MaxInFlight
<1>1. [kind |-> kind, new |-> new] \in Push
  BY DEF Push
<1>2. inbox \in Seq(Push) /\ Len(inbox) < MaxInFlight /\ MaxInFlight \in Nat
  BY SessionAssumption DEF TypeOK, Receive
<1>3. CASE inbox' = inbox
  BY <1>2, <1>3
<1>4. CASE inbox' = Append(inbox, [kind |-> kind, new |-> new])
  BY <1>1, <1>2, <1>4
<1>5. QED BY <1>3, <1>4 DEF Receive

LEMMA DeviceType ==
    ASSUME TypeOK, NEW d \in Devices, DeviceMoves(d)
    PROVE  TypeOK'
<1>1. inbox' \in Seq(Push) /\ Len(inbox') <= MaxInFlight
  <2>1. [data EXCEPT !.ts = d.ts] \in State
    BY DEF TypeOK, State, Devices
  <2>2. CASE Receive("task", [data EXCEPT !.ts = d.ts])
    BY <2>1, <2>2, ReceiveType
  <2>3. CASE UNCHANGED inbox
    BY <2>3 DEF TypeOK
  <2>4. QED BY <2>2, <2>3 DEF DeviceMoves
<1>2. device' \in Devices /\ heard' \in BOOLEAN
  BY DEF DeviceMoves
<1>3. QED BY <1>1, <1>2 DEF DeviceMoves, Quiet, TypeOK, Devices

LEMMA RunIncompleteType ==
    ASSUME TypeOK, NEW t \in Tasks, NEW lm \in Lives, NEW latched \in BOOLEAN,
           RunIncomplete(t, lm, latched)
    PROVE  \E r \in Coroutines :
              /\ task' = [task EXCEPT ![t] = r]
              /\ r.latched => latched /\ r.pc = "archive"
              /\ IsActive(lm) => r.latched = latched
<1>1. [start |-> lm.start, runs |-> lm.runs] \in Payload
  BY DEF Lives, Payload
<1> DEFINE a == [Free EXCEPT !.pc = "archive", !.latched = latched,
                             !.load = [start |-> lm.start, runs |-> lm.runs]]
           b == [Free EXCEPT !.pc = "read"]
<1>2. a \in Coroutines /\ a.latched = latched /\ a.pc = "archive"
  BY <1>1, Constants DEF Coroutines, Free
<1>3. b \in Coroutines /\ ~b.latched
  BY Constants DEF Coroutines, Free
<1>4. CASE IsActive(lm)
  <2>1. task' = [task EXCEPT ![t] = a]
    BY <1>4 DEF RunIncomplete
  <2> HIDE DEF a
  <2>2. QED BY <1>2, <2>1
<1>5. CASE ~IsActive(lm)
  <2>1. task' = [task EXCEPT ![t] = b]
    BY <1>5 DEF RunIncomplete
  <2> HIDE DEF b
  <2>2. QED BY <1>3, <1>5, <2>1
<1>6. QED BY <1>4, <1>5

-----------------------------------------------------------------------------
(* The latch.                                                              *)
Tasked == task \in [Tasks -> Coroutines] /\ latch \in BOOLEAN /\ LatchedLate /\ LatchIsHeld

(* One coroutine moves: it keeps what it has of the latch, takes it when   *)
(* it is free, or leaves it.                                               *)
LEMMA TaskMoves ==
    ASSUME Tasked, NEW t \in Tasks, NEW r \in Coroutines, task' = [task EXCEPT ![t] = r],
           r.latched => r.pc \in {"archive", "delete", "finish"},
           \/ r.latched = task[t].latched /\ latch' = latch
           \/ r.latched /\ latch' = TRUE /\ ~latch
           \/ ~r.latched /\ latch' = (latch /\ ~task[t].latched)
    PROVE  Tasked'
<1>1. /\ task' \in [Tasks -> Coroutines] /\ task'[t] = r
      /\ \A u \in Tasks : u # t => task'[u] = task[u]
  BY DEF Tasked
<1>2. /\ r.latched \in BOOLEAN /\ latch \in BOOLEAN /\ \A u \in Tasks : task[u].latched \in BOOLEAN
  BY DEF Tasked, Coroutines
<1>3. LatchedLate'
  BY <1>1 DEF Tasked, LatchedLate
<1>4. LatchIsHeld'
  BY <1>1, <1>2 DEF Tasked, LatchIsHeld
<1>5. QED BY <1>1, <1>2, <1>3, <1>4 DEF Tasked

LEMMA FreeHasNoLatch ==
    ASSUME Tasked, NEW t \in Tasks, task[t].pc \in {"free", "wait", "fetch", "read"}
    PROVE  task[t].latched = FALSE
BY DEF Tasked, LatchedLate, Coroutines

(* A coroutine begins, and takes the latch if it is to.                    *)
LEMMA FinalizeKeeps ==
    ASSUME TypeOK, Tasked, NEW lm \in Lives, FinalizeNonMow(lm)
    PROVE  Tasked'
<1>1. CASE UNCHANGED <<task, latch>>
  BY <1>1 DEF Tasked, LatchedLate, LatchIsHeld
<1>2. CASE ~latch /\ IsActive(lm)
           /\ \E t \in Tasks : task[t].pc = "free" /\ RunIncomplete(t, lm, TRUE) /\ latch' = TRUE
  <2>1. PICK t \in Tasks : task[t].pc = "free" /\ RunIncomplete(t, lm, TRUE) /\ latch' = TRUE
    BY <1>2
  <2>2. PICK r \in Coroutines : /\ task' = [task EXCEPT ![t] = r] /\ r.latched /\ r.pc = "archive"
    BY <1>2, <2>1, RunIncompleteType
  <2>3. QED BY <1>2, <2>1, <2>2, TaskMoves
<1>3. QED BY <1>1, <1>2 DEF FinalizeNonMow

LEMMA UnlatchedKeeps ==
    ASSUME TypeOK, Tasked, NEW t \in Tasks, task[t].pc \in {"free", "wait"},
           RunIncomplete(t, live, FALSE), UNCHANGED latch
    PROVE  Tasked'
<1>1. PICK r \in Coroutines : task' = [task EXCEPT ![t] = r] /\ ~r.latched
  BY Typed, RunIncompleteType
<1>2. task[t].latched = FALSE /\ r.latched = FALSE
  BY <1>1, FreeHasNoLatch DEF Coroutines
<1>3. QED BY <1>1, <1>2, TaskMoves

-----------------------------------------------------------------------------
(* Before its first run the mower has nothing to say.                      *)
NothingBefore == device.run = 0 => device.ts = None /\ ~device.mowed /\ inbox = <<>>

LInv == TypeOK /\ Tasked /\ NothingBefore

LEMMA LiveEnds == ASSUME NEW lm \in Lives PROVE EndSession(lm) \in Lives
BY Constants DEF EndSession, Lives, NoLive

LEMMA StateEnds ==
    ASSUME NEW s \in State
    PROVE  [s EXCEPT !.pending = None, !.attempts = 0, !.aged = FALSE, !.recent = FALSE] \in State
BY DEF State

(* The device and paho's thread.                                           *)
LEMMA DeviceStep ==
    ASSUME LInv, StartRun \/ PauseOrResume \/ EndRun \/ GoIdle \/ PushMove \/ PushArrived
    PROVE  LInv'
<1>1. device \in Devices /\ data \in State /\ None \notin Nat /\ MaxRuns \in Nat
  BY Typed, SessionAssumption DEF LInv
<1>2. UNCHANGED <<task, latch>>
  BY DEF StartRun, PauseOrResume, EndRun, GoIdle, PushMove, PushArrived, DeviceMoves, Quiet
<1>3. Tasked'
  BY <1>2 DEF LInv, Tasked, LatchedLate, LatchIsHeld
<1>4. device.run # 0 \/ StartRun
  <2>1. device.run = 0 => device.ts \notin {0, 2, 4}
    BY <1>1 DEF LInv, NothingBefore
  <2>2. QED BY <2>1 DEF PauseOrResume, EndRun, GoIdle, PushMove, PushArrived, ACTIVE
<1>5. CASE StartRun
  <2>1. PICK kind \in Kinds : DeviceMoves([run |-> device.run + 1, kind |-> kind, ts |-> 0, mowed |-> FALSE])
    BY <1>5 DEF StartRun
  <2>2. device.run + 1 \in 1..MaxRuns
    BY <1>1, <1>5 DEF StartRun, Devices
  <2>3. [run |-> device.run + 1, kind |-> kind, ts |-> 0, mowed |-> FALSE] \in Devices
    BY <2>2, SessionAssumption DEF Devices, TaskState, ACTIVE
  <2>4. device'.run # 0
    BY <2>1, <2>2 DEF DeviceMoves
  <2>5. QED BY <1>3, <2>1, <2>3, <2>4, DeviceType DEF LInv, NothingBefore
<1>6. CASE PauseOrResume
  <2>1. 4 - device.ts \in TaskState
    BY <1>6 DEF PauseOrResume, ACTIVE, TaskState
  <2>2. [device EXCEPT !.ts = 4 - @] \in Devices /\ [device EXCEPT !.ts = 4 - @].run = device.run
    BY <1>1, <2>1 DEF Devices
  <2>3. device.run # 0
    BY <1>1, <1>6 DEF PauseOrResume, ACTIVE, LInv, NothingBefore
  <2>4. device'.run # 0
    BY <1>6, <2>2, <2>3 DEF PauseOrResume, DeviceMoves
  <2>5. QED BY <1>3, <1>6, <2>2, <2>4, DeviceType DEF LInv, PauseOrResume, NothingBefore
<1>7. CASE EndRun \/ GoIdle
  <2>1. PICK ts \in ENDED : DeviceMoves([device EXCEPT !.ts = ts])
    BY <1>7 DEF EndRun, GoIdle, ENDED
  <2>2. [device EXCEPT !.ts = ts] \in Devices /\ [device EXCEPT !.ts = ts].run = device.run
    BY <1>1, <2>1 DEF Devices, TaskState
  <2>3. CASE device.run # 0
    BY <1>3, <2>1, <2>2, <2>3, DeviceType DEF LInv, NothingBefore, DeviceMoves
  <2>4. QED BY <1>4, <1>5, <2>3
<1>8. CASE PushMove
  <2>1. PICK mowed \in {device.mowed, device.kind = "mow"} :
           /\ device' = [device EXCEPT !.mowed = mowed]
           /\ \E area \in {mowed, data.area} :
                  Receive("move", [data EXCEPT !.pos = TRUE, !.area = area])
    BY <1>8 DEF PushMove
  <2>2. mowed \in BOOLEAN
    BY <1>1 DEF Devices
  <2>3. PICK area \in BOOLEAN : Receive("move", [data EXCEPT !.pos = TRUE, !.area = area])
    BY <1>1, <2>1, <2>2 DEF State
  <2>4. [data EXCEPT !.pos = TRUE, !.area = area] \in State
    BY <1>1 DEF State
  <2>5. inbox' \in Seq(Push) /\ Len(inbox') <= MaxInFlight
    BY <2>3, <2>4, ReceiveType DEF LInv
  <2>6. device' \in Devices /\ device'.run = device.run
    BY <1>1, <2>1, <2>2 DEF Devices
  <2>7. UNCHANGED <<heard, data, gate, live, latch, task, writing, begun, disk, archive, restarts, presses>>
        /\ device.run > 0
    BY <1>8 DEF PushMove, Quiet
  <2>8. NothingBefore'
    BY <2>6, <2>7 DEF NothingBefore
  <2>9. QED BY <1>3, <2>5, <2>6, <2>7, <2>8 DEF LInv, TypeOK, Devices
<1>9. CASE PushArrived
  <2>1. inbox' \in Seq(Push) /\ Len(inbox') <= MaxInFlight
    BY <1>1, <1>9, ReceiveType DEF LInv, PushArrived
  <2>2. UNCHANGED <<device, heard, data, gate, live, latch, task, writing, begun, disk, archive,
                    restarts, presses>>
    BY <1>9 DEF PushArrived, Quiet
  <2>3. CASE device.run # 0
    BY <1>3, <2>1, <2>2, <2>3 DEF LInv, TypeOK, NothingBefore
  <2>4. QED BY <1>4, <1>5, <2>3
<1>10. QED BY <1>5, <1>6, <1>7, <1>8, <1>9

(* _apply on the event loop.                                               *)
LEMMA InboxHead ==
    ASSUME LInv, inbox # <<>>
    PROVE  /\ Head(inbox) \in Push /\ Tail(inbox) \in Seq(Push) /\ Len(Tail(inbox)) <= MaxInFlight
           /\ device.run \in Runs
<1>1. inbox \in Seq(Push) /\ Len(inbox) <= MaxInFlight /\ MaxInFlight \in Nat /\ MaxRuns \in Nat
      /\ device \in Devices
  BY Typed, SessionAssumption DEF LInv
<1>2. device.run \in Runs
  <2>1. device.run \in 0..MaxRuns /\ device.run # 0
    BY <1>1 DEF LInv, NothingBefore, Devices
  <2>2. QED BY <1>1, <2>1 DEF Runs
<1>3. Head(inbox) \in Push /\ Tail(inbox) \in Seq(Push) /\ Len(Tail(inbox)) = Len(inbox) - 1
  BY <1>1
<1>4. Len(inbox) \in Nat
  BY <1>1
<1>5. QED BY <1>1, <1>2, <1>3, <1>4

LEMMA TrackedType ==
    ASSUME LInv, NEW p \in Push, device.run \in Runs
    PROVE  Tracked(p) \in Lives
<1>1. live \in Lives /\ gate \in Gates /\ begun \in Nat /\ p.new \in State
  BY Typed DEF LInv, TypeOK, Push
<1> DEFINE fresh == [NoLive EXCEPT !.start = begun + 1, !.runs = {device.run}, !.dirty = live.dirty]
<1>2. fresh \in Lives
  <2>1. begun + 1 \in Nat /\ {device.run} \subseteq Runs /\ live.dirty \in BOOLEAN
    BY <1>1 DEF Lives
  <2>2. QED BY <2>1 DEF Lives, NoLive
<1>3. \A lm \in Lives :
         [lm EXCEPT !.runs = @ \cup {device.run}, !.points = TRUE,
                    !.dirty = TRUE, !.area = @ \/ p.new.area] \in Lives
  BY <1>1 DEF Lives, State
<1> HIDE DEF fresh
<1>4. CASE p.new.ts \in ACTIVE /\ gate.prev \notin ACTIVE /\ ~IsActive(live)
  BY <1>1, <1>2, <1>3, <1>4 DEF Tracked, fresh
<1>5. CASE ~(p.new.ts \in ACTIVE /\ gate.prev \notin ACTIVE /\ ~IsActive(live))
  BY <1>1, <1>3, <1>5 DEF Tracked
<1>6. QED BY <1>4, <1>5

LEMMA ApplyStep ==
    ASSUME LInv, ApplyPush \/ ApplyNewCommand
    PROVE  LInv'
<1>1. live \in Lives /\ gate \in Gates /\ begun \in Nat /\ None \notin Nat
  BY Typed, SessionAssumption DEF LInv, TypeOK
<1>2. CASE ApplyPush
  <2>1. PICK p \in Push : p = Head(inbox)
    BY <1>2, InboxHead DEF ApplyPush
  <2>2. device.run \in Runs /\ inbox' \in Seq(Push) /\ Len(inbox') <= MaxInFlight
    BY <1>2, InboxHead DEF ApplyPush
  <2>3. PICK lm \in Lives : lm = Tracked(p)
    BY <2>2, TrackedType
  <2>4. /\ live' = lm /\ data' = p.new
        /\ begun' = IF IsActive(lm) /\ ~IsActive(live) THEN begun + 1 ELSE begun
        /\ gate' = [prev     |-> p.new.ts,
                    observed |-> gate.observed \/ p.new.ts # None,
                    empty    |-> IF p.kind = "task" THEN p.new.ts = None ELSE gate.empty]
        /\ FinalizeNonMow(live) \/ FinalizeNonMow(lm) \/ UNCHANGED <<task, latch>>
        /\ UNCHANGED <<device, heard, writing, disk, archive, restarts, presses>>
    BY <1>2, <2>1, <2>3 DEF ApplyPush
  <2>5. data' \in State /\ begun' \in Nat /\ gate' \in Gates
    BY <1>1, <2>4 DEF Push, State, Gates
  <2>6. Tasked'
    <3>1. CASE UNCHANGED <<task, latch>>
      BY <3>1 DEF LInv, Tasked, LatchedLate, LatchIsHeld
    <3>2. CASE FinalizeNonMow(live) \/ FinalizeNonMow(lm)
      BY <1>1, <3>2, FinalizeKeeps DEF LInv
    <3>3. QED BY <2>4, <3>1, <3>2
  <2>7. TypeOK'
    BY <2>2, <2>4, <2>5, <2>6 DEF LInv, TypeOK, Tasked, Coroutines, Gates, Lives
  <2>8. NothingBefore'
    BY <2>2, <2>4, SessionAssumption DEF NothingBefore, Runs
  <2>9. QED BY <2>6, <2>7, <2>8 DEF LInv
<1>3. CASE ApplyNewCommand
  <2>1. device.run \in Runs /\ inbox' \in Seq(Push) /\ Len(inbox') <= MaxInFlight
    BY <1>3, InboxHead DEF ApplyNewCommand
  <2>2. PICK t \in Tasks : task[t].pc = "free" /\ RunIncomplete(t, live, FALSE)
    BY <1>3 DEF ApplyNewCommand
  <2>3. UNCHANGED <<device, heard, data, live, latch, writing, begun, disk, archive, restarts, presses>>
        /\ gate' = [gate EXCEPT !.empty = FALSE]
    BY <1>3 DEF ApplyNewCommand
  <2>4. Tasked'
    BY <2>2, <2>3, UnlatchedKeeps DEF LInv
  <2>5. gate' \in Gates
    BY <1>1, <2>3 DEF Gates
  <2>6. TypeOK'
    BY <2>1, <2>3, <2>4, <2>5 DEF LInv, TypeOK, Tasked, Coroutines, Gates
  <2>7. NothingBefore'
    BY <2>1, <2>3, SessionAssumption DEF NothingBefore, Runs
  <2>8. QED BY <2>4, <2>6, <2>7 DEF LInv
<1>4. QED BY <1>2, <1>3

(* Samples, summaries and the passing of time.                             *)
LEMMA DataStep ==
    ASSUME LInv, PushMowStart \/ SummaryReady \/ RetryDue \/ PendingAges
    PROVE  LInv'
<1>1. device \in Devices /\ data \in State /\ live \in Lives /\ None \notin Nat /\ MaxRuns \in Nat
  BY Typed, SessionAssumption DEF LInv
<1>2. UNCHANGED <<heard, inbox, gate, latch, task, writing, begun, disk, archive, restarts, presses>>
  BY DEF PushMowStart, SummaryReady, RetryDue, PendingAges
<1>3. Tasked'
  BY <1>2 DEF LInv, Tasked, LatchedLate, LatchIsHeld
<1>4. device' \in Devices /\ device'.run = device.run /\ device'.ts = device.ts
      /\ (device'.mowed => device.mowed)
  BY <1>1 DEF PushMowStart, SummaryReady, RetryDue, PendingAges, Devices
<1>5. data' \in State
  <2>1. CASE SummaryReady
    <3>1. device.run \in 0..MaxRuns /\ device.run # 0
      BY <1>1, <2>1 DEF SummaryReady, LInv, NothingBefore, Devices
    <3>2. device.run \in Runs
      BY <1>1, <3>1 DEF Runs
    <3>3. [data EXCEPT !.pending = device.run, !.attempts = 0, !.aged = FALSE, !.recent = FALSE] \in State
      BY <1>1, <3>2 DEF State
    <3>4. QED BY <1>1, <2>1, <3>3 DEF SummaryReady
  <2>2. CASE PushMowStart
    BY <1>1, <2>2 DEF PushMowStart
  <2>3. CASE RetryDue \/ PendingAges
    BY <1>1, <2>3 DEF RetryDue, PendingAges, State
  <2>4. QED BY <2>1, <2>2, <2>3
<1>6. live' \in Lives
  BY <1>1 DEF PushMowStart, SummaryReady, RetryDue, PendingAges, Lives
<1>7. NothingBefore'
  BY <1>2, <1>4 DEF LInv, NothingBefore
<1>8. QED BY <1>2, <1>3, <1>4, <1>5, <1>6, <1>7 DEF LInv, TypeOK, Devices, Lives

(* The 60 s tick and the button.                                           *)
LEMMA DispatchStep ==
    ASSUME LInv, PeriodicRetry \/ PressFinalize
    PROVE  LInv'
<1>1. UNCHANGED <<device, heard, data, inbox, gate, live, latch, writing, begun, disk, archive, restarts>>
      /\ presses' \in Nat
  <2>1. presses \in Nat
    BY DEF LInv, TypeOK
  <2>2. CASE PeriodicRetry
    BY <2>1, <2>2 DEF PeriodicRetry
  <2>3. CASE PressFinalize
    BY <2>1, <2>3 DEF PressFinalize
  <2>4. QED BY <2>2, <2>3
<1>2. PICK t \in Tasks : task[t].pc = "free"
            /\ \/ RunIncomplete(t, live, FALSE)
               \/ \E path \in {"oss", "local"} : task' = [task EXCEPT ![t] = WaitForDock(path)]
  <2>1. CASE PeriodicRetry
    <3>1. PICK t \in Tasks, action \in {Decide} : task[t].pc = "free" /\ Dispatch(t, action)
      BY <2>1 DEF PeriodicRetry
    <3>2. (IF action = "incomplete" THEN "local" ELSE "oss") \in {"oss", "local"}
      OBVIOUS
    <3>3. QED BY <3>1, <3>2 DEF Dispatch
  <2>2. CASE PressFinalize
    BY <2>2 DEF PressFinalize
  <2>3. QED BY <2>1, <2>2
<1>3. CASE RunIncomplete(t, live, FALSE)
  <2>1. Tasked'
    BY <1>1, <1>2, <1>3, UnlatchedKeeps DEF LInv
  <2>2. QED BY <1>1, <2>1 DEF LInv, TypeOK, Tasked, Coroutines, NothingBefore
<1>4. CASE \E path \in {"oss", "local"} : task' = [task EXCEPT ![t] = WaitForDock(path)]
  <2>1. PICK r \in Coroutines : task' = [task EXCEPT ![t] = r] /\ r.latched = FALSE
    <3>1. PICK path \in {"oss", "local"} : task' = [task EXCEPT ![t] = WaitForDock(path)]
      BY <1>4
    <3>2. WaitForDock(path) \in Coroutines /\ WaitForDock(path).latched = FALSE
      BY Constants DEF WaitForDock, Free, Coroutines
    <3>3. QED BY <3>1, <3>2
  <2>2. task[t].latched = FALSE
    BY <1>2, FreeHasNoLatch DEF LInv
  <2>3. Tasked'
    BY <1>1, <2>1, <2>2, TaskMoves DEF LInv
  <2>4. QED BY <1>1, <2>3 DEF LInv, TypeOK, Tasked, Coroutines, NothingBefore
<1>5. QED BY <1>2, <1>3, <1>4

-----------------------------------------------------------------------------
(* A finalize coroutine goes on.                                           *)
LEMMA TaskStepKeeps ==
    ASSUME LInv, TaskStep
    PROVE  LInv'
<1>1. /\ live \in Lives /\ data \in State /\ None \notin Nat /\ MaxAttempts \in Nat
      /\ task \in [Tasks -> Coroutines] /\ latch \in BOOLEAN
      /\ disk \in Saved \cup {None} /\ archive \subseteq Entry
  BY Typed, SessionAssumption DEF LInv, TypeOK
<1>2. PICK t \in Tasks : \/ WaitEnds(t) \/ FetchDone(t) \/ ReadDone(t)
                         \/ ArchiveDone(t) \/ DeleteDone(t) \/ Finish(t)
  BY DEF TaskStep
<1>3. task[t] \in Coroutines /\ Free \in Coroutines /\ Free.latched = FALSE
  BY <1>1, Constants DEF Free
<1>4. [start |-> live.start, runs |-> live.runs] \in Payload
  BY <1>1 DEF Lives, Payload
<1>5. UNCHANGED <<device, heard, inbox, gate, writing, begun, restarts, presses>>
  BY <1>2 DEF WaitEnds, FetchDone, ReadDone, ArchiveDone, DeleteDone, Finish
<1>6. NothingBefore'
  BY <1>5 DEF LInv, NothingBefore
<1>7. CASE WaitEnds(t)
  <2>1. UNCHANGED <<live, latch, disk, archive>> /\ task[t].latched = FALSE
    BY <1>7, FreeHasNoLatch DEF WaitEnds, LInv
  <2>2. data' \in State
    <3>1. (IF data.attempts > MaxAttempts THEN data.attempts ELSE data.attempts + 1) \in Nat
      BY <1>1 DEF State
    <3>2. [data EXCEPT !.recent = TRUE, !.attempts = IF @ > MaxAttempts THEN @ ELSE @ + 1] \in State
      BY <1>1, <3>1 DEF State
    <3>3. QED BY <1>1, <1>7, <3>2 DEF WaitEnds
  <2>3. Tasked'
    <3>1. CASE RunIncomplete(t, live, FALSE)
      BY <1>7, <2>1, <3>1, UnlatchedKeeps DEF LInv, WaitEnds
    <3>2. CASE task' = [task EXCEPT ![t] = Free]
      BY <1>3, <2>1, <3>2, TaskMoves DEF LInv
    <3>3. CASE task' = [task EXCEPT ![t].pc = "fetch", ![t].name = data.pending]
      <4>1. PICK r : r = [task[t] EXCEPT !.pc = "fetch", !.name = data.pending]
        OBVIOUS
      <4>2. r \in Coroutines /\ r.latched = task[t].latched
        BY <1>1, <1>3, <4>1 DEF Coroutines, State
      <4>3. task' = [task EXCEPT ![t] = r]
        BY <1>1, <3>3, <4>1 DEF Coroutines
      <4>4. QED BY <2>1, <4>2, <4>3, TaskMoves DEF LInv
    <3>4. QED BY <1>7, <3>1, <3>2, <3>3 DEF WaitEnds
  <2>4. QED BY <1>5, <1>6, <2>1, <2>2, <2>3 DEF LInv, TypeOK, Tasked, Coroutines
<1>8. CASE FetchDone(t)
  <2>1. UNCHANGED <<live, data, latch, disk, archive>> /\ task[t].latched = FALSE
    BY <1>8, FreeHasNoLatch DEF FetchDone, LInv
  <2>2. PICK r : r = [task[t] EXCEPT !.pc = "archive",
                                     !.load = [start |-> live.start, runs |-> live.runs]]
    OBVIOUS
  <2>3. r \in Coroutines /\ r.latched = task[t].latched
    BY <1>3, <1>4, <2>2 DEF Coroutines
  <2>4. task' = [task EXCEPT ![t] = r] \/ task' = [task EXCEPT ![t] = Free]
    BY <1>1, <1>8, <2>2 DEF FetchDone, Coroutines
  <2>5. Tasked'
    BY <1>3, <2>1, <2>3, <2>4, TaskMoves DEF LInv
  <2>6. QED BY <1>5, <1>6, <2>1, <2>5 DEF LInv, TypeOK, Tasked, Coroutines
<1>9. CASE ReadDone(t)
  <2>1. UNCHANGED <<live, data, latch, disk, archive>> /\ task[t].latched = FALSE
    BY <1>9, FreeHasNoLatch DEF ReadDone, LInv
  <2>2. PICK r \in Coroutines : task' = [task EXCEPT ![t] = r] /\ r.latched = FALSE
    <3>1. CASE disk = None
      BY <1>3, <1>9, <3>1 DEF ReadDone
    <3>2. CASE disk # None
      <4>1. [start |-> disk.start, runs |-> disk.runs \cup live.runs] \in Payload
        BY <1>1, <3>2 DEF Saved, Lives, Payload
      <4>2. PICK r : r = [task[t] EXCEPT !.pc = "archive",
                                  !.load = [start |-> disk.start, runs |-> disk.runs \cup live.runs]]
        OBVIOUS
      <4>3. r \in Coroutines /\ r.latched = FALSE
        BY <1>3, <2>1, <4>1, <4>2 DEF Coroutines
      <4>4. task' = [task EXCEPT ![t] = r]
        BY <1>9, <3>2, <4>2 DEF ReadDone
      <4>5. QED BY <4>3, <4>4
    <3>3. QED BY <3>1, <3>2
  <2>3. Tasked'
    BY <2>1, <2>2, TaskMoves DEF LInv
  <2>4. QED BY <1>5, <1>6, <2>1, <2>3 DEF LInv, TypeOK, Tasked, Coroutines
<1>10. CASE ArchiveDone(t)
  <2>1. UNCHANGED <<live, data, latch, disk>>
    BY <1>10 DEF ArchiveDone
  <2>2. PICK r : r = [task[t] EXCEPT !.pc = "delete"]
    OBVIOUS
  <2>3. r \in Coroutines /\ r.latched = task[t].latched /\ r.pc = "delete"
    BY <1>3, <2>2 DEF Coroutines
  <2>4. task' = [task EXCEPT ![t] = r]
    BY <1>1, <1>10, <2>2 DEF ArchiveDone, Coroutines
  <2>5. Tasked'
    BY <2>1, <2>3, <2>4, TaskMoves DEF LInv
  <2>6. archive' \subseteq Entry
    <3>1. task[t].name \in Runs \cup {None} /\ task[t].load \in Payload
      BY <1>3 DEF Coroutines
    <3>2. PICK entry : entry = [summary |-> task[t].name,
                   start |-> IF task[t].name = None THEN task[t].load.start ELSE 0,
                   runs |-> task[t].load.runs \cup IF task[t].name = None THEN {} ELSE {task[t].name}]
      OBVIOUS
    <3>3. entry \in Entry
      BY <3>1, <3>2 DEF Entry, Payload
    <3>4. archive' \subseteq archive \cup {entry}
      BY <1>10, <3>2 DEF ArchiveDone, Archived
    <3>5. QED BY <1>1, <3>3, <3>4
  <2>7. QED BY <1>5, <1>6, <2>1, <2>5, <2>6 DEF LInv, TypeOK, Tasked, Coroutines
<1>11. CASE DeleteDone(t)
  <2>1. UNCHANGED <<live, data, latch, archive>> /\ disk' \in Saved \cup {None}
    BY <1>1, <1>11 DEF DeleteDone
  <2>2. PICK r : r = [task[t] EXCEPT !.pc = "finish"]
    OBVIOUS
  <2>3. r \in Coroutines /\ r.latched = task[t].latched /\ r.pc = "finish"
    BY <1>3, <2>2 DEF Coroutines
  <2>4. task' = [task EXCEPT ![t] = r]
    BY <1>1, <1>11, <2>2 DEF DeleteDone, Coroutines
  <2>5. Tasked'
    BY <2>1, <2>3, <2>4, TaskMoves DEF LInv
  <2>6. QED BY <1>5, <1>6, <2>1, <2>5 DEF LInv, TypeOK, Tasked, Coroutines
<1>12. CASE Finish(t)
  <2>1. UNCHANGED <<disk, archive>> /\ task' = [task EXCEPT ![t] = Free]
        /\ latch' = (latch /\ ~task[t].latched)
    BY <1>12 DEF Finish
  <2>2. live' \in Lives /\ data' \in State
    BY <1>1, <1>12, LiveEnds, StateEnds DEF Finish
  <2>3. Tasked'
    BY <1>3, <2>1, TaskMoves DEF LInv
  <2>4. QED BY <1>5, <1>6, <2>1, <2>2, <2>3 DEF LInv, TypeOK, Tasked, Coroutines, Lives
<1>13. QED BY <1>2, <1>7, <1>8, <1>9, <1>10, <1>11, <1>12

-----------------------------------------------------------------------------
(* The file of the session in progress, and a restart.                     *)
LEMMA PersistStep ==
    ASSUME LInv, PersistStart \/ PersistDone
    PROVE  LInv'
<1>1. live \in Lives /\ writing \in Saved \cup {None} /\ disk \in Saved \cup {None}
  BY Typed DEF LInv, TypeOK
<1>2. UNCHANGED <<device, heard, data, inbox, gate, latch, task, begun, archive, restarts, presses>>
  BY DEF PersistStart, PersistDone
<1>3. Tasked' /\ NothingBefore'
  BY <1>2 DEF LInv, Tasked, LatchedLate, LatchIsHeld, NothingBefore
<1>4. live' \in Lives
  BY <1>1 DEF PersistStart, PersistDone, Lives
<1>5. writing' \in Saved \cup {None} /\ disk' \in Saved \cup {None}
  <2>1. [start |-> live.start, runs |-> live.runs, points |-> live.points,
         started |-> live.started] \in Saved
    BY <1>1 DEF Lives, Saved
  <2>2. QED BY <1>1, <2>1 DEF PersistStart, PersistDone
<1>6. QED BY <1>2, <1>3, <1>4, <1>5 DEF LInv, TypeOK, Lives

LEMMA RestartStep ==
    ASSUME LInv, Restart
    PROVE  LInv'
<1>1. PICK onDisk \in {disk} \cup IF writing = None THEN {} ELSE {writing} :
           /\ disk' = onDisk
           /\ live' = IF onDisk = None THEN NoLive
                      ELSE [NoLive EXCEPT !.start = onDisk.start, !.runs = onDisk.runs,
                                          !.points = onDisk.points, !.started = onDisk.started]
           /\ gate' = [prev |-> IF onDisk = None THEN None ELSE 0,
                       observed |-> FALSE, empty |-> None]
  BY DEF Restart
<1>2. onDisk \in Saved \cup {None}
  BY <1>1 DEF LInv, TypeOK
<1>3. live' \in Lives
  <2>1. CASE onDisk = None
    BY <1>1, <2>1, Constants
  <2>2. CASE onDisk # None
    BY <1>1, <1>2, <2>2, Constants DEF Lives, Saved
  <2>3. QED BY <2>1, <2>2
<1>4. gate' \in Gates
  BY <1>1 DEF Gates, TaskState, ENDED, ACTIVE
<1>5. /\ data' = NoState /\ inbox' = <<>> /\ latch' = FALSE /\ writing' = None
      /\ task' = [t \in Tasks |-> Free] /\ heard' = FALSE /\ restarts' = restarts + 1
      /\ UNCHANGED <<device, archive, begun, presses>>
  BY DEF Restart
<1>6. inbox' \in Seq(Push) /\ Len(inbox') <= MaxInFlight
  BY <1>5, SessionAssumption
<1>7. Tasked'
  BY <1>5, Constants DEF Tasked, LatchedLate, LatchIsHeld
<1>8. NothingBefore'
  BY <1>5 DEF LInv, NothingBefore
<1>9. data' \in State /\ restarts' \in Nat /\ disk' \in Saved \cup {None}
  BY <1>1, <1>2, <1>5, Constants DEF LInv, TypeOK
<1>10. QED BY <1>3, <1>4, <1>5, <1>6, <1>7, <1>8, <1>9
           DEF LInv, TypeOK, Tasked, Coroutines, Gates, Lives

-----------------------------------------------------------------------------
LEMMA LInitially == Init => LInv
<1> SUFFICES ASSUME Init PROVE LInv
  OBVIOUS
<1>1. Tasked
  BY Constants DEF Init, Tasked, LatchedLate, LatchIsHeld
<1>2. QED BY <1>1, InitType DEF Init, LInv, NothingBefore

LEMMA LPreserved == LInv /\ [Next]_vars => LInv'
<1> SUFFICES ASSUME LInv, [Next]_vars PROVE LInv'
  OBVIOUS
<1>1. CASE UNCHANGED vars
  BY <1>1 DEF vars, LInv, TypeOK, Tasked, LatchedLate, LatchIsHeld, NothingBefore
<1>2. CASE Next
  BY <1>2, DeviceStep, ApplyStep, DataStep, DispatchStep, TaskStepKeeps, PersistStep, RestartStep
     DEF Next
<1>3. QED BY <1>1, <1>2

LEMMA Inductive == Spec => []LInv
BY LInitially, LPreserved, PTL DEF Spec

(* Every value the session code keeps has its type, over every order of    *)
(* pushes, coroutines, writes and restarts.                                *)
THEOREM TypeCorrect == Spec => []TypeOK
<1>1. LInv => TypeOK
  BY DEF LInv
<1>2. QED BY <1>1, Inductive, PTL

(* _non_mow_finalize_in_progress of coordinator/_session.py is a mutual    *)
(* exclusion, for any number of coroutines: held exactly while the one     *)
(* coroutine that took it runs.                                            *)
THEOREM LatchExcludes == Spec => []LatchIsHeld
<1>1. LInv => LatchIsHeld
  BY DEF LInv, Tasked
<1>2. QED BY <1>1, Inductive, PTL

-----------------------------------------------------------------------------
(* The edge of a task state, with one push in flight.  What was observed   *)
(* is what the data hold; a session records runs of the past only; and a   *)
(* push that will end the session finds its run over.                      *)
UpTo(runs) == \A r \in runs : r <= device.run

Observed == gate.observed => gate.prev = data.ts

Past == /\ UpTo(live.runs)
        /\ disk # None => UpTo(disk.runs)
        /\ writing # None => UpTo(writing.runs)

EdgeInFlight ==
    inbox # <<>> /\ gate.observed /\ gate.prev \in ACTIVE /\ Head(inbox).new.ts \in ENDED
        => RecordedRunIsOver

EInv == LInv /\ Observed /\ Past /\ EdgeInFlight

LEMMA Disjoint == ACTIVE \cap ENDED = {}
BY SessionAssumption DEF ACTIVE, ENDED

(* Whoever leaves the pushes alone and records no run keeps it.            *)
LEMMA Undisturbed ==
    ASSUME EInv, UNCHANGED <<inbox, gate>>, device'.run = device.run, device'.ts = device.ts,
           data'.ts = data.ts, live'.runs \subseteq live.runs,
           disk' \in {disk, writing, None}, writing' = None \/ writing' = writing
                \/ UpTo(writing'.runs)
    PROVE  Observed' /\ Past' /\ EdgeInFlight'
<1>1. Observed'
  BY DEF EInv, Observed
<1>2. Past'
  BY DEF EInv, Past, UpTo
<1>3. EdgeInFlight'
  BY DEF EInv, EdgeInFlight, RecordedRunIsOver
<1>4. QED BY <1>1, <1>2, <1>3

(* With one push in flight a push is received only when none is.           *)
LEMMA OneInFlight ==
    ASSUME MaxInFlight = 1, LInv, NEW kind, NEW new, Receive(kind, new)
    PROVE  inbox' = inbox \/ (inbox = <<>> /\ Head(inbox').new = new)
<1>1. inbox \in Seq(Push) /\ Len(inbox) < 1
  BY Typed DEF LInv, Receive
<1>2. inbox = <<>>
  BY <1>1
<1>3. Head(Append(<<>>, [kind |-> kind, new |-> new])) = [kind |-> kind, new |-> new]
  OBVIOUS
<1>4. QED BY <1>2, <1>3 DEF Receive

(* The device moves to d: its new run is new, or its run is the same.      *)
LEMMA DeviceEdge ==
    ASSUME MaxInFlight = 1, EInv, NEW d \in Devices, DeviceMoves(d),
           \/ d.run = device.run /\ (d.ts \in ENDED \/ device.ts \in ACTIVE)
           \/ d.run = device.run + 1
    PROVE  Observed' /\ Past' /\ EdgeInFlight'
<1>1. /\ UNCHANGED <<data, gate, live, disk, writing>> /\ device' = d
      /\ device.run \in Nat /\ live.runs \subseteq Nat
      /\ disk # None => disk.runs \subseteq Nat
      /\ writing # None => writing.runs \subseteq Nat
  <2>1. device \in Devices /\ live \in Lives /\ disk \in Saved \cup {None}
        /\ writing \in Saved \cup {None} /\ MaxRuns \in Nat
    BY Typed, SessionAssumption DEF EInv, LInv, TypeOK
  <2>2. QED BY <2>1 DEF DeviceMoves, Quiet, Devices, Lives, Saved, Runs
<1>2. d.run = device.run \/ d.run = device.run + 1
  OBVIOUS
<1>3. device.run <= d.run
  BY <1>1, <1>2
<1>4. Past'
  BY <1>1, <1>2 DEF EInv, Past, UpTo
<1>5. Observed'
  BY <1>1 DEF EInv, Observed
<1>6. EdgeInFlight'
  <2>1. CASE inbox' = inbox
    <3>1. RecordedRunIsOver => RecordedRunIsOver'
      <4>1. CASE d.ts \in ENDED
        BY <1>1, <4>1 DEF RecordedRunIsOver
      <4>2. CASE d.run = device.run /\ device.ts \in ACTIVE
        BY <1>1, <4>2, Disjoint DEF RecordedRunIsOver
      <4>3. CASE d.run = device.run + 1
        <5>1. d.run \notin live.runs
          BY <1>1, <4>3 DEF EInv, Past, UpTo
        <5>2. QED BY <1>1, <5>1 DEF RecordedRunIsOver
      <4>4. QED BY <4>1, <4>2, <4>3
    <3>2. QED BY <1>1, <2>1, <3>1 DEF EInv, EdgeInFlight
  <2>2. CASE inbox' # inbox
    <3>1. Head(inbox').new = [data EXCEPT !.ts = d.ts]
      BY <2>2, OneInFlight DEF DeviceMoves, EInv
    <3>2. data \in State
      BY Typed DEF EInv, LInv
    <3>3. Head(inbox').new.ts = d.ts
      BY <3>1, <3>2 DEF State
    <3>4. QED BY <1>1, <3>3 DEF EdgeInFlight, RecordedRunIsOver
  <2>3. QED BY <2>1, <2>2
<1>7. QED BY <1>4, <1>5, <1>6

(* A push that tells no task state: it carries the one that was applied.   *)
LEMMA MoveEdge ==
    ASSUME MaxInFlight = 1, EInv, PushMove \/ PushArrived
    PROVE  Observed' /\ Past' /\ EdgeInFlight'
<1>1. /\ UNCHANGED <<data, gate, live, disk, writing>>
      /\ device'.run = device.run /\ device'.ts = device.ts
  <2>1. device \in Devices
    BY Typed DEF EInv, LInv
  <2>2. QED BY <2>1 DEF PushMove, PushArrived, Quiet, Devices
<1>2. inbox' = inbox \/ Head(inbox').new.ts = data.ts
  <2>1. data \in State
    BY Typed DEF EInv, LInv
  <2>2. CASE PushMove
    <3>1. PICK area : Receive("move", [data EXCEPT !.pos = TRUE, !.area = area])
      BY <2>2 DEF PushMove
    <3>2. inbox' = inbox \/ Head(inbox').new = [data EXCEPT !.pos = TRUE, !.area = area]
      BY <3>1, OneInFlight DEF EInv
    <3>3. QED BY <2>1, <3>2 DEF State
  <2>3. CASE PushArrived
    BY <2>3, OneInFlight DEF PushArrived, EInv
  <2>4. QED BY <2>2, <2>3
<1>3. CASE inbox' = inbox
  BY <1>1, <1>3, Undisturbed
<1>4. CASE Head(inbox').new.ts = data.ts
  <2>1. Observed' /\ Past'
    BY <1>1 DEF EInv, Observed, Past, UpTo
  <2>2. EdgeInFlight'
    BY <1>1, <1>4, Disjoint DEF EInv, Observed, EdgeInFlight
  <2>3. QED BY <2>1, <2>2
<1>5. QED BY <1>2, <1>3, <1>4

(* A push is applied: none is in flight then.                              *)
LEMMA ApplyEdge ==
    ASSUME MaxInFlight = 1, EInv, ApplyPush \/ ApplyNewCommand
    PROVE  Observed' /\ Past' /\ EdgeInFlight'
<1>1. inbox # <<>> /\ inbox' = Tail(inbox) /\ UNCHANGED <<device, disk, writing>>
  BY DEF ApplyPush, ApplyNewCommand
<1>2. inbox' = <<>>
  <2>1. inbox \in Seq(Push) /\ Len(inbox) <= 1 /\ Len(inbox) \in Nat
    BY Typed DEF EInv, LInv
  <2>2. QED BY <1>1, <2>1
<1>3. EdgeInFlight'
  BY <1>2 DEF EdgeInFlight
<1>4. CASE ApplyPush
  <2>1. PICK p : /\ live' = Tracked(p) /\ data' = p.new
                 /\ gate' = [prev     |-> p.new.ts,
                             observed |-> gate.observed \/ p.new.ts # None,
                             empty    |-> IF p.kind = "task" THEN p.new.ts = None ELSE gate.empty]
    BY <1>4 DEF ApplyPush
  <2>2. live'.runs \subseteq live.runs \cup {device.run}
    <3>1. live \in Lives /\ NoLive \in Lives
      BY Typed, Constants DEF EInv, LInv
    <3>2. QED BY <2>1, <3>1 DEF Tracked, Lives
  <2>3. device.run \in Nat
    BY Typed, SessionAssumption DEF EInv, LInv, Devices
  <2>4. Past'
    BY <1>1, <2>2, <2>3 DEF EInv, Past, UpTo
  <2>5. Observed'
    BY <2>1 DEF Observed
  <2>6. QED BY <1>3, <2>4, <2>5
<1>5. CASE ApplyNewCommand
  <2>1. UNCHANGED <<data, live>> /\ gate' = [gate EXCEPT !.empty = FALSE] /\ gate \in Gates
    BY <1>5, Typed DEF ApplyNewCommand, EInv, LInv
  <2>2. Observed' /\ Past'
    BY <1>1, <2>1 DEF EInv, Observed, Past, UpTo, Gates
  <2>3. QED BY <1>3, <2>2
<1>6. QED BY <1>4, <1>5

LEMMA EdgeStep ==
    ASSUME MaxInFlight = 1, EInv, Next
    PROVE  Observed' /\ Past' /\ EdgeInFlight'
<1>1. /\ device \in Devices /\ data \in State /\ live \in Lives /\ gate \in Gates
      /\ None \notin Nat
  BY Typed, SessionAssumption DEF EInv, LInv
<1>2. CASE StartRun
  <2>1. PICK kind \in Kinds : DeviceMoves([run |-> device.run + 1, kind |-> kind, ts |-> 0, mowed |-> FALSE])
    BY <1>2 DEF StartRun
  <2>2. device.run + 1 \in 0..MaxRuns
    BY <1>1, <1>2, SessionAssumption DEF StartRun, Devices
  <2>3. [run |-> device.run + 1, kind |-> kind, ts |-> 0, mowed |-> FALSE] \in Devices
    BY <2>2, SessionAssumption DEF Devices, TaskState, ACTIVE
  <2>4. QED BY <2>1, <2>3, DeviceEdge
<1>3. CASE PauseOrResume
  <2>1. 4 - device.ts \in TaskState
    BY <1>3 DEF PauseOrResume, ACTIVE, TaskState
  <2>2. [device EXCEPT !.ts = 4 - @] \in Devices /\ [device EXCEPT !.ts = 4 - @].run = device.run
    BY <1>1, <2>1 DEF Devices
  <2>3. QED BY <1>3, <2>2, DeviceEdge DEF PauseOrResume
<1>4. CASE EndRun \/ GoIdle
  <2>1. PICK ts \in ENDED : DeviceMoves([device EXCEPT !.ts = ts])
    BY <1>4 DEF EndRun, GoIdle, ENDED
  <2>2. /\ [device EXCEPT !.ts = ts] \in Devices /\ [device EXCEPT !.ts = ts].run = device.run
        /\ [device EXCEPT !.ts = ts].ts = ts
    BY <1>1, <2>1 DEF Devices, TaskState
  <2>3. QED BY <2>1, <2>2, DeviceEdge
<1>5. CASE PushMowStart \/ SummaryReady \/ RetryDue \/ PendingAges
  <2>1. UNCHANGED <<inbox, gate, disk, writing>>
    BY <1>5 DEF PushMowStart, SummaryReady, RetryDue, PendingAges
  <2>2. device'.run = device.run /\ device'.ts = device.ts
    BY <1>1, <1>5 DEF PushMowStart, SummaryReady, RetryDue, PendingAges, Devices
  <2>3. data'.ts = data.ts /\ live'.runs = live.runs
    BY <1>1, <1>5 DEF PushMowStart, SummaryReady, RetryDue, PendingAges, State, Lives
  <2>4. QED BY <2>1, <2>2, <2>3, Undisturbed
<1>6. CASE PeriodicRetry \/ PressFinalize
  BY <1>6, Undisturbed DEF PeriodicRetry, PressFinalize
<1>7. CASE TaskStep
  <2>1. PICK t \in Tasks : \/ WaitEnds(t) \/ FetchDone(t) \/ ReadDone(t)
                           \/ ArchiveDone(t) \/ DeleteDone(t) \/ Finish(t)
    BY <1>7 DEF TaskStep
  <2>2. UNCHANGED <<device, inbox, gate, writing>> /\ disk' \in {disk, None}
    BY <2>1 DEF WaitEnds, FetchDone, ReadDone, ArchiveDone, DeleteDone, Finish
  <2>3. data'.ts = data.ts
    BY <1>1, <2>1 DEF WaitEnds, FetchDone, ReadDone, ArchiveDone, DeleteDone, Finish, State
  <2>4. live'.runs \subseteq live.runs
    <3>1. EndSession(live).runs = {}
      BY DEF EndSession, NoLive
    <3>2. QED BY <2>1, <3>1 DEF WaitEnds, FetchDone, ReadDone, ArchiveDone, DeleteDone, Finish
  <2>5. QED BY <2>2, <2>3, <2>4, Undisturbed
<1>8. CASE PersistStart \/ PersistDone
  <2>1. UNCHANGED <<device, data, inbox, gate>> /\ disk' \in {disk, writing} /\ live'.runs = live.runs
    BY <1>1, <1>8 DEF PersistStart, PersistDone, Lives
  <2>2. writing' = None \/ UpTo(writing'.runs)
    BY <1>8 DEF PersistStart, PersistDone, EInv, Past
  <2>3. QED BY <2>1, <2>2, Undisturbed
<1>9. CASE Restart
  <2>1. /\ inbox' = <<>> /\ ~gate'.observed /\ writing' = None /\ UNCHANGED device
        /\ disk' = disk \/ (disk' = writing /\ writing # None)
        /\ live'.runs = IF disk' = None THEN {} ELSE disk'.runs
    <3>1. PICK onDisk \in {disk} \cup IF writing = None THEN {} ELSE {writing} :
               /\ disk' = onDisk
               /\ live' = IF onDisk = None THEN NoLive
                          ELSE [NoLive EXCEPT !.start = onDisk.start, !.runs = onDisk.runs,
                                              !.points = onDisk.points, !.started = onDisk.started]
               /\ gate' = [prev |-> IF onDisk = None THEN None ELSE 0,
                           observed |-> FALSE, empty |-> None]
      BY <1>9 DEF Restart
    <3>2. NoLive \in Lives /\ NoLive.runs = {}
      BY Constants
    <3>3. live'.runs = IF onDisk = None THEN {} ELSE onDisk.runs
      BY <3>1, <3>2 DEF Lives
    <3>4. QED BY <1>9, <3>1, <3>3 DEF Restart
  <2>2. disk' # None => UpTo(disk'.runs)
    BY <2>1 DEF EInv, Past, UpTo
  <2>3. UpTo(live'.runs)
    BY <2>1, <2>2 DEF UpTo
  <2>4. Past'
    BY <2>1, <2>2, <2>3 DEF Past, UpTo
  <2>5. QED BY <2>1, <2>4 DEF Observed, EdgeInFlight
<1>10. QED BY <1>2, <1>3, <1>4, <1>5, <1>6, <1>7, <1>8, <1>9, MoveEdge, ApplyEdge DEF Next

(* The only step that takes the latch applies a push.                      *)
LEMMA EdgeEnds ==
    ASSUME EInv, Next, EndedByPush, gate.observed
    PROVE  RecordedRunIsOver
<1>1. ApplyPush
  BY DEF EndedByPush, Next, StartRun, PauseOrResume, EndRun, GoIdle, PushMove, PushArrived,
         DeviceMoves, Quiet, PushMowStart, SummaryReady, ApplyNewCommand, PeriodicRetry, RetryDue,
         PendingAges, TaskStep, WaitEnds, FetchDone, ReadDone, ArchiveDone, DeleteDone, Finish,
         PressFinalize, PersistStart, PersistDone, Restart
<1>2. inbox # <<>> /\ NonMowEnds(Head(inbox), Tracked(Head(inbox)))
  BY <1>1 DEF ApplyPush, EndedByPush
<1>3. QED BY <1>2 DEF NonMowEnds, EInv, EdgeInFlight

(* _on_state_update ends a session as a finished run without summary only  *)
(* when the run it records is over, whatever is lost and whenever Home     *)
(* Assistant restarts, if a push is applied before the next is received.   *)
THEOREM EdgeEndsWhatIsOver ==
    ASSUME MaxInFlight = 1
    PROVE  Spec => EdgeMeansEnded
<1>1. Init => EInv
  <2> SUFFICES ASSUME Init PROVE EInv
    OBVIOUS
  <2>1. LInv
    BY LInitially
  <2>2. QED BY <2>1, Constants DEF Init, EInv, Observed, Past, UpTo, EdgeInFlight
<1>2. EInv /\ [Next]_vars => EInv'
  <2> SUFFICES ASSUME EInv, [Next]_vars PROVE EInv'
    OBVIOUS
  <2>1. LInv'
    BY LPreserved DEF EInv
  <2>2. CASE UNCHANGED vars
    <3>1. UNCHANGED <<device, data, inbox, gate, live, disk, writing>>
      BY <2>2 DEF vars
    <3>2. QED BY <2>1, <3>1, Undisturbed DEF EInv
  <2>3. CASE Next
    BY <2>1, <2>3, EdgeStep DEF EInv
  <2>4. QED BY <2>2, <2>3
<1>3. EInv /\ [Next]_vars => [EndedByPush /\ gate.observed => RecordedRunIsOver]_vars
  BY EdgeEnds
<1>4. QED BY <1>1, <1>2, <1>3, PTL DEF Spec, EdgeMeansEnded

-----------------------------------------------------------------------------
(* What is on the disk, with one run and a disk that works.  A session, a  *)
(* file and an archive entry record some run; who is about to archive has  *)
(* some run in hand, and when he deletes the file there is an entry.       *)
Recorded == /\ IsActive(live) => live.runs # {}
            /\ disk # None => disk.runs # {}
            /\ writing # None => writing.runs # {}
            /\ \A e \in archive : e.runs # {}

Carries(r, entries) == /\ r.pc = "fetch" => r.name # None
                       /\ r.pc = "archive" => r.name # None \/ r.load.runs # {}
                       /\ r.pc = "delete" => entries # {}

KInv == LInv /\ Recorded /\ \A t \in Tasks : Carries(task[t], archive)

(* Something stays on the disk: as an entry, or as the file.               *)
Stays == /\ archive # {} => archive' # {}
         /\ disk # None => disk' # None \/ archive' # {}

(* Who leaves the disk alone keeps the records, if a session has its runs. *)
LEMMA StillRecorded ==
    ASSUME KInv, UNCHANGED <<disk, writing, archive>>, IsActive(live') => live'.runs # {}
    PROVE  Recorded' /\ Stays
BY DEF KInv, Recorded, Stays, IsActive

(* One coroutine moves, the others keep what they carry.                   *)
LEMMA CarriersMove ==
    ASSUME KInv, NEW t \in Tasks, NEW r, task' = [task EXCEPT ![t] = r],
           Carries(r, archive'), archive # {} => archive' # {}
    PROVE  \A u \in Tasks : Carries(task'[u], archive')
<1>1. task \in [Tasks -> Coroutines]
  BY Typed DEF KInv, LInv
<1>2. \A u \in Tasks : task'[u] = IF u = t THEN r ELSE task[u]
  BY <1>1
<1>3. \A u \in Tasks : Carries(task[u], archive')
  BY DEF KInv, Carries
<1>4. QED BY <1>2, <1>3

(* The coroutines are left alone, and no entry is the last to go.          *)
LEMMA CarriersRest ==
    ASSUME KInv, UNCHANGED task, archive # {} => archive' # {}
    PROVE  \A u \in Tasks : Carries(task'[u], archive')
BY DEF KInv, Carries

(* A free slot has nothing in hand.                                        *)
LEMMA IdleCarries == \A entries : Carries(Free, entries)
BY DEF Carries, Free

(* A finalizer of the live map, if there is one, has its runs in hand.     *)
LEMMA RunIncompleteCarries ==
    ASSUME KInv, NEW t \in Tasks, NEW lm, IsActive(lm) => lm.runs # {},
           NEW latched, RunIncomplete(t, lm, latched), UNCHANGED archive
    PROVE  \A u \in Tasks : Carries(task'[u], archive')
<1> DEFINE a == [Free EXCEPT !.pc = "archive", !.latched = latched,
                             !.load = [start |-> lm.start, runs |-> lm.runs]]
           b == [Free EXCEPT !.pc = "read"]
<1>1. CASE IsActive(lm)
  <2>1. a.pc = "archive" /\ a.load.runs = lm.runs
    BY DEF Free
  <2>2. task' = [task EXCEPT ![t] = a] /\ Carries(a, archive')
    BY <1>1, <2>1 DEF RunIncomplete, Carries
  <2> HIDE DEF a
  <2>3. QED BY <2>2, CarriersMove
<1>2. CASE ~IsActive(lm)
  <2>1. b.pc = "read"
    BY DEF Free
  <2>2. task' = [task EXCEPT ![t] = b] /\ Carries(b, archive')
    BY <1>2, <2>1 DEF RunIncomplete, Carries
  <2> HIDE DEF b
  <2>3. QED BY <2>2, CarriersMove
<1>3. QED BY <1>1, <1>2

(* So has that of a finished run, if it begins.                            *)
LEMMA FinalizeCarries ==
    ASSUME KInv, NEW lm, IsActive(lm) => lm.runs # {}, FinalizeNonMow(lm), UNCHANGED archive
    PROVE  \A u \in Tasks : Carries(task'[u], archive')
<1>1. CASE UNCHANGED task
  BY <1>1, CarriersRest
<1>2. CASE \E t \in Tasks : RunIncomplete(t, lm, TRUE)
  BY <1>2, RunIncompleteCarries
<1>3. QED BY <1>1, <1>2 DEF FinalizeNonMow

(* _apply: a session that begins records the run of the device.            *)
LEMMA TrackedRecords ==
    ASSUME KInv, NEW p, IsActive(Tracked(p))
    PROVE  Tracked(p).runs # {}
<1>1. live \in Lives /\ NoLive \in Lives
  BY Typed, Constants DEF KInv, LInv
<1> DEFINE begins == p.new.ts \in ACTIVE /\ gate.prev \notin ACTIVE /\ ~IsActive(live)
           fresh == [NoLive EXCEPT !.start = begun + 1, !.runs = {device.run}, !.dirty = live.dirty]
           lm == IF begins THEN fresh ELSE live
<1>2. Tracked(p) = IF IsActive(lm) /\ p.new.pos
                   THEN [lm EXCEPT !.runs = @ \cup {device.run}, !.points = TRUE,
                                   !.dirty = TRUE, !.area = @ \/ p.new.area]
                   ELSE lm
  BY DEF Tracked
<1>3. fresh.runs # {}
  BY <1>1 DEF Lives
<1>4. IsActive(lm) => lm.runs # {}
  <2>1. IsActive(live) => live.runs # {}
    BY DEF KInv, Recorded
  <2> HIDE DEF fresh
  <2>2. QED BY <1>3, <2>1
<1>5. DOMAIN lm = {"start", "runs", "points", "started", "area", "dirty"}
  <2>1. DOMAIN live = {"start", "runs", "points", "started", "area", "dirty"}
        /\ DOMAIN fresh = {"start", "runs", "points", "started", "area", "dirty"}
    BY <1>1 DEF Lives, NoLive
  <2> HIDE DEF fresh
  <2>2. QED BY <2>1
<1> HIDE DEF lm
<1>6. [lm EXCEPT !.runs = @ \cup {device.run}, !.points = TRUE,
                 !.dirty = TRUE, !.area = @ \/ p.new.area].runs = lm.runs \cup {device.run}
  BY <1>5
<1>7. CASE IsActive(lm) /\ p.new.pos
  BY <1>2, <1>6, <1>7
<1>8. CASE ~(IsActive(lm) /\ p.new.pos)
  BY <1>2, <1>4, <1>8
<1>9. QED BY <1>7, <1>8

(* A push is applied, or has the session before it finalized first.        *)
LEMMA ApplyRecords ==
    ASSUME KInv, ApplyPush \/ ApplyNewCommand
    PROVE  Recorded' /\ Stays /\ \A u \in Tasks : Carries(task'[u], archive')
<1>1. UNCHANGED <<disk, writing, archive>> /\ (IsActive(live) => live.runs # {})
  BY DEF ApplyPush, ApplyNewCommand, KInv, Recorded
<1>2. CASE ApplyPush
  <2>1. PICK lm : /\ live' = lm /\ lm = Tracked(Head(inbox))
                  /\ FinalizeNonMow(live) \/ FinalizeNonMow(lm) \/ UNCHANGED <<task, latch>>
    BY <1>2 DEF ApplyPush
  <2>2. IsActive(lm) => lm.runs # {}
    BY <2>1, TrackedRecords
  <2>3. \A u \in Tasks : Carries(task'[u], archive')
    BY <1>1, <2>1, <2>2, FinalizeCarries, CarriersRest
  <2>4. QED BY <1>1, <2>1, <2>2, <2>3, StillRecorded DEF IsActive
<1>3. CASE ApplyNewCommand
  <2>1. live' = live /\ \E t \in Tasks : RunIncomplete(t, live, FALSE)
    BY <1>3 DEF ApplyNewCommand
  <2>2. \A u \in Tasks : Carries(task'[u], archive')
    BY <1>1, <2>1, RunIncompleteCarries
  <2>3. QED BY <1>1, <2>1, <2>2, StillRecorded DEF IsActive
<1>4. QED BY <1>2, <1>3

(* An archive write that does not fail leaves an entry: the one written,   *)
(* or the one that made it needless.                                       *)
LEMMA ArchiveRecords ==
    ASSUME DiskFails = FALSE, KInv, NEW t \in Tasks, ArchiveDone(t)
    PROVE  archive' # {} /\ \A e \in archive' : e.runs # {}
<1> DEFINE name == task[t].name
           load == task[t].load
           entry == [summary |-> name,
                     start |-> IF name = None THEN load.start ELSE 0,
                     runs |-> load.runs \cup IF name = None THEN {} ELSE {name}]
<1>1. Archived(t)
  BY DEF ArchiveDone
<1>2. entry.runs # {}
  <2>1. name # None \/ load.runs # {}
    BY DEF ArchiveDone, KInv, Carries
  <2>2. entry.runs = load.runs \cup IF name = None THEN {} ELSE {name}
    OBVIOUS
  <2> HIDE DEF name, load, entry
  <2>3. QED BY <2>1, <2>2
<1>3. \/ archive' = archive /\ archive # {}
      \/ entry \in archive' /\ archive' \subseteq archive \cup {entry}
  <2>1. CASE \E e \in archive : e.summary = name /\ (name = None => e.start = load.start)
    BY <1>1, <2>1 DEF Archived
  <2>2. CASE ~\E e \in archive : e.summary = name /\ (name = None => e.start = load.start)
    <3>1. \E pruned : archive' = (archive \ pruned) \cup {entry}
      BY <1>1, <2>2 DEF Archived
    <3> HIDE DEF entry
    <3>2. QED BY <3>1
  <2>3. QED BY <2>1, <2>2
<1> HIDE DEF entry
<1>4. QED BY <1>2, <1>3 DEF KInv, Recorded

(* A finalize coroutine goes on: only behind an entry is the file deleted. *)
LEMMA TaskRecords ==
    ASSUME DiskFails = FALSE, KInv, TaskStep
    PROVE  Recorded' /\ Stays /\ \A u \in Tasks : Carries(task'[u], archive')
<1>1. PICK t \in Tasks : \/ WaitEnds(t) \/ FetchDone(t) \/ ReadDone(t)
                         \/ ArchiveDone(t) \/ DeleteDone(t) \/ Finish(t)
  BY DEF TaskStep
<1>2. task \in [Tasks -> Coroutines] /\ task[t] \in Coroutines
  BY Typed DEF KInv, LInv
<1>3. writing' = writing /\ (IsActive(live) => live.runs # {}) /\ Carries(task[t], archive)
  BY <1>1 DEF WaitEnds, FetchDone, ReadDone, ArchiveDone, DeleteDone, Finish, KInv, Recorded
<1>4. CASE WaitEnds(t)
  <2>1. UNCHANGED <<live, disk, archive>>
    BY <1>4 DEF WaitEnds
  <2>2. \A u \in Tasks : Carries(task'[u], archive')
    <3>1. CASE RunIncomplete(t, live, FALSE)
      BY <1>3, <2>1, <3>1, RunIncompleteCarries
    <3>2. CASE task' = [task EXCEPT ![t] = Free]
      BY <2>1, <3>2, IdleCarries, CarriersMove
    <3>3. CASE data.pending # None /\ task' = [task EXCEPT ![t].pc = "fetch", ![t].name = data.pending]
      <4>1. PICK r : r = [task[t] EXCEPT !.pc = "fetch", !.name = data.pending]
        OBVIOUS
      <4>2. Carries(r, archive')
        BY <1>2, <3>3, <4>1 DEF Carries, Coroutines
      <4>3. task' = [task EXCEPT ![t] = r]
        BY <1>2, <3>3, <4>1 DEF Coroutines
      <4>4. QED BY <2>1, <4>2, <4>3, CarriersMove
    <3>4. QED BY <1>4, <3>1, <3>2, <3>3 DEF WaitEnds
  <2>3. QED BY <1>3, <2>1, <2>2, StillRecorded DEF IsActive
<1>5. CASE FetchDone(t)
  <2>1. UNCHANGED <<live, disk, archive>> /\ task[t].name # None
    BY <1>3, <1>5 DEF FetchDone, Carries
  <2>2. PICK r : r = [task[t] EXCEPT !.pc = "archive",
                                     !.load = [start |-> live.start, runs |-> live.runs]]
    OBVIOUS
  <2>3. Carries(r, archive')
    BY <1>2, <2>1, <2>2 DEF Carries, Coroutines
  <2>4. task' = [task EXCEPT ![t] = r] \/ task' = [task EXCEPT ![t] = Free]
    BY <1>2, <1>5, <2>2 DEF FetchDone, Coroutines
  <2>5. \A u \in Tasks : Carries(task'[u], archive')
    BY <2>1, <2>3, <2>4, IdleCarries, CarriersMove
  <2>6. QED BY <1>3, <2>1, <2>5, StillRecorded DEF IsActive
<1>6. CASE ReadDone(t)
  <2>1. UNCHANGED <<live, disk, archive>>
    BY <1>6 DEF ReadDone
  <2>2. \A u \in Tasks : Carries(task'[u], archive')
    <3>1. CASE disk = None
      <4>1. task' = [task EXCEPT ![t] = Free]
        BY <1>6, <3>1 DEF ReadDone
      <4>2. QED BY <2>1, <4>1, IdleCarries, CarriersMove
    <3>2. CASE disk # None
      <4>1. PICK r : r = [task[t] EXCEPT !.pc = "archive",
                                  !.load = [start |-> disk.start, runs |-> disk.runs \cup live.runs]]
        OBVIOUS
      <4>2. r.load.runs = disk.runs \cup live.runs /\ r.pc = "archive"
        BY <1>2, <4>1 DEF Coroutines
      <4>3. disk.runs # {}
        BY <3>2 DEF KInv, Recorded
      <4>4. Carries(r, archive')
        BY <4>2, <4>3 DEF Carries
      <4>5. task' = [task EXCEPT ![t] = r]
        BY <1>6, <3>2, <4>1 DEF ReadDone
      <4>6. QED BY <2>1, <4>4, <4>5, CarriersMove
    <3>3. QED BY <3>1, <3>2
  <2>3. QED BY <1>3, <2>1, <2>2, StillRecorded DEF IsActive
<1>7. CASE ArchiveDone(t)
  <2>1. UNCHANGED <<live, disk>> /\ archive' # {} /\ \A e \in archive' : e.runs # {}
    BY <1>7, ArchiveRecords DEF ArchiveDone
  <2>2. Recorded' /\ Stays
    BY <1>3, <2>1 DEF KInv, Recorded, Stays, IsActive
  <2>3. PICK r : r = [task[t] EXCEPT !.pc = "delete"]
    OBVIOUS
  <2>4. task' = [task EXCEPT ![t] = r] /\ r.pc = "delete"
    BY <1>2, <1>7, <2>3 DEF ArchiveDone, Coroutines
  <2>5. Carries(r, archive')
    BY <2>1, <2>4 DEF Carries
  <2>6. QED BY <2>1, <2>2, <2>4, <2>5, CarriersMove
<1>8. CASE DeleteDone(t)
  <2>1. UNCHANGED <<live, archive>> /\ disk' = None /\ archive # {}
    BY <1>3, <1>8 DEF DeleteDone, Carries
  <2>2. Recorded' /\ Stays
    BY <1>3, <2>1 DEF KInv, Recorded, Stays, IsActive
  <2>3. PICK r : r = [task[t] EXCEPT !.pc = "finish"]
    OBVIOUS
  <2>4. task' = [task EXCEPT ![t] = r] /\ r.pc = "finish"
    BY <1>2, <1>8, <2>3 DEF DeleteDone, Coroutines
  <2>5. Carries(r, archive')
    BY <2>4 DEF Carries
  <2>6. QED BY <2>1, <2>2, <2>4, <2>5, CarriersMove
<1>9. CASE Finish(t)
  <2>1. UNCHANGED <<disk, archive>> /\ task' = [task EXCEPT ![t] = Free] /\ ~IsActive(live')
    BY <1>9 DEF Finish, EndSession, NoLive, IsActive
  <2>2. \A u \in Tasks : Carries(task'[u], archive')
    BY <2>1, IdleCarries, CarriersMove
  <2>3. QED BY <1>3, <2>1, <2>2, StillRecorded
<1>10. QED BY <1>1, <1>4, <1>5, <1>6, <1>7, <1>8, <1>9

(* Every step.                                                             *)
LEMMA RecordStep ==
    ASSUME DiskFails = FALSE, KInv, Next
    PROVE  Recorded' /\ Stays /\ \A u \in Tasks : Carries(task'[u], archive')
<1>1. /\ live \in Lives /\ NoLive \in Lives
      /\ IsActive(live) => live.runs # {}
      /\ disk \in Saved \cup {None} /\ writing \in Saved \cup {None}
  BY Typed, Constants DEF KInv, LInv, TypeOK, Recorded
<1>2. CASE \/ StartRun \/ PauseOrResume \/ EndRun \/ GoIdle \/ PushMove \/ PushArrived
           \/ PushMowStart \/ SummaryReady \/ RetryDue \/ PendingAges
  <2>1. UNCHANGED <<task, disk, writing, archive>>
    BY <1>2 DEF StartRun, PauseOrResume, EndRun, GoIdle, PushMove, PushArrived, DeviceMoves, Quiet,
                PushMowStart, SummaryReady, RetryDue, PendingAges
  <2>2. live'.start = live.start /\ live'.runs = live.runs
    BY <1>1, <1>2 DEF StartRun, PauseOrResume, EndRun, GoIdle, PushMove, PushArrived, DeviceMoves,
                Quiet, PushMowStart, SummaryReady, RetryDue, PendingAges, Lives
  <2>3. IsActive(live') => live'.runs # {}
    BY <1>1, <2>2 DEF IsActive
  <2>4. QED BY <2>1, <2>3, StillRecorded, CarriersRest
<1>3. CASE PeriodicRetry \/ PressFinalize
  <2>1. UNCHANGED <<live, disk, writing, archive>>
    BY <1>3 DEF PeriodicRetry, PressFinalize
  <2>2. PICK t \in Tasks : \/ RunIncomplete(t, live, FALSE)
                           \/ \E path : task' = [task EXCEPT ![t] = WaitForDock(path)]
    BY <1>3 DEF PeriodicRetry, PressFinalize, Dispatch
  <2>3. \A path : Carries(WaitForDock(path), archive')
    BY DEF Carries, WaitForDock, Free
  <2>4. \A u \in Tasks : Carries(task'[u], archive')
    BY <1>1, <2>1, <2>2, <2>3, RunIncompleteCarries, CarriersMove
  <2>5. QED BY <1>1, <2>1, <2>4, StillRecorded DEF IsActive
<1>4. CASE PersistStart
  <2>1. UNCHANGED <<live, disk, archive, task>> /\ writing'.runs = live.runs /\ IsActive(live)
    BY <1>4 DEF PersistStart
  <2>2. Recorded' /\ Stays
    BY <1>1, <2>1 DEF KInv, Recorded, Stays, IsActive
  <2>3. QED BY <2>1, <2>2, CarriersRest
<1>5. CASE PersistDone
  <2>1. UNCHANGED <<archive, task>> /\ disk' = writing /\ writing # None /\ writing' = None
    BY <1>5 DEF PersistDone
  <2>2. live'.start = live.start /\ live'.runs = live.runs
    BY <1>1, <1>5 DEF PersistDone, Lives
  <2>3. Recorded' /\ Stays
    BY <1>1, <2>1, <2>2 DEF KInv, Recorded, Stays, IsActive
  <2>4. QED BY <2>1, <2>3, CarriersRest
<1>6. CASE Restart
  <2>1. PICK onDisk \in {disk} \cup IF writing = None THEN {} ELSE {writing} :
             /\ disk' = onDisk
             /\ live' = IF onDisk = None THEN NoLive
                        ELSE [NoLive EXCEPT !.start = onDisk.start, !.runs = onDisk.runs,
                                            !.points = onDisk.points, !.started = onDisk.started]
    BY <1>6 DEF Restart
  <2>2. onDisk # None => onDisk.runs # {}
    BY <2>1 DEF KInv, Recorded
  <2>3. IsActive(live') => live'.runs # {}
    <3>1. CASE onDisk = None
      BY <2>1, <3>1 DEF NoLive, IsActive
    <3>2. CASE onDisk # None
      <4>1. live'.runs = onDisk.runs
        BY <1>1, <2>1, <3>2 DEF Lives
      <4>2. QED BY <2>2, <3>2, <4>1
    <3>3. QED BY <3>1, <3>2
  <2>4. writing' = None /\ archive' = archive /\ task' = [t \in Tasks |-> Free]
    BY <1>6 DEF Restart
  <2>5. Recorded'
    BY <2>1, <2>2, <2>3, <2>4 DEF KInv, Recorded
  <2>6. Stays
    BY <2>1, <2>4 DEF Stays
  <2>7. QED BY <2>4, <2>5, <2>6, IdleCarries
<1>7. QED BY <1>2, <1>3, <1>4, <1>5, <1>6, ApplyRecords, TaskRecords DEF Next

(* With one run, something on the disk is all there is.                    *)
LEMMA OneRunIsAll ==
    ASSUME MaxRuns = 1, KInv, KInv', Stays
    PROVE  OnDisk \subseteq OnDisk'
<1>1. Runs = {1}
  BY DEF Runs
<1>2. archive \subseteq Entry /\ disk \in Saved \cup {None}
  BY DEF KInv, LInv, TypeOK
<1>3. OnDisk \subseteq {1}
  <2>1. \A e \in archive : e.runs \subseteq {1}
    BY <1>1, <1>2 DEF Entry
  <2>2. disk # None => disk.runs \subseteq {1}
    BY <1>1, <1>2 DEF Saved
  <2>3. UNION {e.runs : e \in archive} \subseteq {1}
    BY <2>1
  <2>4. CASE disk = None
    BY <2>3, <2>4 DEF OnDisk
  <2>5. CASE disk # None
    BY <2>2, <2>3, <2>5 DEF OnDisk
  <2>6. QED BY <2>4, <2>5
<1>4. archive' \subseteq Entry /\ disk' \in Saved \cup {None}
  BY DEF KInv, LInv, TypeOK
<1>5. archive' # {} => 1 \in OnDisk'
  <2> SUFFICES ASSUME NEW e \in archive' PROVE 1 \in OnDisk'
    OBVIOUS
  <2>1. e.runs # {} /\ e.runs \subseteq {1}
    BY <1>1, <1>4 DEF KInv, Recorded, Entry
  <2>2. 1 \in e.runs
    BY <2>1
  <2>3. QED BY <2>2 DEF OnDisk
<1>6. disk' # None => 1 \in OnDisk'
  <2>1. disk' # None => disk'.runs # {} /\ disk'.runs \subseteq {1}
    BY <1>1, <1>4 DEF KInv, Recorded, Saved
  <2>2. disk' # None => 1 \in disk'.runs
    BY <2>1
  <2>3. disk' # None => disk'.runs \subseteq OnDisk'
    BY Zenon DEF OnDisk
  <2>4. QED BY <2>2, <2>3
<1>7. OnDisk # {} => archive # {} \/ disk # None
  BY DEF OnDisk
<1>8. QED BY <1>3, <1>5, <1>6, <1>7 DEF Stays

(* What a run left on the disk is never lost again: whatever finalizers    *)
(* overlap, whenever Home Assistant restarts, and whatever pushes and      *)
(* fetches are lost.  The hypotheses are the code's limits: a finalizer    *)
(* deletes the file of the session that is on the disk by then, which with *)
(* a second run need not be its own, and it does so as well when the       *)
(* archive write has failed.                                               *)
THEOREM OneRunIsKept ==
    ASSUME MaxRuns = 1, DiskFails = FALSE
    PROVE  Spec => NothingOnDiskIsLost
<1>1. Init => KInv
  <2> SUFFICES ASSUME Init PROVE KInv
    OBVIOUS
  <2>1. \A t \in Tasks : Carries(task[t], archive)
    BY IdleCarries DEF Init
  <2>2. Recorded
    BY DEF Init, Recorded, IsActive, NoLive
  <2>3. QED BY <2>1, <2>2, LInitially DEF KInv
<1>2. KInv /\ [Next]_vars => KInv'
  <2> SUFFICES ASSUME KInv, [Next]_vars PROVE KInv'
    OBVIOUS
  <2>1. LInv'
    BY LPreserved DEF KInv
  <2>2. CASE UNCHANGED vars
    BY <2>1, <2>2 DEF vars, KInv, Recorded, Carries, IsActive
  <2>3. CASE Next
    BY <2>1, <2>3, RecordStep DEF KInv
  <2>4. QED BY <2>2, <2>3
<1>3. KInv /\ KInv' /\ [Next]_vars => [OnDisk \subseteq OnDisk']_vars
  BY RecordStep, OneRunIsAll
<1>4. QED BY <1>1, <1>2, <1>3, PTL DEF Spec, NothingOnDiskIsLost

=============================================================================
