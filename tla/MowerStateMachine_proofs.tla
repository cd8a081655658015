---------------------- MODULE MowerStateMachine_proofs ----------------------
(***************************************************************************)
(* Type correctness, the coherence of session and activity and the rule    *)
(* that only charging docks a running session, for every set of pushed     *)
(* codes and every bound.  The work is in the lemmas about the handlers:   *)
(* each maps a snapshot to a snapshot and a coherent one to a coherent     *)
(* one.                                                                    *)
(***************************************************************************)
EXTENDS MowerStateMachine, TLAPS

USE DEF Optional, MowSession, CurrentActivity, Location, PositioningHealth,
        IN_SESSION, BETWEEN_SESSIONS, MOWING, REPOSITIONING, RETURNING,
        CHARGE_RESUME, CRUISING_TO_POINT, ARRIVED, FAST_MAPPING, IDLE,
        AT_DOCK, ON_LAWN, AT_POINT, OUTSIDE_KNOWN_AREA, LOCALIZED, STUCK

-----------------------------------------------------------------------------
(* Each handler returns a snapshot.                                        *)

(* The snapshot a machine starts from is well-typed and coherent.          *)
LEMMA InitialType == Initial \in StateSnapshot
BY DEF Initial, StateSnapshot

(* The snapshot a machine starts from is coherent.                         *)
LEMMA InitialCoherent == CoherentSnapshot(Initial)
BY DEF Initial, CoherentSnapshot

(* s2p1: the undock and return-leg branches, and the mapped fields.        *)
LEMMA TaskStateType ==
    ASSUME NEW s \in StateSnapshot, NEW code \in Nat, NEW t \in Nat
    PROVE  OnTaskState(s, code, t) \in StateSnapshot
<1> DEFINE a == MappedActivity(s, code)
           l == IF s.location = ON_LAWN THEN s.locStamp ELSE t
           m == IF code = 2 THEN BETWEEN_SESSIONS ELSE s.session
           h == IF code = 1 THEN LOCALIZED ELSE s.health
<1>1. a \in CurrentActivity
  BY DEF MappedActivity, StateSnapshot
<1>2. l \in Nat /\ m \in MowSession /\ h \in PositioningHealth
  BY DEF StateSnapshot
<1> HIDE DEF a, l, m, h
<1>3. [s EXCEPT !.s2p1 = code, !.activity = REPOSITIONING,
                !.location = ON_LAWN, !.locStamp = l, !.lastOp = None,
                !.health = LOCALIZED] \in StateSnapshot
  BY <1>2 DEF StateSnapshot
<1>4. [s EXCEPT !.s2p1 = code, !.activity = REPOSITIONING] \in StateSnapshot
  BY DEF StateSnapshot
<1>5. [s EXCEPT !.s2p1 = code, !.activity = a, !.session = m,
                !.health = h] \in StateSnapshot
  BY <1>1, <1>2 DEF StateSnapshot
<1>6. QED BY <1>3, <1>4, <1>5 DEF OnTaskState, a, l, m, h

(* s2p2: one record per branch.                                            *)
LEMMA EventType ==
    ASSUME NEW s \in StateSnapshot, NEW code \in Nat, NEW t \in Nat
    PROVE  OnEvent(s, code, t) \in StateSnapshot
<1>1. [s EXCEPT !.session = IN_SESSION, !.activity = MOWING] \in StateSnapshot
  BY DEF StateSnapshot
<1>2. [s EXCEPT !.health = STUCK, !.location = OUTSIDE_KNOWN_AREA,
                !.locStamp = t] \in StateSnapshot
  BY DEF StateSnapshot
<1>3. [s EXCEPT !.session = BETWEEN_SESSIONS, !.activity = IDLE]
          \in StateSnapshot
  BY DEF StateSnapshot
<1>4. [s EXCEPT !.location = AT_POINT, !.activity = ARRIVED, !.locStamp = t]
          \in StateSnapshot
  BY DEF StateSnapshot
<1>5. QED BY <1>1, <1>2, <1>3, <1>4 DEF OnEvent

(* s2p50: every field keeps its type whether or not the op was accepted.   *)
LEMMA TaskEnvelopeType ==
    ASSUME NEW s \in StateSnapshot, NEW op \in Nat, NEW accepted \in BOOLEAN,
           NEW t \in Nat
    PROVE  OnTaskEnvelope(s, op, accepted, t) \in StateSnapshot
<1> DEFINE a == CASE accepted /\ op \in MOW_MODE_CODES -> MOWING
                  [] accepted /\ op = 109 -> CRUISING_TO_POINT
                  [] accepted /\ op = 10  -> FAST_MAPPING
                  [] OTHER -> s.activity
           m == IF accepted /\ op \in MOW_MODE_CODES THEN IN_SESSION ELSE s.session
           leaves == accepted /\ op \in TASK_START_OPS /\ s.location # ON_LAWN
           l == IF leaves THEN ON_LAWN ELSE s.location
           u == IF leaves THEN t ELSE s.locStamp
<1>1. a \in CurrentActivity
  BY DEF StateSnapshot
<1>2. m \in MowSession /\ l \in Location /\ u \in Nat
  BY DEF StateSnapshot
<1>3. OnTaskEnvelope(s, op, accepted, t) =
          [s EXCEPT !.lastOp = op, !.activity = a, !.session = m,
                    !.location = l, !.locStamp = u]
  BY DEF OnTaskEnvelope
<1> HIDE DEF a, m, l, u
<1>4. [s EXCEPT !.lastOp = op, !.activity = a, !.session = m,
                !.location = l, !.locStamp = u] \in StateSnapshot
  BY <1>1, <1>2 DEF StateSnapshot
<1>5. QED BY <1>3, <1>4

(* s2p56: a lifecycle push moves the activity only.                        *)
LEMMA LifecycleType ==
    ASSUME NEW s \in StateSnapshot, NEW stage \in Nat
    PROVE  OnLifecycle(s, stage) \in StateSnapshot
BY DEF OnLifecycle, StateSnapshot

(* s3p2, and the location write it shares with s3p1.                       *)
LEMMA ChargingType ==
    ASSUME NEW s \in StateSnapshot, NEW charging \in BOOLEAN, NEW t \in Nat
    PROVE  /\ ChargeAtDock(s, t) \in StateSnapshot
           /\ OnCharging(s, charging, t) \in StateSnapshot
<1>1. \A u \in Nat : [s EXCEPT !.charging = TRUE, !.location = AT_DOCK,
                               !.locStamp = u] \in StateSnapshot
  BY DEF StateSnapshot
<1>2. s.locStamp \in Nat
  BY DEF StateSnapshot
<1>3. ChargeAtDock(s, t) \in StateSnapshot
  BY <1>1, <1>2 DEF ChargeAtDock
<1>4. [s EXCEPT !.charging = FALSE] \in StateSnapshot
  BY DEF StateSnapshot
<1>5. QED BY <1>3, <1>4 DEF OnCharging

(* s3p1: a battery level, with the charge it may infer.                    *)
LEMMA BatteryType ==
    ASSUME NEW s \in StateSnapshot, NEW percent \in Nat, NEW t \in Nat
    PROVE  OnBattery(s, percent, t) \in StateSnapshot
<1>1. \A r \in StateSnapshot : [r EXCEPT !.battery = percent] \in StateSnapshot
  BY DEF StateSnapshot
<1>2. ChargeAtDock(s, t) \in StateSnapshot
  BY ChargingType
<1>3. QED BY <1>1, <1>2 DEF OnBattery

(* s1p4: a position, with the end of the return leg it may infer.          *)
LEMMA PositionType ==
    ASSUME NEW s \in StateSnapshot, NEW p \in Int, NEW t \in Nat
    PROVE  OnPosition(s, p, t) \in StateSnapshot
<1>1. [s EXCEPT !.position = p] \in StateSnapshot
  BY DEF StateSnapshot
<1>2. [s EXCEPT !.position = p, !.activity = RETURNING, !.location = ON_LAWN,
                !.locStamp = t] \in StateSnapshot
  BY DEF StateSnapshot
<1>3. QED BY <1>1, <1>2 DEF OnPosition

(* A heartbeat stamps its time and marks the mower online.                 *)
LEMMA HeartbeatType ==
    ASSUME NEW s \in StateSnapshot, NEW t \in Nat
    PROVE  OnHeartbeat(s, t) \in StateSnapshot
BY DEF OnHeartbeat, StateSnapshot

(* The cloud's DOCK poll chooses between two locations.                    *)
LEMMA CloudDockType ==
    ASSUME NEW s \in StateSnapshot, NEW connected \in BOOLEAN, NEW t \in Nat
    PROVE  OnCloudDock(s, connected, t) \in StateSnapshot
<1>1. /\ [s EXCEPT !.location = AT_DOCK, !.locStamp = t] \in StateSnapshot
      /\ [s EXCEPT !.location = ON_LAWN, !.locStamp = t] \in StateSnapshot
  BY DEF StateSnapshot
<1>2. QED BY <1>1 DEF OnCloudDock

(* The hooks of the coordinator: end_session and seed_in_session.          *)
LEMMA EndSessionType ==
    ASSUME NEW s \in StateSnapshot
    PROVE  EndSession(s) \in StateSnapshot
BY DEF EndSession, StateSnapshot

(* seed_in_session, the hook of the restore.                               *)
LEMMA SeedInSessionType ==
    ASSUME NEW s \in StateSnapshot
    PROVE  SeedInSession(s) \in StateSnapshot
<1> DEFINE a == IF s.activity = IDLE THEN MOWING ELSE s.activity
<1>1. a \in CurrentActivity
  BY DEF StateSnapshot
<1> HIDE DEF a
<1>2. [s EXCEPT !.session = IN_SESSION, !.activity = a] \in StateSnapshot
  BY <1>1 DEF StateSnapshot
<1>3. QED BY <1>2 DEF SeedInSession, a

(* The tick: the staleness check, rules R1 to R5, then R6.                 *)
LEMMA OnTickType ==
    ASSUME NEW s \in StateSnapshot, NEW t \in Nat
    PROVE  OnTick(s, t) \in StateSnapshot
<1>1. [s EXCEPT !.online = FALSE] \in StateSnapshot
  BY DEF StateSnapshot
<1>2. QED BY <1>1 DEF OnTick

(* Rules R1 to R5 write session and activity only.                         *)
LEMMA ReconcileMowType ==
    ASSUME NEW s \in StateSnapshot, NEW live \in BOOLEAN, NEW mowed \in BOOLEAN
    PROVE  ReconcileMowActivity(s, live, mowed) \in StateSnapshot
<1>1. /\ [s EXCEPT !.session = IN_SESSION, !.activity = MOWING] \in StateSnapshot
      /\ [s EXCEPT !.session = BETWEEN_SESSIONS, !.activity = IDLE]
             \in StateSnapshot
  BY DEF StateSnapshot
<1>2. \A a \in CurrentActivity : [s EXCEPT !.activity = a] \in StateSnapshot
  BY DEF StateSnapshot
<1>3. QED BY <1>1, <1>2 DEF ReconcileMowActivity

(* Rule R6 on top of the other five.                                       *)
LEMMA ReconcileType ==
    ASSUME NEW s \in StateSnapshot, NEW live \in BOOLEAN, NEW mowed \in BOOLEAN,
           NEW p, NEW d, NEW t \in Nat
    PROVE  Reconcile(s, live, mowed, p, d, t) \in StateSnapshot
<1>1. ReconcileMowActivity(s, live, mowed) \in StateSnapshot
  BY ReconcileMowType
<1>2. \A r \in StateSnapshot :
          [r EXCEPT !.location = ON_LAWN, !.locStamp = t] \in StateSnapshot
  BY DEF StateSnapshot
<1>3. QED BY <1>1, <1>2 DEF Reconcile

-----------------------------------------------------------------------------
(* Each handler keeps a snapshot coherent.                                 *)

(* The pushes.  A handler that enters a session also sets an activity; one *)
(* that leaves it sets IDLE; s2p1 = 6 means CHARGE_RESUME only in one.     *)
LEMMA PushesCoherent ==
    ASSUME NEW s \in StateSnapshot, CoherentSnapshot(s), NEW code \in Nat,
           NEW accepted \in BOOLEAN, NEW t \in Nat
    PROVE  /\ CoherentSnapshot(OnTaskState(s, code, t))
           /\ CoherentSnapshot(OnEvent(s, code, t))
           /\ CoherentSnapshot(OnTaskEnvelope(s, code, accepted, t))
           /\ CoherentSnapshot(OnLifecycle(s, code))
<1>1. CoherentSnapshot(OnTaskState(s, code, t))
  BY DEF OnTaskState, IsUndock, IsReturnLeg, MappedActivity, StateSnapshot,
         CoherentSnapshot
<1>2. CoherentSnapshot(OnEvent(s, code, t))
  BY DEF OnEvent, StateSnapshot, CoherentSnapshot
<1>3. CoherentSnapshot(OnTaskEnvelope(s, code, accepted, t))
  BY DEF OnTaskEnvelope, StateSnapshot, CoherentSnapshot, MOW_MODE_CODES
<1>4. CoherentSnapshot(OnLifecycle(s, code))
  BY DEF OnLifecycle, StateSnapshot, CoherentSnapshot
<1>5. QED BY <1>1, <1>2, <1>3, <1>4

(* Telemetry and the cloud write neither field, except for the end of the  *)
(* return leg.                                                             *)
LEMMA ChargingCoherent ==
    ASSUME NEW s \in StateSnapshot, CoherentSnapshot(s), NEW on \in BOOLEAN, NEW t \in Nat
    PROVE  CoherentSnapshot(OnCharging(s, on, t))
BY DEF OnCharging, ChargeAtDock, StateSnapshot, CoherentSnapshot

(* s3p1 writes neither session nor activity.                               *)
LEMMA BatteryCoherent ==
    ASSUME NEW s \in StateSnapshot, CoherentSnapshot(s), NEW n \in Nat, NEW t \in Nat
    PROVE  CoherentSnapshot(OnBattery(s, n, t))
BY DEF OnBattery, ChargeAtDock, StateSnapshot, CoherentSnapshot

(* s1p4 writes RETURNING at most, which fits any session.                  *)
LEMMA PositionCoherent ==
    ASSUME NEW s \in StateSnapshot, CoherentSnapshot(s), NEW p \in Int, NEW t \in Nat
    PROVE  CoherentSnapshot(OnPosition(s, p, t))
BY DEF OnPosition, StateSnapshot, CoherentSnapshot

(* The heartbeat writes neither session nor activity.                      *)
LEMMA HeartbeatCoherent ==
    ASSUME NEW s \in StateSnapshot, CoherentSnapshot(s), NEW t \in Nat
    PROVE  CoherentSnapshot(OnHeartbeat(s, t))
BY DEF OnHeartbeat, StateSnapshot, CoherentSnapshot

(* The tick writes the connectivity only.                                  *)
LEMMA OnTickCoherent ==
    ASSUME NEW s \in StateSnapshot, CoherentSnapshot(s), NEW t \in Nat
    PROVE  CoherentSnapshot(OnTick(s, t))
BY DEF OnTick, StateSnapshot, CoherentSnapshot

(* The DOCK poll writes the location only.                                 *)
LEMMA CloudDockCoherent ==
    ASSUME NEW s \in StateSnapshot, CoherentSnapshot(s), NEW on \in BOOLEAN, NEW t \in Nat
    PROVE  CoherentSnapshot(OnCloudDock(s, on, t))
BY DEF OnCloudDock, StateSnapshot, CoherentSnapshot

(* The two hooks and the reconciler: R1 and R2 write both fields, R3 to R5 *)
(* move the activity within what the session allows, R6 writes neither.    *)
LEMMA SessionHooksCoherent ==
    ASSUME NEW s \in StateSnapshot, CoherentSnapshot(s), NEW live \in BOOLEAN,
           NEW mowed \in BOOLEAN, NEW p, NEW d, NEW t \in Nat
    PROVE  /\ CoherentSnapshot(EndSession(s))
           /\ CoherentSnapshot(SeedInSession(s))
           /\ CoherentSnapshot(Reconcile(s, live, mowed, p, d, t))
<1>1. CoherentSnapshot(EndSession(s))
  BY DEF EndSession, StateSnapshot, CoherentSnapshot
<1>2. CoherentSnapshot(SeedInSession(s))
  BY DEF SeedInSession, StateSnapshot, CoherentSnapshot
<1>3. CoherentSnapshot(Reconcile(s, live, mowed, p, d, t))
  <2> DEFINE m == ReconcileMowActivity(s, live, mowed)
  <2>1. m \in StateSnapshot
    BY ReconcileMowType
  <2>2. CoherentSnapshot(m)
    BY DEF ReconcileMowActivity, StateSnapshot, CoherentSnapshot
  <2> HIDE DEF m
  <2>3. CoherentSnapshot([m EXCEPT !.location = ON_LAWN, !.locStamp = t])
    BY <2>1, <2>2 DEF CoherentSnapshot, StateSnapshot
  <2>4. QED BY <2>2, <2>3 DEF Reconcile, m
<1>4. QED BY <1>1, <1>2, <1>3

-----------------------------------------------------------------------------
(* The inductive invariant, and one step per action.                       *)

Good(s) == s \in StateSnapshot /\ CoherentSnapshot(s)

IInv == TypeOK /\ SessionActivityCoherent

(* _replace with a good snapshot keeps the invariant.                      *)
LEMMA ReplaceKeeps ==
    ASSUME IInv, NEW s, Good(s), Replace(s)
    PROVE  IInv'
BY DEF IInv, TypeOK, SessionActivityCoherent, Replace, Good, aside

(* What the invariant says of the three snapshots a state holds.           *)
LEMMA GoodSnapshots ==
    ASSUME IInv
    PROVE  /\ Good(snap) /\ now \in Nat
           /\ store # None => Good(store)
           /\ saving # None => Good(saving)
BY DEF IInv, TypeOK, SessionActivityCoherent, Good

(* Every step of the machine keeps the invariant: one case per action.     *)
THEOREM Inductive == IInv /\ [Next]_vars => IInv'
<1> SUFFICES ASSUME IInv, [Next]_vars PROVE IInv'
  OBVIOUS
<1> USE MachineAssumption, GoodSnapshots
<1>1. CASE PushTaskState
  <2>1. PICK code \in TaskStates : Replace(OnTaskState(snap, code, now))
    BY <1>1 DEF PushTaskState
  <2>2. Good(OnTaskState(snap, code, now))
    BY TaskStateType, PushesCoherent DEF Good
  <2>3. QED BY <2>1, <2>2, ReplaceKeeps
<1>2. CASE PushEvent
  <2>1. PICK code \in Events : Replace(OnEvent(snap, code, now))
    BY <1>2 DEF PushEvent
  <2>2. Good(OnEvent(snap, code, now))
    BY EventType, PushesCoherent DEF Good
  <2>3. QED BY <2>1, <2>2, ReplaceKeeps
<1>3. CASE PushTask
  <2>1. PICK op \in Ops, accepted \in BOOLEAN :
            Replace(OnTaskEnvelope(snap, op, accepted, now))
    BY <1>3 DEF PushTask
  <2>2. Good(OnTaskEnvelope(snap, op, accepted, now))
    BY TaskEnvelopeType, PushesCoherent DEF Good
  <2>3. QED BY <2>1, <2>2, ReplaceKeeps
<1>4. CASE PushLifecycle
  <2>1. PICK stage \in {0, 2, 4} : Replace(OnLifecycle(snap, stage))
    BY <1>4 DEF PushLifecycle
  <2>2. Good(OnLifecycle(snap, stage))
    BY LifecycleType, PushesCoherent DEF Good
  <2>3. QED BY <2>1, <2>2, ReplaceKeeps
<1>5. CASE PushCharging
  <2>1. PICK charging \in BOOLEAN : Replace(OnCharging(snap, charging, now))
    BY <1>5 DEF PushCharging
  <2>2. Good(OnCharging(snap, charging, now))
    BY ChargingType, ChargingCoherent DEF Good
  <2>3. QED BY <2>1, <2>2, ReplaceKeeps
<1>6. CASE PushBattery
  <2>1. PICK percent \in Percents : Replace(OnBattery(snap, percent, now))
    BY <1>6 DEF PushBattery
  <2>2. Good(OnBattery(snap, percent, now))
    BY BatteryType, BatteryCoherent DEF Good
  <2>3. QED BY <2>1, <2>2, ReplaceKeeps
<1>7. CASE PushPosition
  <2>1. PICK p \in Positions : Replace(OnPosition(snap, p, now))
    BY <1>7 DEF PushPosition
  <2>2. Good(OnPosition(snap, p, now))
    BY PositionType, PositionCoherent DEF Good
  <2>3. QED BY <2>1, <2>2, ReplaceKeeps
<1>8. CASE PushHeartbeat
  <2>1. Good(OnHeartbeat(snap, now))
    BY HeartbeatType, HeartbeatCoherent DEF Good
  <2>2. QED BY <1>8, <2>1, ReplaceKeeps DEF PushHeartbeat
<1>9. CASE PollDock
  <2>1. PICK connected \in BOOLEAN : Replace(OnCloudDock(snap, connected, now))
    BY <1>9 DEF PollDock
  <2>2. Good(OnCloudDock(snap, connected, now))
    BY CloudDockType, CloudDockCoherent DEF Good
  <2>3. QED BY <2>1, <2>2, ReplaceKeeps
<1>10. CASE FinalizeHook
  <2>1. Good(EndSession(snap))
    BY EndSessionType, SessionHooksCoherent DEF Good
  <2>2. QED BY <1>10, <2>1, ReplaceKeeps DEF FinalizeHook
<1>11. CASE RestoreHook
  <2>1. Good(SeedInSession(snap))
    BY SeedInSessionType, SessionHooksCoherent DEF Good
  <2>2. QED BY <1>11, <2>1, ReplaceKeeps DEF RestoreHook
<1>12. CASE Tick
  <2>1. PICK live \in BOOLEAN, mowed \in BOOLEAN, p \in Optional(Positions) :
            LET r == Reconcile(OnTick(snap, now), live, mowed, p, DOCK_POSITION, now)
            IN  /\ snap' = r
                /\ dirty' = (dirty \/ r # snap)
                /\ saving' \in {r, saving}
                /\ saves' \in {saves + 1, saves}
                /\ UNCHANGED <<store, now, restarts>>
    BY <1>12 DEF Tick
  <2>2. Good(OnTick(snap, now))
    BY OnTickType, OnTickCoherent DEF Good
  <2>3. Good(Reconcile(OnTick(snap, now), live, mowed, p, DOCK_POSITION, now))
    BY <2>2, ReconcileType, SessionHooksCoherent DEF Good
  <2>4. dirty' \in BOOLEAN /\ saves' \in Nat
    BY <2>1 DEF IInv, TypeOK
  <2>5. QED
    BY <2>1, <2>3, <2>4 DEF IInv, TypeOK, SessionActivityCoherent, Good
<1>13. CASE SaveDone
  BY <1>13 DEF SaveDone, IInv, TypeOK, SessionActivityCoherent, Good
<1>14. CASE Restart
  <2>1. /\ store' \in {store, saving}
        /\ store' # None => Good(store')
        /\ snap' = IF store' = None THEN Initial ELSE store'
    BY <1>14 DEF Restart
  <2>2. Good(snap')
    BY <2>1, InitialType, InitialCoherent DEF Good
  <2>3. dirty' = FALSE /\ saving' = None /\ now' = now /\ saves' = saves
    BY <1>14 DEF Restart
  <2>4. restarts' \in Nat
    BY <1>14 DEF Restart, IInv, TypeOK
  <2>5. QED
    BY <2>1, <2>2, <2>3, <2>4 DEF IInv, TypeOK, SessionActivityCoherent, Good
<1>15. CASE AdvanceClock
  BY <1>15 DEF AdvanceClock, IInv, TypeOK, SessionActivityCoherent
<1>16. CASE UNCHANGED vars
  BY <1>16 DEF vars, IInv, TypeOK, SessionActivityCoherent
<1>17. QED
  BY <1>1, <1>2, <1>3, <1>4, <1>5, <1>6, <1>7, <1>8, <1>9, <1>10, <1>11,
     <1>12, <1>13, <1>14, <1>15, <1>16 DEF Next

(* The invariant holds in every reachable state.                           *)
LEMMA InvariantHolds == Spec => []IInv
<1>1. Init => IInv
  <2> SUFFICES ASSUME Init PROVE IInv
    OBVIOUS
  <2>1. TypeOK
    BY InitialType DEF Init, TypeOK
  <2>2. SessionActivityCoherent
    BY InitialCoherent DEF Init, SessionActivityCoherent
  <2>3. QED BY <2>1, <2>2 DEF IInv
<1>2. QED BY <1>1, Inductive, PTL DEF Spec

(* Type correctness of the machine.                                        *)
THEOREM TypeCorrect == Spec => []TypeOK
<1>1. IInv => TypeOK
  BY DEF IInv
<1>2. QED BY <1>1, InvariantHolds, PTL

(* Session and activity agree in every reachable snapshot, the one on disk *)
(* and the one being written included.                                     *)
THEOREM Coherent == Spec => []SessionActivityCoherent
<1>1. IInv => SessionActivityCoherent
  BY DEF IInv
<1>2. QED BY <1>1, InvariantHolds, PTL

-----------------------------------------------------------------------------
(* Only charge current docks a running session.                            *)

(* No push but a charge, no poll, no hook and no tick moves the location   *)
(* from the lawn to the dock while a session runs.                         *)
LEMMA HandlersKeepOffDock ==
    ASSUME NEW s \in StateSnapshot, NEW code \in Nat, NEW accepted \in BOOLEAN,
           NEW t \in Nat
    PROVE  /\ DockedOnlyByCharging(s, OnTaskState(s, code, t))
           /\ DockedOnlyByCharging(s, OnEvent(s, code, t))
           /\ DockedOnlyByCharging(s, OnTaskEnvelope(s, code, accepted, t))
           /\ DockedOnlyByCharging(s, OnLifecycle(s, code))
           /\ DockedOnlyByCharging(s, OnHeartbeat(s, t))
           /\ DockedOnlyByCharging(s, EndSession(s))
           /\ DockedOnlyByCharging(s, SeedInSession(s))
<1>1. DockedOnlyByCharging(s, OnTaskState(s, code, t))
  BY DEF OnTaskState, StateSnapshot, DockedOnlyByCharging
<1>2. DockedOnlyByCharging(s, OnEvent(s, code, t))
  BY DEF OnEvent, StateSnapshot, DockedOnlyByCharging
<1>3. DockedOnlyByCharging(s, OnTaskEnvelope(s, code, accepted, t))
  BY DEF OnTaskEnvelope, StateSnapshot, DockedOnlyByCharging
<1>4. DockedOnlyByCharging(s, OnLifecycle(s, code))
  BY DEF OnLifecycle, StateSnapshot, DockedOnlyByCharging
<1>5. DockedOnlyByCharging(s, OnHeartbeat(s, t))
  BY DEF OnHeartbeat, StateSnapshot, DockedOnlyByCharging
<1>6. DockedOnlyByCharging(s, EndSession(s))
  BY DEF EndSession, StateSnapshot, DockedOnlyByCharging
<1>7. DockedOnlyByCharging(s, SeedInSession(s))
  BY DEF SeedInSession, StateSnapshot, DockedOnlyByCharging
<1>8. QED BY <1>1, <1>2, <1>3, <1>4, <1>5, <1>6, <1>7

(* s3p2 docks the mower, with charge current.                              *)
LEMMA ChargingDocks ==
    ASSUME NEW s \in StateSnapshot, NEW on \in BOOLEAN, NEW t \in Nat
    PROVE  DockedOnlyByCharging(s, OnCharging(s, on, t))
BY DEF OnCharging, ChargeAtDock, StateSnapshot, DockedOnlyByCharging

(* s3p1 docks the mower when a rise reveals charge current.                *)
LEMMA BatteryDocks ==
    ASSUME NEW s \in StateSnapshot, NEW n \in Nat, NEW t \in Nat
    PROVE  DockedOnlyByCharging(s, OnBattery(s, n, t))
BY DEF OnBattery, ChargeAtDock, StateSnapshot, DockedOnlyByCharging

(* s1p4 moves the location to the lawn at most.                            *)
LEMMA PositionKeepsOffDock ==
    ASSUME NEW s \in StateSnapshot, NEW p \in Int, NEW t \in Nat
    PROVE  DockedOnlyByCharging(s, OnPosition(s, p, t))
BY DEF OnPosition, StateSnapshot, DockedOnlyByCharging

(* The guard against the lagging cloud is what keeps this one.             *)
LEMMA CloudDockKeepsOffDock ==
    ASSUME NEW s \in StateSnapshot, NEW connected \in BOOLEAN, NEW t \in Nat
    PROVE  DockedOnlyByCharging(s, OnCloudDock(s, connected, t))
BY DEF OnCloudDock, StateSnapshot, DockedOnlyByCharging

(* The tick keeps the location or moves it to the lawn.                    *)
LEMMA TickKeepsLocation ==
    ASSUME NEW s \in StateSnapshot, NEW live \in BOOLEAN, NEW mowed \in BOOLEAN,
           NEW p, NEW d, NEW t \in Nat
    PROVE  Reconcile(OnTick(s, t), live, mowed, p, d, t).location
               \in {s.location, ON_LAWN}
<1> DEFINE u == OnTick(s, t)
           m == ReconcileMowActivity(u, live, mowed)
<1>1. u \in StateSnapshot /\ u.location = s.location
  <2>1. u.location = s.location
    BY DEF OnTick, StateSnapshot
  <2>2. QED BY <2>1, OnTickType
<1> HIDE DEF u
<1>2. m \in StateSnapshot
  BY <1>1, ReconcileMowType
<1>3. m.location = u.location
  BY <1>1 DEF ReconcileMowActivity, StateSnapshot
<1> HIDE DEF m
<1>4. [m EXCEPT !.location = ON_LAWN, !.locStamp = t].location = ON_LAWN
  BY <1>2 DEF StateSnapshot
<1>5. Reconcile(u, live, mowed, p, d, t).location \in {u.location, ON_LAWN}
  BY <1>3, <1>4 DEF Reconcile, m
<1>6. QED BY <1>1, <1>5 DEF u

(* In every reachable step but a restart, a running session reaches the    *)
(* dock only with charge current.                                          *)
THEOREM OnlyChargingDocks == Spec => OnlyChargingDocksASession
<1> DEFINE A == restarts' = restarts => DockedOnlyByCharging(snap, snap')
<1>1. IInv /\ [Next]_vars => [A]_vars
  <2> SUFFICES ASSUME IInv, Next, restarts' = restarts
               PROVE  DockedOnlyByCharging(snap, snap')
    BY DEF vars
  <2> USE MachineAssumption
  <2>1. snap \in StateSnapshot /\ now \in Nat /\ restarts \in Nat
    BY DEF IInv, TypeOK
  <2>2. CASE PushTaskState
    BY <2>1, <2>2, HandlersKeepOffDock DEF PushTaskState, Replace
  <2>3. CASE PushEvent
    BY <2>1, <2>3, HandlersKeepOffDock DEF PushEvent, Replace
  <2>4. CASE PushTask
    BY <2>1, <2>4, HandlersKeepOffDock DEF PushTask, Replace
  <2>5. CASE PushLifecycle
    BY <2>1, <2>5, HandlersKeepOffDock DEF PushLifecycle, Replace
  <2>6. CASE PushCharging
    BY <2>1, <2>6, ChargingDocks DEF PushCharging, Replace
  <2>7. CASE PushBattery
    BY <2>1, <2>7, BatteryDocks DEF PushBattery, Replace
  <2>8. CASE PushPosition
    BY <2>1, <2>8, PositionKeepsOffDock DEF PushPosition, Replace
  <2>9. CASE PushHeartbeat
    BY <2>1, <2>9, HandlersKeepOffDock DEF PushHeartbeat, Replace
  <2>10. CASE PollDock
    BY <2>1, <2>10, CloudDockKeepsOffDock DEF PollDock, Replace
  <2>11. CASE FinalizeHook
    BY <2>1, <2>11, HandlersKeepOffDock DEF FinalizeHook, Replace
  <2>12. CASE RestoreHook
    BY <2>1, <2>12, HandlersKeepOffDock DEF RestoreHook, Replace
  <2>13. CASE Tick
    <3>1. snap'.location \in {snap.location, ON_LAWN}
      BY <2>1, <2>13, TickKeepsLocation DEF Tick
    <3>2. QED BY <3>1 DEF DockedOnlyByCharging
  <2>14. CASE SaveDone \/ AdvanceClock
    BY <2>14 DEF SaveDone, AdvanceClock, DockedOnlyByCharging
  <2>15. CASE Restart
    BY <2>1, <2>15 DEF Restart
  <2>16. QED
    BY <2>2, <2>3, <2>4, <2>5, <2>6, <2>7, <2>8, <2>9, <2>10, <2>11, <2>12,
       <2>13, <2>14, <2>15 DEF Next
<1>2. QED BY <1>1, InvariantHolds, PTL DEF Spec, OnlyChargingDocksASession
-----------------------------------------------------------------------------
(* The inferences settle.                                                  *)

(* The position says that the mower is off its dock (R6).                  *)
Far(p) == p # None /\ Dist(p, DOCK_POSITION) > OFF_DOCK_THRESHOLD

(* No rule applies.                                                        *)
Settled(s, live, mowed, p) ==
    /\ live /\ mowed => s.session = IN_SESSION
    /\ ~live => s.session = BETWEEN_SESSIONS
    /\ s.session = IN_SESSION =>
           /\ s.activity = CHARGE_RESUME /\ mowed => s.location = AT_DOCK
           /\ s.activity = MOWING => s.location # AT_DOCK
    /\ s.session = BETWEEN_SESSIONS => s.activity # CHARGE_RESUME
    /\ Far(p) => s.location # AT_DOCK

(* Where no rule applies, a tick changes nothing.                          *)
LEMMA SettledStays ==
    ASSUME NEW s \in StateSnapshot, NEW live \in BOOLEAN, NEW mowed \in BOOLEAN, NEW p, NEW t,
           Settled(s, live, mowed, p)
    PROVE  Reconcile(s, live, mowed, p, DOCK_POSITION, t) = s
<1>1. s.session \in MowSession
  BY DEF StateSnapshot
<1>2. ReconcileMowActivity(s, live, mowed) = s
  BY <1>1 DEF ReconcileMowActivity, Settled
<1>3. QED BY <1>2 DEF Reconcile, Settled, Far

(* What R1 to R5 make of session and activity.                             *)
LEMMA RulesOneToFive ==
    ASSUME NEW s \in StateSnapshot, NEW live \in BOOLEAN, NEW mowed \in BOOLEAN,
           NEW m, m = ReconcileMowActivity(s, live, mowed)
    PROVE  /\ m \in StateSnapshot /\ m.location = s.location
           /\ live /\ mowed => m.session = IN_SESSION
           /\ ~live => m.session = BETWEEN_SESSIONS /\ m.activity # CHARGE_RESUME
           /\ m.session = BETWEEN_SESSIONS => m.activity # CHARGE_RESUME
           /\ s.session = BETWEEN_SESSIONS /\ ~(live /\ mowed) => m.session = BETWEEN_SESSIONS
<1>1. m \in StateSnapshot
  BY ReconcileMowType
<1>2. m.location = s.location
  BY DEF ReconcileMowActivity, StateSnapshot
<1>3. QED BY <1>1, <1>2 DEF ReconcileMowActivity, StateSnapshot

(* While the session goes on R3 and R5 fit the activity to the location.   *)
LEMMA RulesInSession ==
    ASSUME NEW s \in StateSnapshot, NEW mowed \in BOOLEAN, s.session = IN_SESSION,
           NEW m, m = ReconcileMowActivity(s, TRUE, mowed)
    PROVE  /\ m.activity = CHARGE_RESUME /\ mowed => s.location = AT_DOCK
           /\ m.activity = MOWING => s.location # AT_DOCK
BY DEF ReconcileMowActivity, StateSnapshot

(* With R6: the location moves off the dock where the position says so.    *)
LEMMA RulesOneToSix ==
    ASSUME NEW s \in StateSnapshot, NEW live \in BOOLEAN, NEW mowed \in BOOLEAN, NEW p, NEW t \in Nat,
           NEW m, m = ReconcileMowActivity(s, live, mowed),
           NEW r, r = Reconcile(s, live, mowed, p, DOCK_POSITION, t)
    PROVE  /\ r \in StateSnapshot /\ r.session = m.session /\ r.activity = m.activity
           /\ r.location = IF s.location = AT_DOCK /\ Far(p) THEN ON_LAWN ELSE s.location
<1>1. m \in StateSnapshot /\ m.location = s.location
  BY RulesOneToFive
<1>2. r = IF s.location = AT_DOCK /\ Far(p) THEN [m EXCEPT !.location = ON_LAWN, !.locStamp = t] ELSE m
  BY DEF Reconcile, Far
<1>3. CASE s.location = AT_DOCK /\ Far(p)
  <2>1. r = [m EXCEPT !.location = ON_LAWN, !.locStamp = t]
    BY <1>2, <1>3
  <2>2. r \in StateSnapshot
    BY ReconcileType
  <2>3. r.session = m.session /\ r.activity = m.activity
    BY <2>1
  <2>4. r.location = ON_LAWN
    BY <1>1, <2>1 DEF StateSnapshot
  <2>5. QED BY <1>3, <2>2, <2>3, <2>4
<1>4. CASE ~(s.location = AT_DOCK /\ Far(p))
  BY <1>1, <1>2, <1>4
<1>5. QED BY <1>3, <1>4

(* The first tick settles session and location for as long as the          *)
(* telemetry stays, the second the activity that these two allow.          *)
LEMMA SettlesInThree ==
    ASSUME NEW s \in StateSnapshot, NEW live \in BOOLEAN, NEW mowed \in BOOLEAN, NEW p, NEW t \in Nat,
           NEW r1, r1 = Reconcile(s, live, mowed, p, DOCK_POSITION, t),
           NEW r2, r2 = Reconcile(r1, live, mowed, p, DOCK_POSITION, t),
           NEW r3, r3 = Reconcile(r2, live, mowed, p, DOCK_POSITION, t)
    PROVE  r3 \in StateSnapshot /\ Settled(r3, live, mowed, p)
<1>1. PICK m1 : m1 = ReconcileMowActivity(s, live, mowed)
  OBVIOUS
<1>2. r1 \in StateSnapshot /\ r1.session \in MowSession
  BY <1>1, RulesOneToSix DEF StateSnapshot
<1>3. /\ Far(p) => r1.location # AT_DOCK
      /\ live /\ mowed => r1.session = IN_SESSION
      /\ ~live => r1.session = BETWEEN_SESSIONS
      /\ r1.session = BETWEEN_SESSIONS => r1.activity # CHARGE_RESUME
  BY <1>1, RulesOneToFive, RulesOneToSix
<1>4. PICK m2 : m2 = ReconcileMowActivity(r1, live, mowed)
  OBVIOUS
<1>5. /\ r2 \in StateSnapshot /\ r2.location = r1.location
      /\ r2.session = m2.session /\ r2.activity = m2.activity
  BY <1>2, <1>3, <1>4, RulesOneToSix
<1>6. Settled(r2, live, mowed, p)
  <2>1. /\ live /\ mowed => m2.session = IN_SESSION
        /\ ~live => m2.session = BETWEEN_SESSIONS
        /\ m2.session = BETWEEN_SESSIONS => m2.activity # CHARGE_RESUME
    BY <1>2, <1>4, RulesOneToFive
  <2>2. m2.session = IN_SESSION => r1.session = IN_SESSION /\ live
    BY <1>2, <1>3, <1>4, RulesOneToFive
  <2>3. ASSUME m2.session = IN_SESSION
        PROVE  /\ m2.activity = CHARGE_RESUME /\ mowed => r1.location = AT_DOCK
               /\ m2.activity = MOWING => r1.location # AT_DOCK
    <3>1. live = TRUE /\ r1.session = IN_SESSION
      BY <2>2, <2>3
    <3>2. m2 = ReconcileMowActivity(r1, TRUE, mowed)
      BY <1>4, <3>1
    <3>3. QED BY <1>2, <3>1, <3>2, RulesInSession
  <2>4. QED BY <1>3, <1>5, <2>1, <2>3 DEF Settled
<1>7. r3 = r2
  BY <1>5, <1>6, SettledStays
<1>8. QED BY <1>5, <1>6, <1>7

(* From every snapshot that the machine can hold the inferences reach, in  *)
(* at most three ticks, a fixed point that agrees with the telemetry       *)
(* (reconcile_from_telemetry).                                             *)
THEOREM InferencesSettle == Spec => []SettledAgreesWithTelemetry
<1>1. IInv => SettledAgreesWithTelemetry
  <2>1. SUFFICES ASSUME IInv, NEW live \in BOOLEAN, NEW mowed \in BOOLEAN, NEW p,
                        NEW r1, r1 = Reconcile(snap, live, mowed, p, DOCK_POSITION, now),
                        NEW r2, r2 = Reconcile(r1, live, mowed, p, DOCK_POSITION, now),
                        NEW r3, r3 = Reconcile(r2, live, mowed, p, DOCK_POSITION, now)
                 PROVE  /\ Reconcile(r3, live, mowed, p, DOCK_POSITION, now) = r3
                        /\ ~live => r3.session = BETWEEN_SESSIONS
                        /\ live /\ mowed => r3.session = IN_SESSION
                        /\ r3.session = IN_SESSION =>
                               /\ r3.activity = MOWING => r3.location # AT_DOCK
                               /\ r3.activity = CHARGE_RESUME /\ mowed => r3.location = AT_DOCK
    BY DEF SettledAgreesWithTelemetry
  <2>2. snap \in StateSnapshot /\ now \in Nat
    BY <2>1 DEF IInv, TypeOK
  <2>3. r3 \in StateSnapshot /\ Settled(r3, live, mowed, p)
    BY <2>1, <2>2, SettlesInThree
  <2>4. QED BY <2>1, <2>3, SettledStays DEF Settled
<1>2. QED BY <1>1, InvariantHolds, PTL DEF Spec
=============================================================================
