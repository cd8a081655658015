-------------------------- MODULE SnapshotHandlers --------------------------
(***************************************************************************)
(* The handlers of MowerStateMachine (mower/state_machine.py) as functions *)
(* from one immutable StateSnapshot to the next.  Every handler of the     *)
(* code builds a dict of updates from the current snapshot and ends in one *)
(* call of _replace; here it is one EXCEPT.  The actions that call them,   *)
(* the dirty flag and persistence are in MowerStateMachine.                *)
(*                                                                         *)
(* Abstractions.  A snapshot keeps the fields the handlers read or that a  *)
(* property is about.  Of field_freshness only the "location" stamp is     *)
(* ever read back (by the cloud dock guard), so only it is kept.  The two  *)
(* position coordinates are one distance from the dock along a line, in    *)
(* decimetres.  positioning_health is never set to RELOCATING and          *)
(* current_activity never to PAUSED or DRIVING_BLADES_UP by any handler.   *)
(***************************************************************************)
EXTENDS Integers

CONSTANT
    None    \* Python's None

ASSUME NoneAssumption == None \notin Int

IN_SESSION       == "in_session"
BETWEEN_SESSIONS == "between_sessions"

MOWING            == "mowing"
REPOSITIONING     == "repositioning"
RETURNING         == "returning"
CHARGE_RESUME     == "charge_resume"
CRUISING_TO_POINT == "cruising_to_point"
ARRIVED           == "at_point"          \* CurrentActivity.AT_POINT
FAST_MAPPING      == "fast_mapping"
IDLE              == "idle"

AT_DOCK            == "at_dock"
ON_LAWN            == "on_lawn"
AT_POINT           == "at_point"         \* Location.AT_POINT
OUTSIDE_KNOWN_AREA == "outside_known_area"

LOCALIZED == "localized"
STUCK     == "stuck"

MowSession        == {IN_SESSION, BETWEEN_SESSIONS}
CurrentActivity   == {MOWING, REPOSITIONING, RETURNING, CHARGE_RESUME,
                      CRUISING_TO_POINT, ARRIVED, FAST_MAPPING, IDLE}
Location          == {AT_DOCK, ON_LAWN, AT_POINT, OUTSIDE_KNOWN_AREA}
PositioningHealth == {LOCALIZED, STUCK}

Optional(S) == S \cup {None}

StateSnapshot ==
    [session  : MowSession,
     activity : CurrentActivity,
     location : Location,
     health   : PositioningHealth,
     charging : BOOLEAN,
     online   : BOOLEAN,            \* mqtt_connectivity = ONLINE
     hb       : Optional(Nat),      \* last_heartbeat_unix
     lastOp   : Optional(Nat),      \* last_task_op
     s2p1     : Optional(Nat),      \* raw_s2p1
     battery  : Optional(Nat),      \* battery_percent
     position : Optional(Int),      \* position_x_m / position_y_m
     locStamp : Nat]                \* field_freshness["location"], 0 if absent

Initial ==
    [session |-> BETWEEN_SESSIONS, activity |-> IDLE, location |-> AT_DOCK,
     health |-> LOCALIZED, charging |-> FALSE, online |-> FALSE, hb |-> None,
     lastOp |-> None, s2p1 |-> None, battery |-> None, position |-> None,
     locStamp |-> 0]

MOW_MODE_CODES     == {100, 101, 102, 103}
TASK_START_OPS     == MOW_MODE_CODES \cup {108, 109}
DOCKED_PRIOR_STATES == {2, 6, 13, 16}
RETURN_MOVE_THRESHOLD == 3              \* 0.3 m
OFF_DOCK_THRESHOLD    == 10             \* 1.0 m
HB_STALENESS_S        == 90

Dist(p, q) == IF p >= q THEN p - q ELSE q - p

-----------------------------------------------------------------------------
(* s2p1: task state.  The three branches of _apply_s2p1_task_state, in the *)
(* order of its early returns.                                             *)

IsUndock(s, code) ==
    /\ code = 1
    /\ s.s2p1 \in DOCKED_PRIOR_STATES
    /\ s.session = BETWEEN_SESSIONS

IsReturnLeg(s, code) ==
    /\ code = 5
    /\ s.location = AT_POINT
    /\ s.activity # REPOSITIONING

MappedActivity(s, code) ==
    CASE code = 1 -> IF s.lastOp = 109 THEN CRUISING_TO_POINT ELSE MOWING
      [] code = 2 -> IDLE
      [] code = 5 -> RETURNING
      [] code = 6 -> IF s.session = IN_SESSION THEN CHARGE_RESUME ELSE IDLE
      [] OTHER    -> s.activity

OnTaskState(s, code, t) ==
    IF IsUndock(s, code)
    THEN [s EXCEPT !.s2p1 = code, !.activity = REPOSITIONING,
                   !.location = ON_LAWN,
                   !.locStamp = IF s.location = ON_LAWN THEN @ ELSE t,
                   !.lastOp = None, !.health = LOCALIZED]
    ELSE IF IsReturnLeg(s, code)
    THEN [s EXCEPT !.s2p1 = code, !.activity = REPOSITIONING]
    ELSE [s EXCEPT !.s2p1 = code,
                   !.activity = MappedActivity(s, code),
                   !.session = IF code = 2 THEN BETWEEN_SESSIONS ELSE @,
                   !.health = IF code = 1 THEN LOCALIZED ELSE @]

-----------------------------------------------------------------------------
(* s2p2: event codes, s2p50: the task echo, s2p56: the lifecycle stage.    *)

OnEvent(s, code, t) ==
    CASE code \in {50, 53} ->
           [s EXCEPT !.session = IN_SESSION, !.activity = MOWING]
      [] code = 33 ->
           [s EXCEPT !.health = STUCK, !.location = OUTSIDE_KNOWN_AREA,
                     !.locStamp = t]
      [] code = 48 ->
           [s EXCEPT !.session = BETWEEN_SESSIONS, !.activity = IDLE]
      [] code = 75 ->
           [s EXCEPT !.location = AT_POINT, !.activity = ARRIVED,
                     !.locStamp = t]
      [] OTHER -> s

OnTaskEnvelope(s, op, accepted, t) ==
    LET leavesDock == accepted /\ op \in TASK_START_OPS /\ s.location # ON_LAWN
    IN  [s EXCEPT
           !.lastOp = op,
           !.activity = CASE accepted /\ op \in MOW_MODE_CODES -> MOWING
                          [] accepted /\ op = 109 -> CRUISING_TO_POINT
                          [] accepted /\ op = 10  -> FAST_MAPPING
                          [] OTHER -> @,
           !.session  = IF accepted /\ op \in MOW_MODE_CODES THEN IN_SESSION ELSE @,
           !.location = IF leavesDock THEN ON_LAWN ELSE @,
           !.locStamp = IF leavesDock THEN t ELSE @]

OnLifecycle(s, stage) ==
    IF stage = 2 /\ s.activity = CRUISING_TO_POINT
    THEN [s EXCEPT !.activity = ARRIVED]
    ELSE s

-----------------------------------------------------------------------------
(* s3p1 and s3p2, position telemetry, the heartbeat and the 10 s tick.     *)

ChargeAtDock(s, t) ==
    [s EXCEPT !.charging = TRUE, !.location = AT_DOCK,
              !.locStamp = IF s.location = AT_DOCK THEN @ ELSE t]

OnCharging(s, charging, t) ==
    CASE charging = s.charging -> s
      [] charging /\ ~s.charging -> ChargeAtDock(s, t)
      [] OTHER -> [s EXCEPT !.charging = FALSE]

OnBattery(s, percent, t) ==
    LET rise == s.battery # None /\ percent > s.battery /\ ~s.charging
    IN  IF rise THEN [ChargeAtDock(s, t) EXCEPT !.battery = percent]
                ELSE [s EXCEPT !.battery = percent]

OnPosition(s, p, t) ==
    LET drivingHome == /\ p # s.position
                       /\ s.activity = REPOSITIONING
                       /\ s.location = AT_POINT
                       /\ s.position # None
                       /\ Dist(p, s.position) > RETURN_MOVE_THRESHOLD
    IN  IF drivingHome
        THEN [s EXCEPT !.position = p, !.activity = RETURNING,
                       !.location = ON_LAWN, !.locStamp = t]
        ELSE [s EXCEPT !.position = p]

OnHeartbeat(s, t) == [s EXCEPT !.hb = t, !.online = TRUE]

(* Faulty: the age of the heartbeat with the operands swapped.             *)
TickSwapped(s, t) ==
    IF s.hb # None /\ s.hb - t > HB_STALENESS_S
    THEN [s EXCEPT !.online = FALSE]
    ELSE s

OnTick(s, t) ==
    IF s.hb # None /\ t - s.hb > HB_STALENESS_S
    THEN [s EXCEPT !.online = FALSE]
    ELSE s

-----------------------------------------------------------------------------
(* The cloud's DOCK poll, and the coordinator's two session hooks.         *)

(* Faulty: the poll trusted against a running session.                     *)
CloudDockTrusted(s, connected, t) ==
    LET claim == IF connected THEN AT_DOCK ELSE ON_LAWN
    IN  IF t <= s.locStamp THEN s
        ELSE [s EXCEPT !.location = claim, !.locStamp = t]

OnCloudDock(s, connected, t) ==
    LET claim == IF connected THEN AT_DOCK ELSE ON_LAWN
        contradictsMow == /\ claim = AT_DOCK
                          /\ s.session = IN_SESSION
                          /\ s.location = ON_LAWN
    IN  IF contradictsMow \/ t <= s.locStamp
        THEN s
        ELSE [s EXCEPT !.location = claim, !.locStamp = t]

(* Faulty: the activity survives its session.                              *)
EndKeepsActivity(s) == [s EXCEPT !.session = BETWEEN_SESSIONS, !.lastOp = None]

EndSession(s) ==
    [s EXCEPT !.session = BETWEEN_SESSIONS, !.activity = IDLE, !.lastOp = None]

SeedInSession(s) ==
    IF s.session = BETWEEN_SESSIONS
    THEN [s EXCEPT !.session = IN_SESSION,
                   !.activity = IF @ = IDLE THEN MOWING ELSE @]
    ELSE s

-----------------------------------------------------------------------------
(* reconcile_from_telemetry: rules R1 to R5 choose session and activity,   *)
(* R6 the location.  live is live_map.is_active(), mowed is                *)
(* area_mowed_m2 > 0, p the coordinator's position (None after a boot).    *)
(* All six read the snapshot the call started from.                        *)

(* Faulty: R3 without its location guard, so R5 undoes it; and R2 missing. *)
ReconcileFlaps(s, live, mowed) ==
    LET in == s.session = IN_SESSION
    IN  CASE ~in /\ live /\ mowed ->
               [s EXCEPT !.session = IN_SESSION, !.activity = MOWING]
          [] in /\ ~live ->
               [s EXCEPT !.session = BETWEEN_SESSIONS, !.activity = IDLE]
          [] in /\ live /\ mowed /\ s.activity = CHARGE_RESUME ->
               [s EXCEPT !.activity = MOWING]
          [] ~in /\ ~(live /\ mowed) /\ s.activity = CHARGE_RESUME ->
               [s EXCEPT !.activity = IDLE]
          [] in /\ live /\ s.activity = MOWING /\ s.location = AT_DOCK ->
               [s EXCEPT !.activity = CHARGE_RESUME]
          [] OTHER -> s

ReconcileMowActivity(s, live, mowed) ==
    LET in == s.session = IN_SESSION
    IN  CASE ~in /\ live /\ mowed ->
               [s EXCEPT !.session = IN_SESSION, !.activity = MOWING]
          [] in /\ ~live ->
               [s EXCEPT !.session = BETWEEN_SESSIONS, !.activity = IDLE]
          [] in /\ live /\ mowed /\ s.activity = CHARGE_RESUME
                /\ s.location # AT_DOCK ->
               [s EXCEPT !.activity = MOWING]
          [] ~in /\ ~(live /\ mowed) /\ s.activity = CHARGE_RESUME ->
               [s EXCEPT !.activity = IDLE]
          [] in /\ live /\ s.activity = MOWING /\ s.location = AT_DOCK ->
               [s EXCEPT !.activity = CHARGE_RESUME]
          [] OTHER -> s

Reconcile(s, live, mowed, p, dock, t) ==
    LET offDock == /\ s.location = AT_DOCK
                   /\ p # None
                   /\ Dist(p, dock) > OFF_DOCK_THRESHOLD
        m == ReconcileMowActivity(s, live, mowed)
    IN  IF offDock THEN [m EXCEPT !.location = ON_LAWN, !.locStamp = t] ELSE m
=============================================================================
