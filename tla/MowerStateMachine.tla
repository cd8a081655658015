------------------------- MODULE MowerStateMachine -------------------------
(***************************************************************************)
(* mower/state_machine.py: the single owner of the mower's behavioural     *)
(* state.  One action per entry point the coordinator calls; each applies  *)
(* the handler of SnapshotHandlers and marks the snapshot dirty.  The 10 s *)
(* tick of coordinator/_core.py also reconciles and starts the debounced   *)
(* save, which ends in an action of its own because it awaits the store.   *)
(*                                                                         *)
(* The inputs are the pushes, polls and telemetry the device and the cloud *)
(* may deliver, in any order: messages are lost while Home Assistant is    *)
(* down, and the cloud's DOCK answer lags by minutes.                      *)
(***************************************************************************)
EXTENDS SnapshotHandlers

CONSTANTS
    TaskStates,   \* s2p1 codes pushed
    Events,       \* s2p2 codes pushed
    Ops,          \* s2p50 op codes echoed
    Percents,     \* s3p1 battery levels
    Positions,    \* s1p4 positions, decimetres from the dock
    TimeStep,     \* seconds the clock advances at a time
    LastBeat,     \* the mower sends no heartbeat after this time
    MaxTime,      \* bound on the clock
    MaxSaves,     \* bound on the saves started
    MaxRestarts   \* bound on the restarts

ASSUME MachineAssumption ==
    /\ TaskStates \subseteq Nat
    /\ Events \subseteq Nat
    /\ Ops \subseteq Nat
    /\ Percents \subseteq Nat
    /\ Positions \subseteq Int
    /\ TimeStep \in Nat \ {0}
    /\ LastBeat \in Nat
    /\ MaxTime \in Nat
    /\ MaxSaves \in Nat
    /\ MaxRestarts \in Nat

VARIABLES
    snap,      \* MowerStateMachine._snapshot
    dirty,     \* MowerStateMachine._dirty
    store,     \* what the Store holds on disk, None before the first save
    saving,    \* the snapshot of the save in flight, None if there is none
    now,       \* the clock, in seconds
    saves,     \* saves started (bound)
    restarts   \* restarts so far (bound)

vars  == <<snap, dirty, store, saving, now, saves, restarts>>
aside == <<store, saving, now, saves, restarts>>

DOCK_POSITION == 0

TypeOK ==
    /\ snap \in StateSnapshot
    /\ dirty \in BOOLEAN
    /\ store \in StateSnapshot \cup {None}
    /\ saving \in StateSnapshot \cup {None}
    /\ now \in Nat
    /\ saves \in Nat
    /\ restarts \in Nat

Init ==
    /\ snap = Initial
    /\ dirty = FALSE
    /\ store = None
    /\ saving = None
    /\ now = 1
    /\ saves = 0
    /\ restarts = 0

-----------------------------------------------------------------------------
(* _replace: a changed snapshot is dirty.  A handler that only re-stamps a *)
(* freshness entry the model drops may mark it dirty as well.              *)
Replace(s) ==
    /\ snap' = s
    /\ dirty' \in IF s # snap THEN {TRUE} ELSE {dirty, TRUE}
    /\ UNCHANGED aside

(* Pushes of the device over MQTT. *)
PushTaskState == \E code \in TaskStates : Replace(OnTaskState(snap, code, now))
PushEvent     == \E code \in Events : Replace(OnEvent(snap, code, now))
PushTask      == \E op \in Ops, accepted \in BOOLEAN :
                     Replace(OnTaskEnvelope(snap, op, accepted, now))
PushLifecycle == \E stage \in {0, 2, 4} : Replace(OnLifecycle(snap, stage))
PushCharging  == \E charging \in BOOLEAN : Replace(OnCharging(snap, charging, now))
PushBattery   == \E percent \in Percents : Replace(OnBattery(snap, percent, now))
PushPosition  == \E p \in Positions : Replace(OnPosition(snap, p, now))
PushHeartbeat == now <= LastBeat /\ Replace(OnHeartbeat(snap, now))

(* The 60 s poll of the cloud's DOCK record. *)
PollDock == \E connected \in BOOLEAN : Replace(OnCloudDock(snap, connected, now))

(* The coordinator's hooks: _fire_mowing_ended and _restore_in_progress.   *)
FinalizeHook == Replace(EndSession(snap))
RestoreHook  == Replace(SeedInSession(snap))

(* The 10 s timer: tick, reconcile, then start a save if dirty.  A write   *)
(* takes less than the 10 s between two ticks, so one save is in flight.   *)
Tick ==
    \E live, mowed \in BOOLEAN, p \in Optional(Positions) :
        LET s == Reconcile(OnTick(snap, now), live, mowed, p, DOCK_POSITION, now)
            unsaved == dirty \/ s # snap
            start == unsaved /\ saving = None /\ saves < MaxSaves
        IN  /\ snap' = s
            /\ dirty' = unsaved
            /\ saving' = IF start THEN s ELSE saving
            /\ saves' = IF start THEN saves + 1 ELSE saves
            /\ UNCHANGED <<store, now, restarts>>

(* save_persisted resumes after its await and clears the dirty flag.       *)
SaveDone ==
    /\ saving # None
    /\ store' = saving
    /\ saving' = None
    /\ dirty' = FALSE
    /\ UNCHANGED <<snap, now, saves, restarts>>

(* Home Assistant stops and starts again; load_persisted replaces the      *)
(* initial snapshot.  A write in flight may or may not have reached disk.  *)
Restart ==
    /\ restarts < MaxRestarts
    /\ restarts' = restarts + 1
    /\ \E onDisk \in {store} \cup IF saving = None THEN {} ELSE {saving} :
           /\ store' = onDisk
           /\ snap' = IF onDisk = None THEN Initial ELSE onDisk
    /\ dirty' = FALSE
    /\ saving' = None
    /\ UNCHANGED <<now, saves>>

AdvanceClock ==
    /\ now + TimeStep <= MaxTime
    /\ now' = now + TimeStep
    /\ UNCHANGED <<snap, dirty, store, saving, saves, restarts>>

Next ==
    \/ PushTaskState \/ PushEvent \/ PushTask \/ PushLifecycle
    \/ PushCharging \/ PushBattery \/ PushPosition \/ PushHeartbeat
    \/ PollDock \/ FinalizeHook \/ RestoreHook
    \/ Tick \/ SaveDone \/ Restart \/ AdvanceClock

Spec == Init /\ [][Next]_vars

(* The tick is a timer of the event loop: it keeps firing. *)
FairSpec == Spec /\ WF_vars(Tick) /\ WF_vars(SaveDone)

-----------------------------------------------------------------------------
(* Properties.                                                             *)

CoherentSnapshot(s) ==
    /\ s.session = IN_SESSION => s.activity # IDLE
    /\ s.session = BETWEEN_SESSIONS => s.activity # CHARGE_RESUME

(* Session and activity agree whatever the order of pushes, polls, hooks,  *)
(* ticks and restarts: in a session the mower is never shown idle, and it  *)
(* is never "charging to resume" a session that is over.  Six handlers     *)
(* write the two fields, each from its own signal.                         *)
SessionActivityCoherent ==
    /\ CoherentSnapshot(snap)
    /\ store # None => CoherentSnapshot(store)
    /\ saving # None => CoherentSnapshot(saving)

(* The inferences of reconcile_from_telemetry feed each other (R5 undoes   *)
(* what R1 and R3 set, R6 moves the location R3 and R5 read).  From every  *)
(* snapshot, with telemetry that no longer changes, they reach a fixed     *)
(* point in at most three ticks, so that the shown activity does not flap. *)
(* There the snapshot agrees with the telemetry: no session without a live *)
(* map, a session whenever the live map has mowed, and a session shown     *)
(* mowing is not at the dock, shown charging to resume only at the dock    *)
(* once there is mow evidence.                                             *)
SettledAgreesWithTelemetry ==
    \A live, mowed \in BOOLEAN, p \in Optional(Positions) :
        LET Again(s) == Reconcile(s, live, mowed, p, DOCK_POSITION, now)
            settled  == Again(Again(Again(snap)))
        IN  /\ Again(settled) = settled
            /\ ~live => settled.session = BETWEEN_SESSIONS
            /\ live /\ mowed => settled.session = IN_SESSION
            /\ settled.session = IN_SESSION =>
                 /\ settled.activity = MOWING => settled.location # AT_DOCK
                 /\ settled.activity = CHARGE_RESUME /\ mowed =>
                        settled.location = AT_DOCK

DockedOnlyByCharging(s, r) ==
    s.session = IN_SESSION /\ s.location = ON_LAWN /\ r.location = AT_DOCK
        => ~s.charging /\ r.charging

(* While a session runs and the mower is believed on the lawn, only charge *)
(* current brings it to the dock: not a lagging cloud poll, not a tick, not*)
(* a task push.  A restart may resume an older snapshot.                   *)
OnlyChargingDocksASession ==
    [][restarts' = restarts => DockedOnlyByCharging(snap, snap')]_vars

(* A silent mower is eventually shown stale, also when the snapshot that   *)
(* says ONLINE was restored from disk after a restart.                     *)
SilenceIsNoticed ==
    (snap.online /\ now - snap.hb > HB_STALENESS_S)
        ~> (~snap.online \/ now - snap.hb <= HB_STALENESS_S)

=============================================================================
