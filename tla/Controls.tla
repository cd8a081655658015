------------------------------ MODULE Controls ------------------------------
(***************************************************************************)
(* The settings of the mower (its CFG keys), the fields of MowerState that *)
(* show them, and the switches, numbers, selects and times that read and   *)
(* write these fields.                                                     *)
(*                                                                         *)
(* A key holds a list; a control stands for one position of one list, and  *)
(* writes the whole list, with the other positions rebuilt from            *)
(* MowerState.  MowerState learns of a list by a fetch of the CFG          *)
(* (cfg_to_state_updates) or by an s2.51 push, whose shape has to tell     *)
(* which key it is about.  Flags are 0 and 1, one-value keys are lists of  *)
(* one.  One key is followed at a time.  What happens between the          *)
(* optimistic update of a write and its answer is in Writes.               *)
(***************************************************************************)
EXTENDS Integers, Sequences, PythonValues, Functions

CONSTANTS Junk,      \* an element that int() refuses
          Minutes,   \* the times of day in use, in minutes
          MaxEdits,  \* bound: changes made in the app or in Home Assistant
          MaxReads   \* bound: fetches of the CFG

\* Times are in minutes of the day, and unlike what is not known.
ASSUME ControlsAssumption == None \notin Int /\ Minutes \subseteq Nat /\ Minutes # {}

VARIABLES key,       \* the CFG key that is followed
          cfg,       \* the mower's list of each key
          state,     \* MowerState
          push,      \* the s2.51 push that is under way, or None
          edits,
          reads

controls == <<key, cfg, state, push, edits, reads>>

(***************************************************************************)
(* The lists.                                                              *)
(***************************************************************************)

\* The field of MowerState for each position; "-" is kept nowhere.
Layout == [
    CLS  |-> <<"child_lock_enabled">>,
    VOL  |-> <<"volume_pct">>,
    FDP  |-> <<"frost_protection_enabled">>,
    STUN |-> <<"auto_recharge_standby_enabled">>,
    AOP  |-> <<"ai_obstacle_photos_enabled">>,
    PROT |-> <<"navigation_path_smart">>,
    LANG |-> <<"language_text_idx", "language_voice_idx">>,
    PRE  |-> <<"pre_zone_id", "pre_mowing_efficiency">>,
    WRP  |-> <<"rain_protection_enabled", "rain_protection_resume_hours">>,
    DND  |-> <<"dnd_enabled", "dnd_start_min", "dnd_end_min">>,
    LOW  |-> <<"low_speed_at_night_enabled", "low_speed_at_night_start_min",
               "low_speed_at_night_end_min">>,
    ATA  |-> <<"anti_theft_lift_alarm", "anti_theft_offmap_alarm",
               "anti_theft_realtime_location">>,
    CMS  |-> <<"blades_life_pct", "cleaning_brush_life_pct",
               "robot_maintenance_life_pct", "-">>,
    MSG_ALERT |-> <<"msg_alert_anomaly", "msg_alert_error", "msg_alert_task",
                    "msg_alert_consumables">>,
    VOICE |-> <<"voice_regular_notification", "voice_work_status",
                "voice_special_status", "voice_error_status">>,
    BAT  |-> <<"auto_recharge_battery_pct", "resume_battery_pct", "-",
               "custom_charging_enabled", "charging_start_min", "charging_end_min">>,
    LIT  |-> <<"led_period_enabled", "-", "-", "led_in_standby", "led_in_working",
               "led_in_charging", "led_in_error", "-">>,
    REC  |-> <<"human_presence_alert_enabled", "human_presence_alert_sensitivity",
               "human_presence_scenario_standby", "human_presence_scenario_mowing",
               "human_presence_scenario_recharge", "human_presence_scenario_patrol",
               "human_presence_alert_voice", "photo_consent",
               "human_presence_alert_push_interval_min">>]

Keys == DOMAIN Layout
Parts(k) == {p \in DOMAIN Layout[k] : Layout[k][p] # "-"}
FieldsOf(k) == {Layout[k][p] : p \in Parts(k)} \cup (IF k = "LANG" THEN {"language_code"} ELSE {})
Fields == UNION {FieldsOf(k) : k \in Keys}

\* Minutes of use after which a part is worn out; the pct shown is in tenths.
CONSUMABLE_THRESHOLDS_MIN == <<6000, 30000, 3600>>

Remaining(counter, threshold) ==
    IF counter < 0 THEN None
    ELSE IF counter > threshold THEN 0 ELSE 1000 - (1000 * counter) \div threshold

Shown(k, v, p) ==
    IF k = "CMS" THEN Remaining(v[p], CONSUMABLE_THRESHOLDS_MIN[p]) ELSE v[p]

(***************************************************************************)
(* A fetch of the CFG.                                                     *)
(***************************************************************************)

\* The positions that a list of n elements is asked for.
MinLength(k) ==
    CASE k = "CMS" -> 3 [] k = "LIT" -> 7 [] k = "REC" -> 2 [] k = "PRE" -> 1
      [] OTHER -> Len(Layout[k])

Asked(k, n) ==
    IF n < MinLength(k) THEN {}
    ELSE IF k = "REC" /\ n < 9 THEN {1, 2} \cup (IF n = 8 THEN {8} ELSE {})
    ELSE {p \in Parts(k) : p <= n}

\* Positions are read in their order up to the first that int() refuses; LANG
\* is read whole or not at all.
CfgParts(k, v) ==
    LET asked == Asked(k, Len(v))
        junk  == {p \in asked : v[p] = Junk}
    IN  IF k = "LANG" /\ junk # {} THEN {} ELSE {p \in asked : \A q \in junk : p < q}

Update(fields) == [f \in Fields |-> IF f \in DOMAIN fields THEN fields[f] ELSE state[f]]

CfgToStateUpdates(k, v) ==
    LET parts  == CfgParts(k, v)
        fields == {f \in FieldsOf(k) : \E p \in parts : Layout[k][p] = f}
                    \cup (IF k = "LANG" /\ parts # {} THEN {"language_code"} ELSE {})
    IN  [f \in fields |->
            IF f = "language_code" THEN <<v[1], v[2]>>
            ELSE Shown(k, v, CHOOSE p \in parts : Layout[k][p] = f)]

\* What an answer may hold of the key: the list, or less of it, or a list with
\* an element that is no number.
Answers(v) ==
    {SubSeq(v, 1, n) : n \in 0 .. Len(v)} \cup {[v EXCEPT ![p] = Junk] : p \in DOMAIN v}

Fetch(v) ==
    /\ reads < MaxReads
    /\ reads' = reads + 1
    /\ state' = Update(CfgToStateUpdates(key, v))
    /\ UNCHANGED <<key, cfg, push, edits>>

(***************************************************************************)
(* An s2.51 push.                                                          *)
(***************************************************************************)

\* What the mower sends when a key changed; VOL and PRE are not announced.
PushOf(k, v) ==
    CASE k = "DND"  -> [shape |-> "start end value", value |-> v]
      [] k = "LANG" -> [shape |-> "text voice", value |-> v]
      [] k \in {"CLS", "FDP", "STUN", "AOP", "PROT"} -> [shape |-> "value", value |-> v]
      [] OTHER -> [shape |-> "list", value |-> v]

\* Faulty: only the first element tells the times from the flags.
ThreeByFirst(v) == IF v[1] > 1 THEN "LOW" ELSE "ATA"

\* Three elements: one above 1 must be a minute.
Three(v) == IF \E p \in DOMAIN v : v[p] > 1 THEN "LOW" ELSE "ATA"

\* Four: one that is no flag is a counter of wear, else two keys are possible.
Four(v) == IF \E p \in DOMAIN v : v[p] \notin {0, 1} THEN "CMS" ELSE "ambiguous"

\* The key that the shape of a push stands for (decode_s2p51).
SettingOf(p) ==
    CASE p.shape = "start end value" -> "DND"
      [] p.shape = "text voice" -> "LANG"
      [] p.shape = "value" -> "ambiguous"
      [] OTHER ->
            CASE Len(p.value) = 2 -> "WRP" [] Len(p.value) = 3 -> Three(p.value)
              [] Len(p.value) = 4 -> Four(p.value) [] Len(p.value) = 6 -> "BAT"
              [] Len(p.value) = 8 -> "LIT" [] Len(p.value) = 9 -> "REC"
              [] OTHER -> "unknown"

\* The fields a push sets: not the consent for photos, not the language code,
\* and not a part without a counter.
PushParts(k, v) ==
    {p \in Parts(k) : Layout[k][p] # "photo_consent" /\ Shown(k, v, p) # None}

ApplyS2p51(p) ==
    LET k == SettingOf(p)
        v == p.value
    IN  IF k \notin Keys THEN state
        ELSE Update([f \in {Layout[k][q] : q \in PushParts(k, v)} |->
                        Shown(k, v, CHOOSE q \in Parts(k) : Layout[k][q] = f)])

Receive ==
    /\ push # None
    /\ state' = ApplyS2p51(push)
    /\ push' = None
    /\ UNCHANGED <<key, cfg, edits, reads>>

(***************************************************************************)
(* The controls.                                                           *)
(***************************************************************************)

\* The positions with a switch, a number or a select that can be set; the
\* other fields have sensors, times, or controls that only warn.
Switches ==
    [k \in Keys |->
        CASE k \in {"CLS", "DND", "WRP", "LOW", "FDP", "STUN", "AOP"} -> {1}
          [] k = "BAT" -> {4}
          [] k \in {"ATA", "MSG_ALERT", "VOICE"} -> DOMAIN Layout[k]
          [] OTHER -> {}]
Numbers == [k \in Keys |-> IF k = "VOL" THEN {1} ELSE IF k = "BAT" THEN {1, 2} ELSE {}]
SettingSelects ==
    [k \in Keys |-> IF k = "PROT" THEN {1} ELSE IF k = "WRP" THEN {2}
                    ELSE IF k = "LANG" THEN {1, 2} ELSE {}]
Settable(k) == Switches[k] \cup Numbers[k] \cup SettingSelects[k]

\* What a position may hold.
Flags == {0, 1}
Domain(k, p) ==
    CASE k \in {"DND", "LOW"} /\ p > 1 -> Minutes
      [] k = "BAT" -> CASE p = 1 -> {10, 15} [] p = 2 -> {90, 95} [] p = 3 -> {1}
                        [] p = 4 -> Flags [] OTHER -> Minutes \cup {0}
      [] k = "WRP" /\ p = 2 -> {0, 6}
      [] k = "VOL" -> {0, 50}
      [] k = "LANG" -> {0, 7}
      [] k = "CMS" -> IF p = 4 THEN {-1} ELSE {-1, 0, 3000, 7000}
      [] k = "LIT" /\ p \in {2, 3} -> {480, 1200}
      [] k = "REC" /\ p \in {2, 9} -> {0, 2}
      [] OTHER -> Flags

Field(k, p) == state[Layout[k][p]]

\* Faulty: the end of the period from the start.
BuildTimesOnce(k, v) == <<v, Or(Field(k, 2), 1200), Or(Field(k, 2), 480)>>

\* _build_dnd and _build_low: the flag, and the times as MowerState has them.
BuildTimes(k, v) == <<v, Or(Field(k, 2), 1200), Or(Field(k, 3), 480)>>

\* _build_wrp and _build_wrp_resume_hours.
BuildWrp(p, v) == IF p = 1 THEN <<v, Or(Field("WRP", 2), 0)>> ELSE <<Or(Field("WRP", 1), 0), v>>

\* _build_bat_auto_recharge, _build_bat_resume, _build_bat_custom_charging.
BuildBat(p, v) ==
    [q \in 1 .. 6 |-> IF q = p THEN v ELSE IF q = 3 THEN 1
                      ELSE Or(Field("BAT", q), <<15, 95, 1, 0, 0, 0>>[q])]

\* The flags of ATA, MSG_ALERT and VOICE: all but one as MowerState has them.
BuildFlags(k, p, v) ==
    [q \in DOMAIN Layout[k] |-> IF q = p THEN v ELSE Or(Field(k, q), 0)]

\* The list that the mower has when it accepts a write; a write of LANG names
\* the index it changes.
Written(p, v) ==
    CASE key \in {"DND", "LOW"} -> BuildTimes(key, v)
      [] key = "WRP" -> BuildWrp(p, v)
      [] key = "BAT" -> BuildBat(p, v)
      [] key \in {"ATA", "MSG_ALERT", "VOICE"} -> BuildFlags(key, p, v)
      [] OTHER -> [cfg[key] EXCEPT ![p] = v]

\* The optimistic update: the own field, and the code of both languages with
\* 0 for the one that was never read.
OwnField(p, v) == [state EXCEPT ![Layout[key][p]] = v]
FieldUpdates(p, v) ==
    IF key # "LANG" THEN OwnField(p, v)
    ELSE LET Index(q) == IF q = p THEN v ELSE IF Field(key, q) = None THEN 0 ELSE Field(key, q)
         IN  [OwnField(p, v) EXCEPT !["language_code"] = <<Index(1), Index(2)>>]

\* A control is set and the mower accepts (set_cfg sees r = 0).  A refused
\* write is reverted and leaves all as it was.  A switch whose field was never
\* read is unavailable.
Set(p, v) ==
    /\ edits < MaxEdits
    /\ p \in Switches[key] => Field(key, p) # None
    /\ cfg' = [cfg EXCEPT ![key] = Written(p, v)]
    /\ state' = FieldUpdates(p, v)
    /\ edits' = edits + 1
    /\ UNCHANGED <<key, push, reads>>

\* A position is changed in the app, and the mower tells of it.
AppEdit(p, v) ==
    /\ edits < MaxEdits /\ push = None
    /\ cfg' = [cfg EXCEPT ![key][p] = v]
    /\ push' = IF key \in {"VOL", "PRE"} THEN None ELSE PushOf(key, cfg'[key])
    /\ edits' = edits + 1
    /\ UNCHANGED <<key, state, reads>>

ControlsInit ==
    /\ key \in Keys
    /\ cfg = [k \in Keys |-> [p \in DOMAIN Layout[k] |-> CHOOSE v \in Domain(k, p) : TRUE]]
    /\ state = [f \in Fields |-> None]
    /\ push = None /\ edits = 0 /\ reads = 0

ControlsNext ==
    \/ \E v \in Answers(cfg[key]) : Fetch(v)
    \/ Receive
    \/ \E p \in Settable(key) : \E v \in Domain(key, p) : Set(p, v)
    \/ \E p \in DOMAIN cfg[key] : \E v \in Domain(key, p) : AppEdit(p, v)

ControlsSpec == ControlsInit /\ [][ControlsNext]_controls

(***************************************************************************)
(* Properties.                                                             *)
(***************************************************************************)

\* Home Assistant shows what the mower has, for the whole of a key.
Agrees(k) ==
    /\ \A p \in Parts(k) : Field(k, p) = Shown(k, cfg[k], p)
    /\ k = "LANG" => state["language_code"] = cfg[k]

\* A control changes its own position and nothing else of the mower, when what
\* Home Assistant shows of the key is right ("All 3 fields stored in
\* MowerState ... Safe to reconstruct.", switch_global.py); and then every
\* control of the key shows what the next fetch will show.
OtherPartsKept ==
    [][ edits' # edits /\ Agrees(key) =>
            \A p \in Settable(key) : \A v \in Domain(key, p) : Set(p, v) =>
                /\ \A q \in DOMAIN cfg[key] : cfg'[key][q] = IF q = p THEN v ELSE cfg[key][q]
                /\ Agrees(key)' ]_controls

\* A fetch, whole or garbled, brings a field only to what the mower had when it
\* answered: no element is taken for that of another field.
FetchIsTrue ==
    reads' # reads =>
        \A k \in Keys : \A p \in Parts(k) :
            Field(k, p)' # Field(k, p) => Field(k, p)' = Shown(k, cfg[k], p)

\* So does a push, however ambiguous its shape: it is never taken for that of
\* another key.
PushIsTrue ==
    push # None /\ push' = None =>
        \A k \in Keys : \A p \in Parts(k) :
            Field(k, p)' # Field(k, p) => k = key /\ Field(k, p)' = Shown(k, push.value, p)

\* Whatever is read of the settings is what the mower had (cfg_to_state_updates,
\* _apply_s2p51_settings).
ReadsAreTrue == [][FetchIsTrue /\ PushIsTrue]_controls
=============================================================================
