----------------------------- MODULE MapSettings -----------------------------
(***************************************************************************)
(* The settings that each map has of its own (the SETTINGS blob of the     *)
(* cloud): the numbers, switches and selects of a map, the three bits of   *)
(* obstacleAvoidanceAi, and the mirror in MowerState of the active map's.  *)
(*                                                                         *)
(* Entities show cloud_state, the blob as the last refresh had it.  A      *)
(* write replaces one field in a blob fetched for it (write_settings, see  *)
(* Writes) and refreshes; the new value of the bits is computed earlier,   *)
(* from cloud_state.                                                       *)
(***************************************************************************)
EXTENDS Integers, Sequences, PythonValues, SequencesExt

CONSTANTS MapIds,
          Toggles,      \* coroutines that toggle a bit
          MaxChanges    \* bound: choices, toggles and changes in the app

\* What is not known is no number.
ASSUME MapSettingsAssumption == None \notin Int

VARIABLES blob,         \* the cloud's settings of each map
          shown,        \* cloud_state's copy
          mirror,       \* MowerState's settings_* fields
          active,       \* the active map
          toggle,       \* of each coroutine: the write it is about to make
          changes

mapSettings == <<blob, shown, mirror, active, toggle, changes>>

\* The numbers with the least and the greatest value of their sliders.
MapNumbers == [mowingHeight |-> 3 .. 7, cutterPosition |-> 0 .. 3,
               cutterPositionHeight |-> 0 .. 5, edgeMowingNum |-> 1 .. 3,
               obstacleAvoidanceHeight |-> 0 .. 30,
               obstacleAvoidanceDistance |-> 0 .. 30,
               obstacleAvoidanceSensitivity |-> 1 .. 3]
MapSwitches == {"edgeMowingAuto", "edgeMowingSafe", "edgeMowingObstacleAvoidance",
                "obstacleAvoidanceEnabled"}
MapSelects == [mowingDirection |-> <<"0", "90", "180", "270">>,
               mowingDirectionMode |-> <<"Striped", "Crisscross", "Chequerboard">>,
               edgeMowingWalkMode |-> <<"walk_0", "walk_1">>]
MapFields == DOMAIN MapNumbers \cup MapSwitches \cup DOMAIN MapSelects
AiBits == {1, 2, 4}

Options(f) == IF f \in DOMAIN MapNumbers THEN MapNumbers[f]
              ELSE IF f \in MapSwitches THEN BOOLEAN ELSE ToSet(MapSelects[f])

Index(f, option) == CHOOSE i \in DOMAIN MapSelects[f] : MapSelects[f][i] = option

\* Faulty: half a turn from the direction that is meant.
EncodeHalf(f, option) ==
    CASE f \in DOMAIN MapNumbers -> option
      [] f \in MapSwitches -> IF option THEN 1 ELSE 0
      [] OTHER -> Index(f, option) - 1

\* The number the cloud is sent for an option.
Encode(f, option) ==
    CASE f \in DOMAIN MapNumbers -> option
      [] f \in MapSwitches -> IF option THEN 1 ELSE 0
      [] f = "mowingDirection" -> (Index(f, option) - 1) * 90
      [] OTHER -> Index(f, option) - 1

\* The option shown for a number.  A direction between two options shows the
\* lower; Python takes an index below 0 from the end of the list.
Decode(f, v) ==
    CASE v = None -> None
      [] f \in DOMAIN MapNumbers -> v
      [] f \in MapSwitches -> v # 0
      [] OTHER ->
            LET n == Len(MapSelects[f])
                i == IF f = "mowingDirection" THEN v \div 90 ELSE v
            IN  IF i \in 0 .. n - 1 THEN MapSelects[f][i + 1]
                ELSE IF f = "mowingDirection" /\ i \in -n .. -1 THEN MapSelects[f][n + i + 1]
                ELSE None

\* What the app may set a field to.
Values(f) == CASE f = "mowingDirection" -> {0, 45, 90, 270, 359}
               [] f \in MapSwitches -> {0, 1}
               [] f \in DOMAIN MapNumbers -> {3}
               [] OTHER -> {0, 1, 2}

(***************************************************************************)
(* A refresh: cloud_state is replaced, the active map's fields go to       *)
(* MowerState.                                                             *)
(***************************************************************************)
Mirrored(m) == [f \in DOMAIN mirror |-> IF blob'[m][f] # None THEN blob'[m][f] ELSE mirror[f]]

Refreshed ==
    /\ shown' = blob'
    /\ mirror' = Mirrored(active)

RefreshCloudState == UNCHANGED <<blob, active, toggle, changes>> /\ Refreshed

\* The numbers, switches and selects: the optimistic value in MowerState is
\* overwritten by the refresh that ends the write.  An entity without a value
\* is unavailable.
Choose(m, f, option) ==
    /\ changes < MaxChanges
    /\ Decode(f, shown[m][f]) # None
    /\ blob' = [blob EXCEPT ![m][f] = Encode(f, option)]
    /\ Refreshed
    /\ changes' = changes + 1
    /\ UNCHANGED <<active, toggle>>

(***************************************************************************)
(* The bits of obstacleAvoidanceAi.                                        *)
(***************************************************************************)
Has(v, bit) == (v \div bit) % 2 = 1
With(v, bit, on) == IF Has(v, bit) = on THEN v ELSE IF on THEN v + bit ELSE v - bit

\* _toggle: the new value from cloud_state; nothing to do when it is the old.
Toggle(t, m, bit, on) ==
    LET old == shown[m].obstacleAvoidanceAi
        new == With(old, bit, on)
    IN  /\ changes < MaxChanges /\ toggle[t] = None /\ old # None /\ new # old
        /\ toggle' = [toggle EXCEPT ![t] = [map |-> m, bit |-> bit, on |-> on, old |-> old, value |-> new]]
        /\ mirror' = [mirror EXCEPT !.obstacleAvoidanceAi = new]
        /\ changes' = changes + 1
        /\ UNCHANGED <<blob, shown, active>>

\* The write lands, and the refresh.  (A refused one is put back: Writes.)
ToggleLands(t) ==
    /\ toggle[t] # None
    /\ blob' = [blob EXCEPT ![toggle[t].map].obstacleAvoidanceAi = toggle[t].value]
    /\ Refreshed
    /\ toggle' = [toggle EXCEPT ![t] = None]
    /\ UNCHANGED <<active, changes>>

(***************************************************************************)
(* The app: it sets a field of a map, or switches the map.  Saving the     *)
(* mowing height of the active map makes the mower push s6.2, in mm.       *)
(***************************************************************************)
AppSets(m, f, v) ==
    /\ changes < MaxChanges
    /\ blob' = [blob EXCEPT ![m][f] = v]
    /\ mirror' = IF f = "mowingHeight" /\ m = active
                 THEN [mirror EXCEPT !.mowingHeight = (10 * v) \div 10] ELSE mirror
    /\ changes' = changes + 1
    /\ UNCHANGED <<shown, active, toggle>>

SwitchMap(m) == active' = m /\ UNCHANGED <<blob, shown, mirror, toggle, changes>>

MapSettingsInit ==
    /\ blob = [m \in MapIds |-> [f \in MapFields \cup {"obstacleAvoidanceAi"} |->
                    IF f \in DOMAIN MapNumbers THEN 3 ELSE 1]]
    /\ shown = [m \in MapIds |-> [f \in DOMAIN blob[m] |-> None]]
    /\ mirror = [f \in MapFields \cup {"obstacleAvoidanceAi"} |-> None]
    /\ active \in MapIds
    /\ toggle = [t \in Toggles |-> None]
    /\ changes = 0

MapSettingsNext ==
    \/ RefreshCloudState
    \/ \E m \in MapIds, f \in MapFields : \E option \in Options(f) : Choose(m, f, option)
    \/ \E t \in Toggles, m \in MapIds, bit \in AiBits, on \in BOOLEAN : Toggle(t, m, bit, on)
    \/ \E t \in Toggles : ToggleLands(t)
    \/ \E m \in MapIds, f \in MapFields : \E v \in Values(f) : AppSets(m, f, v)
    \/ \E m \in MapIds, v \in 0 .. 7 : AppSets(m, "obstacleAvoidanceAi", v)
    \/ \E m \in MapIds : SwitchMap(m)

MapSettingsSpec == MapSettingsInit /\ [][MapSettingsNext]_mapSettings

(***************************************************************************)
(* Properties.                                                             *)
(***************************************************************************)

\* Every option that is chosen is shown when its write has ended, by the entity
\* of its map, and by those of no other; and a toggle that read the bits as
\* they are when it lands changes its own bit only (_toggle,
\* async_select_option, async_set_native_value).
ChosenIsShown ==
    [][ /\ changes' # changes =>
              \A m \in MapIds, f \in MapFields : \A option \in Options(f) :
                  blob'[m][f] = Encode(f, option) /\ Choose(m, f, option) =>
                      Decode(f, shown'[m][f]) = option
        /\ \A t \in Toggles :
              ToggleLands(t) /\ toggle[t].old = blob[toggle[t].map].obstacleAvoidanceAi =>
                  \A bit \in AiBits :
                      Has(shown'[toggle[t].map].obstacleAvoidanceAi, bit)
                        = IF bit = toggle[t].bit THEN toggle[t].on
                          ELSE Has(blob[toggle[t].map].obstacleAvoidanceAi, bit) ]_mapSettings
=============================================================================
