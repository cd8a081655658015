------------------------------ MODULE MapCommands ------------------------------
(***************************************************************************)
(* The zone pickers, one per map, on top of ActiveMap: they share one      *)
(* selection in MowerState, and each answers an update of it at once,      *)
(* inside the update.  A change of the active map makes them look again,   *)
(* and after a restart they are added one by one.                          *)
(*                                                                         *)
(* An update calls the listeners one after the other, and a listener that  *)
(* selects starts an update within it: what is under way is a stack, the   *)
(* innermost update first, and nothing else runs until it is empty.        *)
(***************************************************************************)
EXTENDS ActiveMap, Sequences

CONSTANTS
    ZoneIds,        \* ZoneIds[m]: the ids of the zones of map m, in their order
    MaxPicks,       \* bound: selections of a zone
    MaxNested       \* updates within updates that Python's stack holds

ASSUME PickersAssumption ==
    /\ ZoneIds \in [Maps -> Seq(Nat \ {0})]
    /\ None \notin Nat
    /\ MaxPicks \in Nat /\ MaxNested \in Nat \ {0, 1}

VARIABLES
    selection,  \* active_selection_zones, of which the pickers write one
    showing,    \* what each picker shows, or showed when it was last there
    listeners,  \* the pickers that are added
    updates,    \* the updates under way: who is still to be told, what is shown then
    overflow,   \* Python's stack did not hold them
    picks       \* how much of the bound is used

pickers == <<selection, showing, listeners, updates, overflow, picks>>
pickersVars == <<activeMapVars, pickers>>

ZonesOf(m) == {ZoneIds[m][i] : i \in DOMAIN ZoneIds[m]}
AllZones == UNION {ZonesOf(m) : m \in Maps}
Updates == [rest : SUBSET Maps, by : Maps \cup {None}, shows : AllZones \cup {None}]

PickersTypeOK ==
    /\ selection \in AllZones \cup {None}
    /\ showing \in [Maps -> AllZones \cup {None}]
    /\ \A m \in Maps : showing[m] \in ZonesOf(m) \cup {None}
    /\ listeners \subseteq Maps
    /\ updates \in Seq(Updates)
    /\ overflow \in BOOLEAN
    /\ picks \in 0 .. MaxPicks

Quiet == updates = <<>>

\* An update tells all listeners of it; picker m, if one began it, shows z after it.
Telling(told, m, z) == [rest |-> told, by |-> m, shows |-> z]
NoPicker == None

\* _set_selected_ids puts the selection into MowerState, and the coordinator
\* calls its listeners before it returns.
Select(z, told, by, rest) ==
    IF Len(rest) >= MaxNested
    THEN overflow' = TRUE /\ updates' = <<>> /\ UNCHANGED selection
    ELSE /\ selection' = z
         /\ updates' = <<Telling(told, by, z)>> \o rest
         /\ UNCHANGED overflow

\* The innermost update once m is told.
Told(m) == <<[Head(updates) EXCEPT !.rest = @ \ {m}]>> \o Tail(updates)

\* Faulty, and so it was once: the first zone is shown but not selected.
RefreshShowsFirst(m) ==
    /\ showing' = IF ZonesOf(m) = {} THEN showing
                  ELSE [showing EXCEPT ![m] = IF selection \in ZonesOf(m) THEN selection ELSE Head(ZoneIds[m])]
    /\ updates' = Told(m)
    /\ UNCHANGED <<selection, overflow>>

\* Faulty: the first zone is selected whatever is.
RefreshAlwaysSelects(m) ==
    IF ZonesOf(m) = {}
    THEN updates' = Told(m) /\ UNCHANGED <<selection, showing, overflow>>
    ELSE Select(Head(ZoneIds[m]), listeners, m, Told(m)) /\ UNCHANGED showing

\* A picker that finds the selection among its own zones shows it; another one
\* selects its first zone, which is an update within the update, and shows that.
Refresh(m) ==
    IF selection \in ZonesOf(m) \/ ZonesOf(m) = {}
    THEN /\ showing' = IF ZonesOf(m) = {} THEN showing ELSE [showing EXCEPT ![m] = selection]
         /\ updates' = Told(m)
         /\ UNCHANGED <<selection, overflow>>
    ELSE Select(Head(ZoneIds[m]), listeners, m, Told(m)) /\ UNCHANGED showing

\* _handle_coordinator_update of the next listener.
TellListener ==
    /\ ~Quiet
    /\ \E m \in Head(updates).rest : Refresh(m)
    /\ UNCHANGED <<activeMapVars, listeners, picks>>

\* All are told: the call returns, and the picker that made it shows the zone.
EndUpdate ==
    /\ ~Quiet
    /\ Head(updates).rest = {}
    /\ LET u == Head(updates)
       IN  showing' = IF u.by = NoPicker THEN showing ELSE [showing EXCEPT ![u.by] = u.shows]
    /\ updates' = Tail(updates)
    /\ UNCHANGED <<activeMapVars, selection, listeners, overflow, picks>>

\* async_added_to_hass of the picker of map m: the zone of the last run is
\* selected if nothing is yet, and the picker refreshes.
Add(m) ==
    /\ Quiet
    /\ m \notin listeners
    /\ listeners' = listeners \cup {m}
    /\ LET refresh == <<Telling({m}, NoPicker, None)>>
       IN  IF selection = None /\ showing[m] # None
           THEN Select(showing[m], listeners', NoPicker, refresh)
           ELSE updates' = refresh /\ UNCHANGED <<selection, overflow>>
    /\ UNCHANGED <<activeMapVars, showing, picks>>

\* The user picks a zone of map m.
PickZone(m) ==
    /\ Quiet
    /\ m \in listeners
    /\ picks < MaxPicks
    /\ \E z \in ZonesOf(m) : Select(z, listeners, m, <<>>)
    /\ picks' = picks + 1
    /\ UNCHANGED <<activeMapVars, showing, listeners>>

\* _apply_mapl tells the listeners of a change of the active map, the pickers
\* among them.
Run ==
    /\ Quiet
    /\ Running
    /\ updates' = IF belief' = belief THEN <<>> ELSE <<Telling(listeners, NoPicker, None)>>
    /\ UNCHANGED <<selection, showing, listeners, overflow, picks>>

\* Home Assistant restarts: only what the pickers showed is kept.
RestartPickers ==
    /\ Quiet
    /\ RestartAll
    /\ selection' = None
    /\ listeners' = {}
    /\ UNCHANGED <<showing, updates, overflow, picks>>

PickersInit ==
    /\ ActiveMapInit
    /\ selection = None /\ showing = [m \in Maps |-> None]
    /\ listeners = {} /\ updates = <<>>
    /\ overflow = FALSE /\ picks = 0

PickersNext ==
    \/ Run \/ RestartPickers \/ TellListener \/ EndUpdate
    \/ \E m \in Maps : PickZone(m) \/ Add(m)

PickersSpec == PickersInit /\ [][PickersNext]_pickersVars

(***************************************************************************)
(* Properties.                                                             *)
(***************************************************************************)

\* The pickers' comment: what is shown is what the next Start will mow, in every
\* picker that has zones, whenever no update is under way.
ShownIsMown ==
    Quiet => \A m \in listeners : ZoneIds[m] # <<>> => selection # None /\ showing[m] = selection

\* The comment on the automatic selection: idempotent, the next refresh finds
\* a selection.  So the updates within updates come to an end.
SelectionSettles == ~overflow
===============================================================================
