------------------------------- MODULE Commands -------------------------------
(***************************************************************************)
(* What the buttons, the lawn_mower entity, the mowing-mode select and the *)
(* services ask of the mower: the selections in MowerState that they read, *)
(* the pickers that keep these selections on targets of the map, and       *)
(* dispatch_action, which turns an action into one request or none.        *)
(*                                                                         *)
(* One map has targets, and its table may be replaced by a refresh; how    *)
(* the pickers of several maps answer one another, and what becomes of a   *)
(* request, is in MapCommands.                                             *)
(***************************************************************************)
EXTENDS Integers, Sequences, PythonValues, SequencesExt

CONSTANTS Home, Away,     \* the map with targets, and another
          Tables,         \* what a refresh may find on the map Home
          MaxCommands     \* bound: selections, refreshes and commands

\* The targets of a map are listed, with numbers for their names.
ASSUME CommandsAssumption == \A t \in Tables : t.zones \in Seq(Int) /\ t.spots \in Seq(Int)

VARIABLES data,      \* the selections and the child lock in MowerState
          table,     \* cloud_state.maps_by_id[Home]
          belief,    \* _active_map_id
          sent,      \* the requests of the last command
          by,        \* who gave it
          commands

commandsVars == <<data, table, belief, sent, by, commands>>

Empty == [zones |-> <<>>, spots |-> <<>>, contours |-> {}, points |-> {}]
Outers(t) == {c \in t.contours : c[2] = 0}

Nothing == [mode |-> "all_areas", zones |-> <<>>, spots |-> <<>>, contours |-> {},
            point |-> None, lock |-> None]

(***************************************************************************)
(* The pickers.                                                            *)
(***************************************************************************)

\* Every update of MowerState makes a picker that does not find the selection
\* among its entries select its first one (_DreameA2DynamicTargetSelect).
Found(entries, ids) ==
    IF entries = <<>> \/ (ids # <<>> /\ ids[1] \in ToSet(entries)) THEN ids ELSE <<entries[1]>>

\* The labels of DreameA2EdgeSelect: all perimeters, and each if there are more.
Labels(t) == IF Outers(t) = {} THEN {} ELSE {Outers(t)} \cup {{c} : c \in Outers(t)}

\* Faulty: a selection that the map no longer has is left as it is.
FoundEdgesOnce(t, contours) == IF contours # {} THEN contours ELSE Outers(t)

FoundEdges(t, contours) ==
    IF Labels(t) = {} \/ contours \in Labels(t) THEN contours ELSE Outers(t)

Settled(d, t) == [d EXCEPT !.zones = Found(t.zones, d.zones), !.spots = Found(t.spots, d.spots),
                           !.contours = FoundEdges(t, d.contours)]

Quiet(d) == data' = Settled(d, table) /\ sent' = <<>> /\ by' = None /\ UNCHANGED <<table, belief>>

\* A refresh brings another table, or MAPL another active map.
MapArrives(t) ==
    /\ table' = t
    /\ data' = Settled(data, t)
    /\ sent' = <<>> /\ by' = None /\ UNCHANGED belief

Believe(m) == belief' = m /\ sent' = <<>> /\ by' = None /\ UNCHANGED <<data, table>>

PickMode(m) == Quiet([data EXCEPT !.mode = m])
PickZone(z) == Quiet([data EXCEPT !.zones = <<z>>])
PickSpot(s) == Quiet([data EXCEPT !.spots = <<s>>])
PickEdge(label) == Quiet([data EXCEPT !.contours = label])
PickPoint(p) == Quiet([data EXCEPT !.point = IF p = None THEN None ELSE <<Home, p>>])
SetActiveSelection(zs, ss) == Quiet([data EXCEPT !.zones = zs, !.spots = ss])
ReadLock(on) == Quiet([data EXCEPT !.lock = on])

First(ids) == IF ids = <<>> THEN <<>> ELSE <<ids[1]>>

\* The mode and the first zone and spot come back from the states that Home
\* Assistant kept, the contours, the point and the lock do not.
Restart(t) ==
    /\ data' = Settled([Nothing EXCEPT !.mode = data.mode,
                            !.zones = First(data.zones), !.spots = First(data.spots)], t)
    /\ table' = t /\ belief' = None /\ sent' = <<>> /\ by' = None

(***************************************************************************)
(* dispatch_action.                                                        *)
(***************************************************************************)

Routed(op, target) == <<[op |-> op, target |-> target]>>
Direct(method) == <<[op |-> method, target |-> {}]>>

\* The contours of an edge mow: as given, else the perimeters of the map that
\* is believed active, else that of the first zone.
Contours(contours) ==
    LET known == IF belief = Home THEN Outers(table) ELSE {}
    IN  IF contours # {} THEN contours ELSE IF known # {} THEN known ELSE {<<1, 0>>}

\* The request of an action; ids is what its payload is built of.  A zone or
\* spot mow without an id is refused, an action without a routed opcode is
\* sent directly.
Request(action, ids) ==
    CASE action = "START_MOWING"     -> Routed("100", {})
      [] action = "START_EDGE_MOW"   -> Routed("101", Contours(ids))
      [] action = "START_ZONE_MOW"   -> IF ids = {} THEN <<>> ELSE Routed("102", ids)
      [] action = "START_SPOT_MOW"   -> IF ids = {} THEN <<>> ELSE Routed("103", ids)
      [] action = "GO_TO_POINT"      -> Routed("109", ids)
      [] action = "SET_ACTIVE_MAP"   -> Routed("200", ids)
      [] action = "FIND_BOT"         -> Routed("9", {})
      [] action = "GENERATE_3D_MAP"  -> Routed("10", {0})
      [] action = "SUPPRESS_FAULT"   -> Routed("11", {})
      [] action = "LOCK_BOT"         -> Routed("12", {})
      [] action = "PAUSE"            -> Direct("5.4")
      [] action \in {"DOCK", "RECHARGE"} -> Direct("5.3")
      [] action = "STOP"             -> Direct("5.2")
      [] action = "REQUEST_WIFI_MAP" -> Direct("6.4")
      [] OTHER -> <<>>      \* FINALIZE_SESSION stays here: SessionLifecycle

Send(who, requests) == sent' = requests /\ by' = who /\ UNCHANGED <<table, belief>>
Dispatch(who, action, ids) == Send(who, Request(action, ids)) /\ UNCHANGED data

(***************************************************************************)
(* Who gives commands.                                                     *)
(***************************************************************************)

\* The start button; the entity starts every perimeter in edge mode.
Start(who) ==
    CASE data.mode = "all_areas" -> Dispatch(who, "START_MOWING", {})
      [] data.mode = "edge" ->
            Dispatch(who, "START_EDGE_MOW", IF who = "entity" THEN {} ELSE data.contours)
      [] data.mode = "zone" -> data.zones # <<>> /\ Dispatch(who, "START_ZONE_MOW", ToSet(data.zones))
      [] data.mode = "spot" -> data.spots # <<>> /\ Dispatch(who, "START_SPOT_MOW", ToSet(data.spots))

\* _ensure_active_map and the command itself, of the mowing-mode select and
\* of start_go_to_point.
OnMap(who, m, action, ids) ==
    /\ Send(who, (IF belief \in {None, m} THEN <<>> ELSE Request("SET_ACTIVE_MAP", {m}))
                    \o Request(action, ids))
    /\ UNCHANGED data

MowingMode(m) ==
    \/ OnMap("mode select", m, "START_MOWING", {})
    \/ OnMap("mode select", m, "START_EDGE_MOW", {})
    \/ m = Home /\ \E z \in ToSet(table.zones) : OnMap("mode select", m, "START_ZONE_MOW", {z})
    \/ m = Home /\ \E s \in ToSet(table.spots) : OnMap("mode select", m, "START_SPOT_MOW", {s})

HeadToPoint(m) ==
    /\ data.point # None /\ data.point[1] = m
    /\ OnMap("point button", m, "GO_TO_POINT", {data.point[2]})

\* The services.  mow_zone selects before it dispatches, and does so with no
\* zone, too; the pickers may select another zone than the one that is mown.
MowZone(zs) ==
    /\ data' = Settled([data EXCEPT !.mode = "zone", !.zones = zs], table)
    /\ Send("service", Request("START_ZONE_MOW", ToSet(zs)))

MowSpot(ss) ==
    /\ ss # <<>>
    /\ data' = Settled([data EXCEPT !.mode = "spot", !.spots = ss], table)
    /\ Send("service", Request("START_SPOT_MOW", ToSet(ss)))

MowEdge(contours) == Dispatch("service", "START_EDGE_MOW", contours)

\* A button is there only when the activity that is shown allows it.
Available(action, activity, charging) ==
    CASE action = "PAUSE" -> activity \in {"mowing", "fast_mapping"}
      [] action = "STOP" -> activity \in {"mowing", "fast_mapping", "paused", "returning"}
      [] action = "RECHARGE" -> activity # "returning" /\ ~charging
      [] OTHER -> TRUE

Press(action) ==
    /\ \E activity \in {"idle", "mowing", "fast_mapping", "paused", "returning"},
          charging \in BOOLEAN : Available(action, activity, charging)
    /\ Dispatch("button", action, {})

Simple(action) == Dispatch("service", action, {})

\* LOCK_BOT_TOGGLE writes the key CLS; the write is accepted (see Writes).
ToggleLock ==
    LET locked == data.lock # TRUE
    IN  /\ data' = Settled([data EXCEPT !.lock = locked], table)
        /\ Send("service", Routed("CLS", {locked}))

CommandsInit ==
    /\ data = Nothing /\ table = Empty /\ belief = None
    /\ sent = <<>> /\ by = None /\ commands = 0

Modes == {"all_areas", "edge", "zone", "spot"}
GivenIds == {<<>>, <<1>>, <<2>>, <<2, 1>>}

CommandsNext ==
    /\ commands < MaxCommands /\ commands' = commands + 1
    /\ \/ \E t \in Tables : MapArrives(t) \/ Restart(t)
       \/ \E m \in {None, Home, Away} : Believe(m)
       \/ \E m \in Modes : PickMode(m)
       \/ \E z \in ToSet(table.zones) : PickZone(z)
       \/ \E s \in ToSet(table.spots) : PickSpot(s)
       \/ \E label \in Labels(table) : PickEdge(label)
       \/ \E p \in table.points \cup {None} : PickPoint(p)
       \/ \E zs, ss \in GivenIds : SetActiveSelection(zs, ss)
       \/ \E on \in BOOLEAN : ReadLock(on)
       \/ \E who \in {"button", "entity"} : Start(who)
       \/ \E m \in {Home, Away} : MowingMode(m) \/ HeadToPoint(m)
       \/ \E zs \in GivenIds : MowZone(zs) \/ MowSpot(zs)
       \/ \E contours \in {{}, {<<1, 1>>}} : MowEdge(contours)
       \/ \E a \in {"PAUSE", "STOP", "RECHARGE", "FIND_BOT", "LOCK_BOT", "GENERATE_3D_MAP",
                    "FINALIZE_SESSION"} : Press(a)
       \/ \E a \in {"RECHARGE", "FIND_BOT", "SUPPRESS_FAULT", "FINALIZE_SESSION", "DOCK"} : Simple(a)
       \/ ToggleLock

CommandsSpec == CommandsInit /\ [][CommandsNext]_commandsVars

(***************************************************************************)
(* Properties.                                                             *)
(***************************************************************************)

\* No mow of zones, spots or edges is asked for without a target, which the
\* mower takes for every contour, and none but a service that names one makes
\* it trace a seam inside the lawn (_edge_mow_payload: such a run ended in
\* "Failed to return to station").  What the start button sends is on the map as
\* it was last refreshed, also after the map was drawn anew, switched or lost,
\* after a service chose something else, and after a restart ("what is shown is
\* what the next Start will actually mow", _select_base.py): the first of the zones
\* and spots, which the picker shows, and all of the contours.
TargetsAreOnMap ==
    /\ \A i \in DOMAIN sent :
          /\ sent[i].op \in {"101", "102", "103", "109", "200"} => sent[i].target # {}
          /\ sent[i].op = "101" /\ by # "service" => \A c \in sent[i].target : c[2] = 0
    /\ by = "button" /\ sent # <<>> =>
          /\ sent[1].op = "101" /\ Outers(table) # {} => sent[1].target \subseteq Outers(table)
          /\ sent[1].op = "102" /\ table.zones # <<>> => sent[1].target \cap ToSet(table.zones) # {}
          /\ sent[1].op = "103" /\ table.spots # <<>> => sent[1].target \cap ToSet(table.spots) # {}
=============================================================================
