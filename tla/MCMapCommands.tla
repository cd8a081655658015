----------------------------- MODULE MCMapCommands -----------------------------
(* Instances of ActiveMap and of the pickers on top of it.  A behaviour is one *)
(* of the commands, two coroutines of each kind on two maps, while no picker   *)
(* is there; or one of the pickers of three maps, of which the app alone       *)
(* switches, with one fetch: two maps with the same zone ids in different      *)
(* orders, and a map without zones.                                            *)
EXTENDS MapCommands
CONSTANTS c1, c2, f1, f2

SameZones == [m \in {0, 1, 2} |-> IF m = 2 THEN <<>> ELSE <<m + 1, 2 - m>>]
ZonelessMap == 2

VARIABLE part

Init == PickersInit /\ part \in {"commands", "pickers"}
        /\ (part = "commands" => mowerMap # ZonelessMap)

OfTwoMaps == mowerMap # ZonelessMap /\ \A c \in Calls : call[c] = NoCall \/ call[c].map # ZonelessMap
Command(A) == part = "commands" /\ A /\ OfTwoMaps' /\ UNCHANGED <<pickers, part>>
Picker == part = "pickers" /\ PickersNext /\ starts' = 0 /\ fetch'[f2] = None /\ UNCHANGED part

Next == Command(ActiveMapNext) \/ Picker

vars == <<pickersVars, part>>
Spec == Init /\ [][Next]_vars /\ (part = "commands" => ActiveMapFairness)

\* Whatever is lost, refused, overtaken or selected twice, the active-map select
\* shows in the end the map that is active on the mower.
SelectConverges == part = "commands" => ShownMapConverges
===============================================================================
