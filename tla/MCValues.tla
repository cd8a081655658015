------------------------------ MODULE MCValues ------------------------------
(* Components that share at most MowerState: a behaviour is one of one of   *)
(* them, and the others rest in their initial states.                       *)
EXTENDS Controls, MapSettings, Commands, Frames, Tracks, Scans, CloudMaps, Schedules

VARIABLE part

AllParts == {"controls", "mapSettings", "commands", "frames", "points", "samples", "scans", "cloudMaps", "schedules"}

Init ==
    /\ part \in AllParts
    /\ ControlsInit /\ (part # "controls" => key = "CLS")
    /\ MapSettingsInit /\ (part # "mapSettings" => active = 0)
    /\ CommandsInit
    /\ FramesInit
    /\ TracksInit /\ (part \notin {"points", "samples"} => entity[1][2] = None)
    /\ ScansInit /\ (part # "scans" => caps["retention"] = 0 /\ caps["size"] = 0)
    /\ CloudMapsInit
    /\ SchedulesInit

\* The points and the samples of a session meet in nothing.
TracksPart == \/ Session
              \/ part = "points" /\ Points
              \/ part = "samples" /\ Samples

Next ==
    /\ UNCHANGED part
    /\ \/ /\ part = "controls" /\ ControlsNext
          /\ UNCHANGED <<mapSettings, commandsVars, framesVars, tracks, scans, cloudMaps, schedules>>
       \/ /\ part = "mapSettings" /\ MapSettingsNext
          /\ UNCHANGED <<controls, commandsVars, framesVars, tracks, scans, cloudMaps, schedules>>
       \/ /\ part = "commands" /\ CommandsNext
          /\ UNCHANGED <<controls, mapSettings, framesVars, tracks, scans, cloudMaps, schedules>>
       \/ /\ part = "frames" /\ FramesNext
          /\ UNCHANGED <<controls, mapSettings, commandsVars, tracks, scans, cloudMaps, schedules>>
       \/ /\ part \in {"points", "samples"} /\ TracksPart
          /\ UNCHANGED <<controls, mapSettings, commandsVars, framesVars, scans, cloudMaps, schedules>>
       \/ /\ part = "scans" /\ ScansNext
          /\ UNCHANGED <<controls, mapSettings, commandsVars, framesVars, tracks, cloudMaps, schedules>>
       \/ /\ part = "cloudMaps" /\ CloudMapsNext
          /\ UNCHANGED <<controls, mapSettings, commandsVars, framesVars, tracks, scans, schedules>>
       \/ /\ part = "schedules" /\ SchedulesNext
          /\ UNCHANGED <<controls, mapSettings, commandsVars, framesVars, tracks, scans, cloudMaps>>

TheTables ==
    {Empty,
     [zones |-> <<1>>, spots |-> <<1>>, contours |-> {<<1, 0>>, <<1, 1>>}, points |-> {1}],
     [zones |-> <<1, 2>>, spots |-> <<>>, contours |-> {<<1, 0>>, <<2, 0>>, <<2, 1>>}, points |-> {2}],
     [zones |-> <<2>>, spots |-> <<2>>, contours |-> {<<2, 0>>}, points |-> {}]}

\* At the dock, beyond it on both sides, and at the ends of the 20 bits.
ThePoses == {[x |-> 0, y |-> 0], [x |-> 4, y |-> -3], [x |-> -524288, y |-> -4097]}

TheScans == <<2, 1>>

\* A lawn drawn in the app: triangles for its zones and contours, and planks for
\* its areas, longer than the lawn is wide.
Pt(x, y) == [x |-> x, y |-> y]
Entry(form, k, path) == [form |-> form, key |-> k, path |-> path, angle |-> None]
Turned(form, k, path, angle) == [Entry(form, k, path) EXCEPT !.angle = angle]
Square(a, b) == [x1 |-> a, y1 |-> a, x2 |-> b, y2 |-> b]
Triangle(x) == <<Pt(x, 0), Pt(x + 100, 0), Pt(x, 100)>>
Plank == <<Pt(-400, 100), Pt(400, 100), Pt(400, 300), Pt(-400, 300)>>
Bare == [boundary |-> Square(-200, 200), forbiddenAreas |-> <<>>, notObsAreas |-> <<>>,
         spotAreas |-> <<>>, mowingAreas |-> <<>>, contours |-> <<>>, cleanPoints |-> <<>>, paths |-> <<>>]
TheDrafts ==
    {Bare, [Bare EXCEPT !.boundary = Malformed], [Bare EXCEPT !.boundary = Square(0, 0)],
     [Bare EXCEPT !.boundary = Square(-100, 300)],
     [Bare EXCEPT !.boundary = Square(-220, 220)],
     [Bare EXCEPT !.mowingAreas = <<Entry("pair", 1, Triangle(0)), Entry("pair", 63, Triangle(20)),
                                    Entry("pair", 2, Triangle(40))>>,
                  !.contours = <<Entry("pair", <<1, 0>>, Triangle(0)), Entry("pair", <<1, 1>>, <<Pt(9, 9)>>),
                                 Entry("pair", <<2, 0>>, Triangle(40))>>,
                  !.forbiddenAreas = <<Turned("pair", 1, Plank, 90)>>],
     [Bare EXCEPT !.mowingAreas = <<Entry("dict", None, Triangle(0)), Entry("other", None, <<>>),
                                    Entry("pair", Malformed, Triangle(60))>>,
                  !.contours = <<Entry("dict", None, Triangle(0)), Entry("other", None, <<>>),
                                 Entry("pair", Malformed, Triangle(20))>>,
                  !.notObsAreas = <<Entry("dict", None, Triangle(300))>>,
                  !.spotAreas = <<Turned("pair", 4, Plank, 180), Entry("pair", Malformed, <<Malformed>>)>>,
                  !.cleanPoints = <<Entry("pair", Malformed, <<Pt(5, 5)>>), Entry("pair", 7, <<Malformed>>),
                                    Entry("pair", 9, <<Pt(8, 8)>>)>>,
                  !.paths = <<Entry("pair", 1, <<Pt(0, 0), Malformed>>), Entry("pair", Malformed, <<Pt(0, 0)>>),
                              Entry("pair", 2, <<Malformed>>)>>],
     [Bare EXCEPT !.forbiddenAreas = <<Entry("pair", 1, <<Malformed>>)>>, !.paths = Malformed],
     [Bare EXCEPT !.paths = Malformed,
                  !.spotAreas = <<Entry("dict", None, <<Pt(0, 350), Malformed, Pt(40, 350), Pt(40, 390)>>)>>]}

\* What the app writes: two zones at one time on two days, a plan of two days; an
\* edge plan and two chunks; a record of a later firmware, and an entry without id.
PlanEntry(id, mode, name, records) == [id |-> id, mode |-> mode, name |-> name, blob |-> records]
ZoneMon == <<170, 8, 17, 224, 17, 0, 1, 237>>
ZoneTue == <<170, 8, 33, 224, 17, 0, 2, 237>>
AreaMon == <<170, 7, 16, 26, 4, 0, 237>>
AreaWed == <<170, 7, 48, 26, 4, 0, 237>>
EdgeFri == <<170, 9, 82, 224, 33, 0, 1, 0, 237>>
Later == <<170, 10, 83, 224, 49, 0, 1, 0, 0, 237>>
Spring == <<"Spr", Escaped, "Sum">>
Autumn(records) == PlanEntry(1, 0, <<>>, records)
TheTexts == {
    [v |-> 3, entries |-> <<PlanEntry(0, 1, Spring, <<ZoneMon, AreaMon, ZoneTue, AreaWed>>), Autumn(<<>>)>>],
    [v |-> 4, entries |-> <<PlanEntry(0, 1, Spring, <<ZoneMon, AreaMon>>),
                            Autumn(<<AreaMon, AreaWed, EdgeFri>>)>>],
    [v |-> 5, entries |-> <<PlanEntry(None, 1, Spring, <<AreaMon>>), PlanEntry(0, None, Spring, <<ZoneMon, Later>>)>>]}
EnteredPlan(t, days, a, z) == [time |-> t, days |-> days, action |-> a, zone |-> z, extra |-> <<>>]
ThePlans == {EnteredPlan(478, {1, 3}, 0, None), EnteredPlan(480, {3}, 1, 2), EnteredPlan(1439, {1}, 0, 5),
             EnteredPlan(256, {7}, 2, 1)}
TheCalls == {[id |-> 0, plans |-> <<[EnteredPlan(256, {7}, 2, 1) EXCEPT !.extra = <<9>>],
                                    EnteredPlan(256, {6, 7}, 1, 300)>>],
             [id |-> 2, plans |-> <<EnteredPlan(0, {1}, 0, None)>>], [id |-> 2, plans |-> <<>>]}
=============================================================================
