-------------------------------- MODULE Pictures --------------------------------
(***************************************************************************)
(* The pictures of the lawns (coordinator/_rendering.py, _cloud_state.py): *)
(* one static picture of each map, the main view of the active map with    *)
(* the trail, the mower and the obstacles of its last session, and its     *)
(* base.  A refresh draws them all; pushes, a new active map and the       *)
(* options draw the main view again.  A drawing is a task of the event     *)
(* loop that awaits the executor, and nothing keeps two of them apart.     *)
(*                                                                         *)
(* A lot is a map as it is in the cloud: its `print`, which the md5 is     *)
(* made from, and the `rest`.  A picture is what was drawn on it.          *)
(***************************************************************************)
EXTENDS Integers, FiniteSets, PythonValues

CONSTANTS Tasks,         \* drawings that may be under way at once
          Lots,          \* what a map may be: [print, rest]
          MaxSessions,   \* bound: sessions archived of a map
          MaxEvents      \* bound: events that do not come from a task

\* The bound is one, and a map with a picture is not Python's None.
ASSUME PicturesAssumption ==
    /\ MaxSessions \in Nat
    /\ \A m \in {0, 1}, lot \in Lots : [map |-> m, lot |-> lot] # None

VARIABLES cloudLots,     \* the maps as the cloud has them
          mowerMap,      \* the map the mower is on
          scene,         \* the mower, and the options of the picture
          sessions,      \* of each map, how many sessions are archived
          indexLoaded,   \* SessionArchive._index_loaded
          held,          \* cloud_state.maps_by_id
          activeMap,     \* _active_map_id
          obstacles,     \* _last_session_obstacles_by_map
          pictures,      \* _static_map_pngs_by_id
          mainView,      \* _main_view_png
          base,          \* _active_map_base_png, and what its md5 is of
          seen,          \* the main view as the camera last saw it
          tasks,
          calm,          \* history: since a refresh that began when no task was
                         \* under way: "refreshing" while it is, "refreshed" after
                         \* it, and "no" once anything else happened
          events

outside == <<cloudLots, mowerMap, scene, sessions, indexLoaded>>
cache == <<held, activeMap, obstacles, pictures, base>>
picturesVars == <<outside, cache, mainView, seen, tasks, calm, events>>

TheMaps == {0, 1}
NoMaps == [m \in {} |-> 0]
SceneModes == {"zone", "edge"}     \* as all_areas and zone, and as edge and spot
NoTask == [kind |-> None, pc |-> "idle", todo |-> NoMaps, picture |-> None]
Begun(kind, pc) == [NoTask EXCEPT !.kind = kind, !.pc = pc]

(***************************************************************************)
(* What a main view shows.                                                 *)
(***************************************************************************)
Live(s) == s.phase \in {"mowing", "cruising"}            \* live_map.is_active()

\* The preview of the next mow has no trail and no obstacles; it is drawn when
\* no session is under way and the mower does not look for its position.
ViewOf(p) ==
    IF p.scene.phase = "idle"
    THEN [map |-> p.map, lot |-> p.lot, kind |-> p.scene.mode, at |-> p.scene.at,
          trail |-> 0, obstacles |-> None, width |-> None]
    ELSE [map |-> p.map, lot |-> p.lot, kind |-> "trail", at |-> p.scene.at,
          trail |-> IF Live(p.scene) THEN p.scene.points ELSE 0,
          obstacles |-> p.obstacles, width |-> p.width]

(***************************************************************************)
(* The tasks.                                                              *)
(***************************************************************************)
Free(t) == tasks[t].pc = "idle"
AllFree == \A t \in Tasks : Free(t)
Becomes(t, task) == tasks' = [tasks EXCEPT ![t] = task]

\* A task is done: what a refresh and a change of the options broadcast.
Done(t, view) ==
    /\ Becomes(t, NoTask)
    /\ seen' = IF tasks[t].kind \in {"refresh", "option"} THEN view ELSE seen
    /\ calm' = IF tasks[t].kind = "refresh" /\ calm = "refreshing" THEN "refreshed" ELSE calm

\* _render_active_map_base draws if the md5 is another one.
BaseIsStale(b) ==
    /\ activeMap \in DOMAIN held
    /\ b = None \/ b.lot.print # held[activeMap].print

StartRefresh(t) ==
    /\ Free(t)
    /\ Becomes(t, Begun("refresh", "fetch"))
    /\ calm' = IF AllFree THEN "refreshing" ELSE "no"
    /\ UNCHANGED <<outside, cache, mainView, seen, events>>

\* The fetch raises or has no answer.
FetchFails(t) ==
    /\ tasks[t].pc = "fetch"
    /\ Becomes(t, NoTask) /\ calm' = "no"
    /\ UNCHANGED <<outside, cache, mainView, seen, events>>

\* _apply_mapl: an active map that changes is drawn by a task of its own, and
\* broadcast before it is.
ApplyMapl(others, task) ==
    IF mowerMap = activeMap
    THEN UNCHANGED <<activeMap, seen>> /\ tasks' = task
    ELSE /\ activeMap' = mowerMap /\ seen' = mainView
         /\ \E s \in others : Free(s) /\ tasks' = [task EXCEPT ![s] = Begun("view", "main")]

\* _refresh_cloud_state, from the answer on: it may have no maps.
Fetched(t) ==
    /\ tasks[t].pc = "fetch"
    /\ \E answer \in {cloudLots, NoMaps} :
           /\ held' = answer
           /\ ApplyMapl(Tasks \ {t}, [tasks EXCEPT ![t].pc = "statics", ![t].todo = answer])
           /\ calm' = IF answer = cloudLots THEN calm ELSE "no"
    /\ UNCHANGED <<outside, obstacles, pictures, base, mainView, events>>

\* The loop of _render_maps_from_cloud_state over the maps the refresh fetched:
\* a map with the md5 of its picture is not drawn.
DrawStatics(t) ==
    /\ tasks[t].pc = "statics"
    /\ LET todo == tasks[t].todo
       IN  IF todo = NoMaps THEN UNCHANGED pictures /\ tasks' = [tasks EXCEPT ![t].pc = "main"]
           ELSE \E m \in DOMAIN todo :
                    /\ tasks' = [tasks EXCEPT ![t].todo = [k \in DOMAIN todo \ {m} |-> todo[k]]]
                    /\ pictures' = IF m \in DOMAIN pictures /\ pictures[m].print = todo[m].print THEN pictures
                                   ELSE [k \in DOMAIN pictures \cup {m} |-> IF k = m THEN todo[m] ELSE pictures[k]]
    /\ UNCHANGED <<outside, held, activeMap, obstacles, base, mainView, seen, calm, events>>

\* _rerender_live_trail draws a trail first that nothing keeps.
DrawTrail(t) ==
    /\ tasks[t].pc = "trail"
    /\ IF activeMap \in DOMAIN held /\ Live(scene)
       THEN tasks' = [tasks EXCEPT ![t].pc = "main"] ELSE Becomes(t, NoTask)
    /\ UNCHANGED <<outside, cache, mainView, seen, calm, events>>

\* The width of the trail is read last, before the drawing.
ToDraw(t, p, found) ==
    Becomes(t, [tasks[t] EXCEPT !.pc = "draw",
                                !.picture = [p EXCEPT !.obstacles = found, !.width = scene.width]])
Cached(m, found) == obstacles' = [k \in DOMAIN obstacles \cup {m} |-> IF k = m THEN found ELSE obstacles[k]]
OrNone(found) == IF found = 0 THEN None ELSE found

\* _render_main_view up to its first await: the map, the trail and the mower are
\* read here; the obstacles, if they are not cached, of the newest session.
MainView(t) ==
    /\ tasks[t].pc = "main"
    /\ LET m == activeMap
           p == [map |-> m, lot |-> held[m], scene |-> scene, obstacles |-> None, width |-> None]
       IN  IF m \notin DOMAIN held THEN Done(t, mainView) /\ UNCHANGED obstacles
           ELSE /\ UNCHANGED <<seen, calm>>
                /\ IF scene.phase = "mowing" THEN ToDraw(t, p, None) /\ UNCHANGED obstacles
                   ELSE IF m \in DOMAIN obstacles
                   THEN ToDraw(t, p, OrNone(obstacles[m])) /\ UNCHANGED obstacles
                   ELSE IF ~indexLoaded THEN ToDraw(t, p, None) /\ UNCHANGED obstacles
                   ELSE IF sessions[m] = 0 THEN ToDraw(t, p, None) /\ Cached(m, 0)
                   ELSE /\ Becomes(t, [tasks[t] EXCEPT !.pc = "load", !.picture = [p EXCEPT !.obstacles = sessions[m]]])
                        /\ UNCHANGED obstacles
    /\ UNCHANGED <<outside, held, activeMap, pictures, base, mainView, events>>

\* Faulty: the obstacles are cached for the map that is active by now.
LoadedForActive(t) ==
    /\ tasks[t].pc = "load"
    /\ LET p == tasks[t].picture
       IN  \E found \in {p.obstacles, 0} : Cached(activeMap, found) /\ ToDraw(t, p, OrNone(found))
    /\ UNCHANGED <<outside, held, activeMap, pictures, base, mainView, seen, calm, events>>

\* The session is loaded, or cannot be; 0 is the cached empty list.
Loaded(t) ==
    /\ tasks[t].pc = "load"
    /\ LET p == tasks[t].picture
       IN  \E found \in {p.obstacles, 0} : Cached(p.map, found) /\ ToDraw(t, p, OrNone(found))
    /\ UNCHANGED <<outside, held, activeMap, pictures, base, mainView, seen, calm, events>>

Drawn(t) ==
    /\ tasks[t].pc = "draw"
    /\ mainView' = ViewOf(tasks[t].picture)
    /\ IF BaseIsStale(base)
       THEN /\ tasks' = [tasks EXCEPT ![t].pc = "base", ![t].picture = [map |-> activeMap, lot |-> held[activeMap]]]
            /\ UNCHANGED <<seen, calm>>
       ELSE Done(t, mainView')
    /\ UNCHANGED <<outside, cache, events>>

\* A refresh looks at the md5 once more.
BaseDrawn(t) ==
    /\ tasks[t].pc \in {"base", "base again"}
    /\ base' = tasks[t].picture
    /\ IF tasks[t].kind = "refresh" /\ tasks[t].pc = "base" /\ BaseIsStale(base')
       THEN /\ tasks' = [tasks EXCEPT ![t].pc = "base again", ![t].picture = [map |-> activeMap, lot |-> held[activeMap]]]
            /\ UNCHANGED <<seen, calm>>
       ELSE Done(t, mainView)
    /\ UNCHANGED <<outside, held, activeMap, obstacles, pictures, mainView, events>>

(***************************************************************************)
(* The events.                                                             *)
(***************************************************************************)
Event == events < MaxEvents /\ events' = events + 1 /\ calm' = "no"
Starts(kind, pc) == \E t \in Tasks : Free(t) /\ Becomes(t, Begun(kind, pc))
MayStart(kind, pc) == Starts(kind, pc) \/ UNCHANGED tasks

\* The app draws a map, or the mower is put on another one.
AppEdits ==
    /\ Event
    /\ \/ \E m \in TheMaps, lot \in Lots :
              /\ lot # cloudLots[m] /\ cloudLots' = [cloudLots EXCEPT ![m] = lot]
              /\ UNCHANGED mowerMap
       \/ mowerMap' \in TheMaps \ {mowerMap} /\ UNCHANGED cloudLots
    /\ UNCHANGED <<scene, sessions, indexLoaded, cache, mainView, seen, tasks>>

\* A poll of MAPL.
PollMapl ==
    /\ Event /\ mowerMap # activeMap
    /\ ApplyMapl(Tasks, tasks)
    /\ UNCHANGED <<outside, held, obstacles, pictures, base, mainView>>

\* A push with a position.  While a session is live it adds to the trail, which is
\* drawn at most once a second; between sessions the mower is drawn if it has moved
\* and no drawing was begun within three seconds.  The push is broadcast.
Telemetry ==
    /\ Event /\ seen' = mainView
    /\ scene' = IF Live(scene) THEN [scene EXCEPT !.points = @ + 1] ELSE [scene EXCEPT !.at = 1 - @]
    /\ IF Live(scene) THEN MayStart("view", "trail") ELSE MayStart("view", "main")
    /\ UNCHANGED <<cloudLots, mowerMap, sessions, indexLoaded, cache, mainView>>

\* The mower leaves the dock to find its position, a task is echoed, or a session
\* ends, at the dock or on the lawn.
Leaves(phase, starts) ==
    /\ Event /\ seen' = mainView
    /\ scene' = [scene EXCEPT !.phase = phase, !.points = 0]
    /\ starts
    /\ UNCHANGED <<cloudLots, mowerMap, sessions, indexLoaded, cache, mainView>>
Undock == scene.phase = "idle" /\ Leaves("undocking", Starts("view", "main"))
TaskStarts ==
    /\ ~Live(scene)
    /\ \E phase \in {"mowing", "cruising"} : Leaves(phase, Starts("view", "main"))
SessionEnds == scene.phase # "idle" /\ Leaves("idle", MayStart("view", "main"))

\* A session is archived: from the cloud's summary, which drops the cached obstacles
\* of its map, or from what was recorded, which does not.
ArchiveSession(m, fromCloud) ==
    /\ Event /\ sessions[m] < MaxSessions
    /\ sessions' = [sessions EXCEPT ![m] = @ + 1]
    /\ obstacles' = IF fromCloud THEN [k \in DOMAIN obstacles \ {m} |-> obstacles[k]] ELSE obstacles
    /\ UNCHANGED <<cloudLots, mowerMap, scene, indexLoaded, held, activeMap, pictures, base, mainView, seen, tasks>>

\* The set-up loads the archive and draws the main view.
ArchiveLoads ==
    /\ ~indexLoaded /\ calm' = "no"
    /\ indexLoaded' = TRUE
    /\ Starts("view", "main")
    /\ UNCHANGED <<cloudLots, mowerMap, scene, sessions, cache, mainView, seen, events>>

\* The action mode, or the width of the trail: broadcast, drawn and broadcast again.
SetOption ==
    /\ Event /\ seen' = mainView
    /\ scene' \in {[scene EXCEPT !.mode = m] : m \in SceneModes \ {scene.mode}} \cup {[scene EXCEPT !.width = 1 - @]}
    /\ Starts("option", "main")
    /\ UNCHANGED <<cloudLots, mowerMap, sessions, indexLoaded, cache, mainView>>

PicturesInit ==
    /\ cloudLots \in [TheMaps -> Lots] /\ mowerMap = 0
    /\ scene \in [phase : {"idle", "undocking", "mowing", "cruising"}, points : {0}, at : {0}, mode : {"zone"}, width : {0}]
    /\ sessions \in [TheMaps -> 0 .. MaxSessions] /\ indexLoaded = FALSE
    /\ held = NoMaps /\ activeMap = None /\ obstacles = NoMaps
    /\ pictures = NoMaps /\ mainView = None /\ base = None /\ seen = None
    /\ tasks = [t \in Tasks |-> NoTask] /\ calm = "no" /\ events = 0

PicturesNext ==
    \/ \E t \in Tasks : \/ StartRefresh(t) \/ FetchFails(t) \/ Fetched(t) \/ DrawStatics(t)
                        \/ DrawTrail(t) \/ MainView(t) \/ Loaded(t) \/ Drawn(t) \/ BaseDrawn(t)
    \/ AppEdits \/ PollMapl \/ Telemetry \/ Undock \/ TaskStarts \/ SessionEnds
    \/ \E m \in TheMaps, fromCloud \in BOOLEAN : ArchiveSession(m, fromCloud)
    \/ ArchiveLoads \/ SetOption

PicturesSpec == PicturesInit /\ [][PicturesNext]_picturesVars

(***************************************************************************)
(* Properties.                                                             *)
(***************************************************************************)

\* The main view is of the mower's map as the cloud has it, of the mower as it is,
\* and its obstacles are of a session on that map.
IsTrue(view) ==
    \E n \in {None} \cup 1 .. sessions[mowerMap] :
        view = ViewOf([map |-> mowerMap, lot |-> cloudLots[mowerMap], scene |-> scene, width |-> scene.width,
                       obstacles |-> IF scene.phase = "mowing" THEN None ELSE n])

\* A refresh that nothing disturbs leaves every picture true, whatever was drawn,
\* overtaken or skipped before it, and the camera has the main view: the lot, the
\* trail, the mower and the options are those of now, the base and the pictures of
\* the maps those of now up to their md5 (_refresh_cloud_state, _render_main_view).
PicturesCatchUp ==
    calm = "refreshed" =>
        /\ IsTrue(mainView) /\ IsTrue(seen)
        /\ base.lot.print = cloudLots[mowerMap].print
        /\ \A m \in TheMaps : pictures[m].print = cloudLots[m].print
=============================================================================
