-------------------------------- MODULE WorkLog --------------------------------
(***************************************************************************)
(* The work log: the select of the archived sessions, and the replay of    *)
(* one of them that the work-log camera and the session card show          *)
(* (coordinator/_session.py, select_global.py, number.py).  A replay is    *)
(* asked for with the select, by a service, or again by the slider of the  *)
(* trail's width; it awaits the executor five times, and nothing keeps two *)
(* of them apart.                                                          *)
(*                                                                         *)
(* A log is an archived session: its end, which is its file too, the map,  *)
(* the minute it began in, its md5, whether its body can be parsed, and    *)
(* whether the cloud told zones of that time.                              *)
(***************************************************************************)
EXTENDS Integers, FiniteSets, PythonValues

CONSTANTS Replays,     \* coroutines that may be under way at once
          Logs,        \* sessions that may be archived
          MaxOptions,  \* DreameA2WorkLogSelect._max_options
          Widths,      \* of the trail
          MaxRequests, \* bound: replays asked for, and clearings
          MaxTurns     \* bound: changes of the archive and of the maps

VARIABLES logs,        \* SessionArchive._index, and the files
          loadedMaps,  \* cloud_state.maps_by_id
          choices,      \* _label_to_filename of the select
          option,      \* its current option
          width,       \* data.trail_render_width
          picture,     \* _work_log_png: the log, the map, the zones and the width
          backdrop,    \* _work_log_base_png
          card,        \* _picked_session_summary: the log, and the map of its projection
          token,       \* what the camera showed at the last broadcast
          replays,
          trust,       \* history: what the last request has left, see Ended
          requests, turns

logOutside == <<logs, loadedMaps>>
logShown == <<option, picture, backdrop, card>>
workLog == <<logOutside, logShown, choices, width, token, replays, trust, requests, turns>>

Placeholder == [map |-> None, at |-> None, tag |-> None]
ActiveMap == 0            \* _active_map_id

NoReplay == [by |-> None, pc |-> "idle", option |-> None, key |-> None,
             log |-> None, map |-> None, width |-> None, alone |-> TRUE]
AtRest(r) == replays[r].pc = "idle"
NoneUnderWay == \A r \in Replays : AtRest(r)
Disturbed(r) == IF AtRest(r) THEN NoReplay ELSE [replays[r] EXCEPT !.alone = FALSE]
Advance(r, replay) == replays' = [replays EXCEPT ![r] = replay]

(***************************************************************************)
(* The select.                                                             *)
(***************************************************************************)

\* Kind, area and minutes of a session go with the minute it began in.
FormatSessionLabel(log) == [map |-> log.map, at |-> log.at, tag |-> None]

Newer(archived, log) == {l \in archived : l.end > log.end}

\* Sessions of one label: all but the newest get the head of their md5.
LabelAmong(archived, log) ==
    IF \E l \in Newer(archived, log) : FormatSessionLabel(l) = FormatSessionLabel(log)
    THEN [FormatSessionLabel(log) EXCEPT !.tag = log.md5]
    ELSE FormatSessionLabel(log)

\* The newest sessions by label; of two with one md5 and label the older stays.
BuildOptions(archived) ==
    LET eligible == {l \in archived : Cardinality(Newer(archived, l)) < MaxOptions}
    IN  [label \in {LabelAmong(eligible, l) : l \in eligible} |->
            (CHOOSE l \in eligible :
                /\ LabelAmong(eligible, l) = label
                /\ \A m \in eligible : LabelAmong(eligible, m) = label => m.end >= l.end).end]

\* _handle_coordinator_update: the options are choices again with a broadcast.
RefreshOptions ==
    /\ choices # BuildOptions(logs)
    /\ choices' = BuildOptions(logs)
    /\ UNCHANGED <<logOutside, logShown, width, token, replays, trust, requests, turns>>

(***************************************************************************)
(* Requests.                                                               *)
(***************************************************************************)

\* A request that finds another under way spoils both.
Ask(r, by) ==
    /\ requests < MaxRequests /\ requests' = requests + 1
    /\ AtRest(r)
    /\ replays' = [s \in Replays |->
           IF s = r THEN [by EXCEPT !.alone = NoneUnderWay] ELSE Disturbed(s)]

Pick(r, label) ==
    /\ Ask(r, [NoReplay EXCEPT !.by = "select", !.pc = "options", !.option = label])
    /\ UNCHANGED <<logOutside, logShown, choices, width, token, trust, turns>>

\* The service takes an md5, or a file.
ReplaySession(r, key) ==
    /\ Ask(r, [NoReplay EXCEPT !.by = "service", !.pc = "find", !.key = key])
    /\ UNCHANGED <<logOutside, logShown, choices, width, token, trust, turns>>

\* The slider draws the main view first.
SetWidth(r, w) ==
    /\ w # width /\ width' = w
    /\ Ask(r, [NoReplay EXCEPT !.by = "slider", !.pc = "main"])
    /\ UNCHANGED <<logOutside, logShown, choices, token, trust, turns>>

\* The active map's base, while nothing is replayed.
ResolvePng(png) == IF png # None THEN png ELSE "base"

PickPlaceholder ==
    /\ option # Placeholder \/ picture # None
    /\ requests < MaxRequests /\ requests' = requests + 1
    /\ picture' = None /\ backdrop' = None /\ card' = None
    /\ option' = Placeholder
    /\ token' = ResolvePng(None)
    /\ trust' = IF NoneUnderWay THEN "select" ELSE "none"
    /\ replays' = [s \in Replays |-> Disturbed(s)]
    /\ UNCHANGED <<logOutside, choices, width, turns>>

(***************************************************************************)
(* A replay.                                                               *)
(***************************************************************************)

\* It is over.  What is shown can be trusted to belong together ("shown"), and
\* to be what the select says ("select"), if it ran alone to its end.
Ended(r, complete) ==
    /\ Advance(r, NoReplay)
    /\ trust' = IF ~complete \/ ~replays[r].alone THEN "none"
                ELSE CASE replays[r].by = "select"  -> "select"
                       [] replays[r].by = "service" -> "shown"
                       [] OTHER                     -> trust
    /\ option' = IF replays[r].by = "select" THEN replays[r].option ELSE option
    /\ token' = IF complete \/ replays[r].by = "slider" THEN ResolvePng(picture) ELSE token

\* async_select_option: an option that is gone is ignored.
OptionsListed(r) ==
    /\ replays[r].pc = "options"
    /\ choices' = BuildOptions(logs)
    /\ Advance(r, IF replays[r].option \in DOMAIN choices'
                  THEN [replays[r] EXCEPT !.pc = "find", !.key = choices'[replays[r].option]]
                  ELSE NoReplay)
    /\ UNCHANGED <<logOutside, logShown, width, token, trust, requests, turns>>

\* Faulty: the slider leaves the replay as it is.
MainDrawnOnly(r) ==
    /\ replays[r].pc = "main"
    /\ Ended(r, TRUE)
    /\ UNCHANGED <<logOutside, picture, backdrop, card, choices, width, requests, turns>>

MainDrawn(r) ==
    /\ replays[r].pc = "main"
    /\ IF card = None
       THEN Ended(r, TRUE)
       ELSE /\ Advance(r, [replays[r] EXCEPT !.pc = "find", !.key = card.log.end])
            /\ UNCHANGED <<option, token, trust>>
    /\ UNCHANGED <<logOutside, picture, backdrop, card, choices, width, requests, turns>>

\* By its file, or the newest of its md5.
EntryOf(key) ==
    LET files == {l \in logs : l.end = key}
        twins == {l \in logs : l.md5 = key}
    IN  IF files # {} THEN CHOOSE l \in files : TRUE
        ELSE IF twins # {} THEN CHOOSE l \in twins : Newer(twins, l) = {}
        ELSE None

EntryFound(r) ==
    /\ replays[r].pc = "find"
    /\ IF EntryOf(replays[r].key) = None
       THEN Ended(r, FALSE)
       ELSE /\ Advance(r, [replays[r] EXCEPT !.pc = "load", !.log = EntryOf(replays[r].key)])
            /\ UNCHANGED <<option, token, trust>>
    /\ UNCHANGED <<logOutside, picture, backdrop, card, choices, width, requests, turns>>

\* The map the session was on, else the active one, else any.
ReplayMap(log) ==
    LET wanted == IF log.map = -1 THEN ActiveMap ELSE log.map
    IN  IF wanted \in loadedMaps THEN wanted
        ELSE CHOOSE m \in loadedMaps : \A n \in loadedMaps : m <= n

\* The file was read.  With no map at all the cloud is asked, whose answer is
\* never taken for a map.
BodyRead(r) ==
    LET log == replays[r].log
    IN  /\ replays[r].pc = "load"
        /\ IF log \notin logs \/ ~log.parses \/ loadedMaps = {}
           THEN Ended(r, FALSE) /\ UNCHANGED card
           ELSE /\ card' \in {[log |-> log, map |-> ReplayMap(log)], None}
                /\ Advance(r, [replays[r] EXCEPT !.pc = "draw", !.map = ReplayMap(log), !.width = width])
                /\ UNCHANGED <<option, token, trust>>
        /\ UNCHANGED <<logOutside, picture, backdrop, choices, width, requests, turns>>

\* Zones of that time, or today's if there were none.
ApplySessionGeometry(log, map) == IF log.zones THEN log ELSE map

Drawing(replay) == [log |-> replay.log, map |-> replay.map,
                    zones |-> ApplySessionGeometry(replay.log, replay.map)]

TrailDrawn(r) ==
    /\ replays[r].pc = "draw"
    /\ \/ /\ picture' = [of |-> Drawing(replays[r]), width |-> replays[r].width]
          /\ Advance(r, [replays[r] EXCEPT !.pc = "base"])
          /\ UNCHANGED <<option, token, trust>>
       \/ Ended(r, FALSE) /\ UNCHANGED picture
    /\ UNCHANGED <<logOutside, backdrop, card, choices, width, requests, turns>>

\* The same without the trail, for the animation of the card.
BackdropDrawn(r) ==
    /\ replays[r].pc = "base"
    /\ backdrop' \in {Drawing(replays[r]), None}
    /\ Ended(r, TRUE)
    /\ UNCHANGED <<logOutside, picture, card, choices, width, requests, turns>>

\* A file and an md5 name different things, and a session began at some time.
ASSUME WorkLogAssumption ==
    /\ None \notin {"select", "service", "slider"}
    /\ \A l \in Logs : l.end \in Nat /\ l.at # None
    /\ \A l, k \in Logs : (l.end = k.end => l = k) /\ l.end # k.md5
    /\ \A l \in Logs, m \in {0, 1}, w \in Widths :
          LET of == [log |-> l, map |-> m, zones |-> ApplySessionGeometry(l, m)]
          IN  None \notin {[log |-> l, map |-> m]} /\ None \notin {[of |-> of, width |-> w]}

(***************************************************************************)
(* The archive and the maps.                                               *)
(***************************************************************************)

\* A session is archived; one is pruned, or superseded by its summary.
ArchiveTurns ==
    /\ turns < MaxTurns /\ turns' = turns + 1
    /\ \/ \E l \in Logs \ logs : Newer(logs, l) = {} /\ logs' = logs \cup {l}
       \/ \E l \in logs : logs' = logs \ {l}
    /\ UNCHANGED <<loadedMaps, logShown, choices, width, token, replays, trust, requests>>

MapsTurn ==
    /\ turns < MaxTurns /\ turns' = turns + 1
    /\ loadedMaps' \in {{0, 1}, {1}} \ {loadedMaps}
    /\ UNCHANGED <<logs, logShown, choices, width, token, replays, trust, requests>>

WorkLogInit ==
    /\ logs \in SUBSET Logs /\ loadedMaps \in SUBSET {0, 1} /\ width \in Widths
    /\ choices = [l \in {} |-> 0]
    /\ option = Placeholder
    /\ picture = None /\ backdrop = None /\ card = None
    /\ token = ResolvePng(None)
    /\ replays = [r \in Replays |-> NoReplay] /\ trust = "select"
    /\ requests = 0 /\ turns = 0

WorkLogNext ==
    \/ RefreshOptions \/ PickPlaceholder \/ ArchiveTurns \/ MapsTurn
    \/ \E r \in Replays :
           \/ \E label \in DOMAIN choices : Pick(r, label)
           \/ \E l \in Logs : ReplaySession(r, l.md5)
           \/ \E w \in Widths : SetWidth(r, w)
           \/ OptionsListed(r) \/ MainDrawn(r) \/ EntryFound(r) \/ BodyRead(r) \/ TrailDrawn(r) \/ BackdropDrawn(r)

WorkLogSpec == WorkLogInit /\ [][WorkLogNext]_workLog

(***************************************************************************)
(* Properties.                                                             *)
(***************************************************************************)

\* When the last request ran alone to its end, the picture, its base and the
\* card are of one session on one map, whatever was archived, pruned or loaded
\* in between, the picture has the width that is set, the camera shows it, and
\* the select names that session, or nothing is replayed under the placeholder
\* (render_work_log_session, async_select_option, async_set_native_value).
ReplayIsOfPick ==
    NoneUnderWay /\ trust # "none" =>
        /\ token = ResolvePng(picture)
        /\ picture = None => backdrop = None /\ card = None
        /\ picture # None => backdrop \in {picture.of, None}
        /\ card # None =>
              /\ [log |-> picture.of.log, map |-> picture.of.map] = card
              /\ picture.width = width
        /\ trust = "select" =>
              IF option = Placeholder THEN picture = None
              ELSE picture # None /\ FormatSessionLabel(picture.of.log) = [option EXCEPT !.tag = None]
=============================================================================
