------------------------------- MODULE CloudMaps -------------------------------
(***************************************************************************)
(* The maps of the lawns as the cloud keeps them, their decoding by a      *)
(* refresh (fetch_full_cloud_state and map_decoder.py), and the            *)
(* sub-devices that Home Assistant has for them.                           *)
(*                                                                         *)
(* A map is a record of sections, each a sequence of entries.  An entry is *)
(* a pair of a key and a body, or a body that has its key itself, or       *)
(* something else; a key or a point may be Malformed.  Coordinates are     *)
(* millimetres; angles are quarter turns, and the centre of what is turned *)
(* lies on whole millimetres.                                              *)
(***************************************************************************)
EXTENDS Integers, Sequences, SequencesExt, FiniteSetsExt, PythonValues

CONSTANTS Malformed,     \* what is not of the expected type
          Drafts,        \* what a map may look like in the cloud
          MaxRevisions   \* bound: changes of the maps and refreshes

PointSet == [x : Int, y : Int]
AreaPath(path) == path \in Seq(PointSet \cup {Malformed})
Quarters == {None, 0, 90, 180}

\* Entries of a section, which is a list, with corners of whole millimetres.
Section(entries) ==
    /\ entries \in Seq(ToSet(entries))
    /\ \A e \in ToSet(entries) : AreaPath(e.path) /\ e.angle \in Quarters \cup {Malformed}

\* The box that the app draws has its corners in order.
IsDraft(map) ==
    /\ map.boundary = Malformed \/
           /\ map.boundary \in [x1 : Int, y1 : Int, x2 : Int, y2 : Int]
           /\ map.boundary.x1 <= map.boundary.x2 /\ map.boundary.y1 <= map.boundary.y2
    /\ Section(map.forbiddenAreas) /\ Section(map.notObsAreas) /\ Section(map.spotAreas)
    /\ Section(map.mowingAreas) /\ Section(map.contours)

ASSUME CloudMapsAssumption ==
    /\ None \notin Int /\ Malformed \notin PointSet \cup Quarters
    /\ \A map \in Drafts : IsDraft(map)

VARIABLES lots,       \* in the cloud: of some indices, a map
          seenLots,   \* what the last refresh that held read
          decoded,    \* cloud_state.maps_by_id
          statics,    \* _static_map_pngs_by_id: the maps as they were drawn
          devices,    \* the maps that have a sub-device
          revision

cloudMaps == <<lots, seenLots, decoded, statics, devices, revision>>

GRID_SIZE_MM == 50
CHARGER_OFFSET_MM == 800
Indices == {0, 1}
NoMaps == [m \in {} |-> 0]

(***************************************************************************)
(* Paths.                                                                  *)
(***************************************************************************)
GoodPoints(path) == Filtered(path, ToSet(path) \ {Malformed})
Usable(entries) == Filtered(entries, {e \in ToSet(entries) : e.form # "other" /\ e.path # <<>>})
MapSeq(Op(_), s) == [i \in DOMAIN s |-> Op(s[i])]

Mean(coordinates) == SumFunctionOnSet(coordinates, DOMAIN coordinates) \div Len(coordinates)
Centre(path) ==
    [x |-> Mean(MapSeq(LAMBDA p : p.x, path)), y |-> Mean(MapSeq(LAMBDA p : p.y, path))]

\* _rotate_path_around_centroid, of the negated angle: clockwise.
Rotated(e) ==
    LET path == GoodPoints(e.path)
        c == Centre(path)
        Turn(p) == CASE e.angle \in {None, 0} -> p
                     [] e.angle = 90 -> [x |-> c.x + p.y - c.y, y |-> c.y - p.x + c.x]
                     [] e.angle = 180 -> [x |-> 2 * c.x - p.x, y |-> 2 * c.y - p.y]
    IN  MapSeq(Turn, path)

(***************************************************************************)
(* The sections.                                                           *)
(***************************************************************************)

\* An entry that has no key of its own has the number `default`.
KeyOr(e, default) == IF e.key = None THEN default ELSE e.key
Keyed(e) == e.key # Malformed

\* _collect_exclusion_entries
Exclusions(map) ==
    MapSeq(LAMBDA e : [subtype |-> None, points |-> Rotated(e)], Usable(map.forbiddenAreas))
    \o MapSeq(LAMBDA e : [subtype |-> "ignore", points |-> Rotated(e)], Usable(map.notObsAreas))

\* _collect_spot_entries
Spotted(map) ==
    LET usable == Usable(map.spotAreas) IN Filtered(usable, {e \in ToSet(usable) : Keyed(e)})
Spots(map) == MapSeq(LAMBDA e : [id |-> KeyOr(e, 0), points |-> Rotated(e)], Spotted(map))

\* An area none of whose corners can be read is passed on as it is and raises
\* where its corners are used; so does an angle that is no number.
Raises(map) ==
    \E e \in ToSet(Usable(map.forbiddenAreas)) \cup ToSet(Usable(map.notObsAreas)) \cup ToSet(Spotted(map)) :
        GoodPoints(e.path) = <<>> \/ e.angle = Malformed

\* _parse_mowing_zones
IsZone(e) == Keyed(e) /\ KeyOr(e, 1) \in 1 .. 62 /\ Len(GoodPoints(e.path)) >= 3
Zones(map) ==
    LET usable == Usable(map.mowingAreas)
    IN  MapSeq(LAMBDA e : [id |-> KeyOr(e, 1), path |-> GoodPoints(e.path)],
               Filtered(usable, {e \in ToSet(usable) : IsZone(e)}))

IsOutline(e) == e.form # "other" /\ Len(GoodPoints(e.path)) >= 2
Outlines(map) == Filtered(map.contours, {e \in ToSet(map.contours) : IsOutline(e)})
HasKey(e) == e.form = "pair" /\ Keyed(e)

\* Faulty: the ids are those of all entries, also of the ones without a path.
ContoursApart(map) ==
    MapSeq(LAMBDA i : [id |-> IF HasKey(map.contours[i]) THEN map.contours[i].key ELSE <<1, i - 1>>,
                       path |-> GoodPoints(Outlines(map)[i].path)],
           [i \in DOMAIN Outlines(map) |-> i])

\* _parse_contours: an entry without a key is numbered by its place.
MapContours(map) ==
    [i \in DOMAIN Outlines(map) |->
        LET e == Outlines(map)[i]
        IN  [id |-> IF HasKey(e) THEN e.key ELSE <<1, i - 1>>, path |-> GoodPoints(e.path)]]

\* _parse_maintenance_points: the first point of the path is the place.
MaintenancePoints(map) ==
    LET AddTo(out, e) ==
            IF Head(e.path) = Malformed THEN out
            ELSE Append(out, [id |-> IF Keyed(e) THEN KeyOr(e, 1) ELSE Len(out) + 1,
                              at |-> Head(e.path)])
    IN  FoldLeft(AddTo, <<>>, Usable(map.cleanPoints))

\* _parse_nav_paths
NavPaths(map) ==
    IF map.paths = Malformed THEN <<>>
    ELSE MapSeq(LAMBDA e : [id |-> KeyOr(e, 0), path |-> GoodPoints(e.path)],
                SelectSeq(map.paths, LAMBDA e :
                    e.form # "other" /\ Keyed(e) /\ GoodPoints(e.path) # <<>>))

(***************************************************************************)
(* parse_cloud_map.                                                        *)
(***************************************************************************)
Unbounded(map) == map.boundary = Malformed \/ map.boundary = [x1 |-> 0, y1 |-> 0, x2 |-> 0, y2 |-> 0]

Corners(areas) == UNION {ToSet(areas[i].points) : i \in DOMAIN areas}

\* The box of the lawn, widened by the areas after they were turned.
Box(map) ==
    LET b == map.boundary
        C == Corners(Exclusions(map)) \cup Corners(Spots(map))
    IN  [x1 |-> Min({b.x1} \cup {p.x : p \in C}), x2 |-> Max({b.x2} \cup {p.x : p \in C}),
         y1 |-> Min({b.y1} \cup {p.y : p \in C}), y2 |-> Max({b.y2} \cup {p.y : p \in C})]

\* To the coordinates of the picture, whose axes run the other way.
Mirror(box, p) == [x |-> box.x1 + box.x2 - p.x, y |-> box.y1 + box.y2 - p.y]
MirroredAreas(box, areas) ==
    MapSeq(LAMBDA a : [a EXCEPT !.points = MapSeq(LAMBDA p : Mirror(box, p), @)], areas)

\* What is read of a map whose picture has that box.
ParsedIn(box, map) ==
    [box |-> box,
     width |-> Max({1, (box.x2 - box.x1) \div GRID_SIZE_MM + 1}),
     height |-> Max({1, (box.y2 - box.y1) \div GRID_SIZE_MM + 1}),
     exclusions |-> MirroredAreas(box, Exclusions(map)),
     spots |-> MirroredAreas(box, Spots(map)),
     zones |-> Zones(map),
     contours |-> MapContours(map),
     points |-> MaintenancePoints(map),
     navPaths |-> NavPaths(map),
     dock |-> IF box.x1 = box.x2 /\ box.y1 = box.y2 THEN None
              ELSE Mirror(box, [x |-> CHARGER_OFFSET_MM, y |-> 0])]
ParseCloudMap(map) == ParsedIn(Box(map), map)

\* What the md5 of a map is made from: a map that changes in nothing else keeps
\* its picture.
Fingerprint(d) ==
    [zones |-> {<<z.id, Head(z.path)>> : z \in ToSet(d.zones)},
     excl |-> FlattenSeq(MapSeq(LAMBDA a : SubSeq(a.points, 1, Min({4, Len(a.points)})), d.exclusions)),
     dims |-> <<d.width, d.height>>, charger |-> d.dock]

(***************************************************************************)
(* The refresh.                                                            *)
(***************************************************************************)

\* The maps are joined in one text, which MAP.info cuts in two: without it two
\* maps cannot be read, and without the MAP keys none.
ReadMaps(answer) ==
    IF answer = "whole" \/ (answer = "no_info" /\ Cardinality(DOMAIN lots) = 1) THEN lots ELSE NoMaps

\* parse_cloud_maps
ParseCloudMaps(read) ==
    [m \in {m \in DOMAIN read : ~Unbounded(read[m])} |-> ParseCloudMap(read[m])]

\* Faulty: an answer without maps takes every sub-device away.
SyncAlways(maps) == devices' = DOMAIN maps

\* _sync_map_subdevices
SyncMapSubdevices(maps) == devices' = IF DOMAIN maps = {} THEN devices ELSE DOMAIN maps

\* _render_maps_from_cloud_state; render_base_map
RenderMaps(maps) ==
    statics' = [m \in DOMAIN statics \cup DOMAIN maps |->
        IF m \in DOMAIN maps /\ (m \in DOMAIN statics => Fingerprint(statics[m]) # Fingerprint(maps[m]))
        THEN maps[m] ELSE statics[m]]

Changes == revision < MaxRevisions /\ revision' = revision + 1

\* A map that raises takes the whole refresh with it.
RefreshMaps(answer) ==
    LET read == ReadMaps(answer)
    IN  /\ Changes
        /\ \A m \in DOMAIN read : ~Unbounded(read[m]) => ~Raises(read[m])
        /\ seenLots' = read
        /\ decoded' = ParseCloudMaps(read)
        /\ RenderMaps(decoded')
        /\ SyncMapSubdevices(decoded')
        /\ UNCHANGED lots

\* The app draws a map, or removes it.
DrawLot(m, map) ==
    /\ Changes
    /\ lots' = [k \in DOMAIN lots \cup {m} |-> IF k = m THEN map ELSE lots[k]]
    /\ UNCHANGED <<seenLots, decoded, statics, devices>>

RemoveLot(m) ==
    /\ m \in DOMAIN lots /\ Changes
    /\ lots' = [k \in DOMAIN lots \ {m} |-> lots[k]]
    /\ UNCHANGED <<seenLots, decoded, statics, devices>>

CloudMapsInit ==
    /\ lots = NoMaps /\ seenLots = NoMaps /\ decoded = NoMaps
    /\ statics = NoMaps /\ devices = {} /\ revision = 0

CloudMapsNext ==
    \/ \E m \in Indices, map \in Drafts : DrawLot(m, map)
    \/ \E m \in Indices : RemoveLot(m)
    \/ \E answer \in {"whole", "no_info", "no_maps"} : RefreshMaps(answer)

CloudMapsSpec == CloudMapsInit /\ [][CloudMapsNext]_cloudMaps

(***************************************************************************)
(* Properties.                                                             *)
(***************************************************************************)

InBox(box, p) == p.x \in box.x1 .. box.x2 /\ p.y \in box.y1 .. box.y2

\* What a start may name: a zone or contour with the outline the cloud has under
\* that key, or, without a key, one the program numbered.
HasOutline(entries, id, path) ==
    \E e \in ToSet(entries) : /\ e.form # "other" /\ GoodPoints(e.path) = path
                              /\ e.form = "pair" => e.key \in {id, Malformed}

\* The targets the entities offer stand beside their own outlines, whatever
\* entries were left out before them, and none that can be read is left out; and
\* every area, turned the way the app draws it, lies on the canvas.  A picture of a
\* lawn with an extent that stays because the md5 has not changed fits the
\* coordinates of the new map to the pixel (parse_cloud_map, _parse_contours, _render_maps_from_cloud_state).
MapIsTrue ==
    \A m \in DOMAIN decoded :
        LET d == decoded[m]
            map == seenLots[m]
        IN  /\ \A p \in Corners(d.exclusions) \cup Corners(d.spots) : InBox(d.box, p)
            /\ GRID_SIZE_MM * (d.width - 1) <= d.box.x2 - d.box.x1
            /\ \A c \in ToSet(d.contours) : HasOutline(map.contours, c.id, c.path)
            /\ \A z \in ToSet(d.zones) : HasOutline(map.mowingAreas, z.id, z.path) \/ z.id = 1
            /\ \A e \in ToSet(map.contours) : HasKey(e) /\ IsOutline(e) =>
                   \E c \in ToSet(d.contours) : c.id = e.key /\ c.path = GoodPoints(e.path)
            /\ d.dock # None =>
                   /\ statics[m].box.x2 - d.box.x2 \in -(GRID_SIZE_MM - 1) .. GRID_SIZE_MM - 1
                   /\ statics[m].box.y2 - d.box.y2 \in -(GRID_SIZE_MM - 1) .. GRID_SIZE_MM - 1

\* A sub-device, with its entities, leaves Home Assistant only when the cloud no
\* longer has its map, or has nothing drawn on it: not for an answer that has no
\* maps (_sync_map_subdevices).
DevicesLast == [][\A m \in devices \ devices' : m \notin DOMAIN lots \/ Unbounded(lots[m])]_cloudMaps
=============================================================================
