-------------------------------- MODULE Heatmaps --------------------------------
(***************************************************************************)
(* The maps of the wifi signal that the cloud makes at night, kept in an   *)
(* archive of their own (wifi_archive_store.py).  A refresh, at set-up and *)
(* by a button, downloads the new ones and finds the lawn each belongs to, *)
(* by the samples of the sessions (coordinator/_wifi_archive.py,           *)
(* wifi_match.py).  Refreshes overlap; an operation of the store holds its *)
(* lock, and its writes are not renamed into place.                        *)
(*                                                                         *)
(* Lawns and samples have one dimension here, cells are CELL metres wide,  *)
(* and a heatmap is its time, its first metre and its row of cells: two    *)
(* objects may be the same one, sent again under another name.             *)
(***************************************************************************)
EXTENDS Integers, Sequences, SequencesExt, FiniteSetsExt, PythonValues

CONSTANTS Refreshes,   \* refreshes that may be under way at once
          Objects,     \* the objects in the cloud, as their names
          Heat,        \* of each object: [ts, start, cells]
          Walks,       \* sessions that may end: [lawn, samples of [at, rssi]]
          MaxVisits    \* bound: refreshes, sessions and crashes

\* The sessions of Walks have samples; the others are passed over.
ASSUME HeatmapsAssumption ==
    /\ \A object \in Objects : Heat[object].start \in Int /\ Heat[object].cells \in Seq(Int)
    /\ \A walk \in Walks : walk.samples # <<>> /\ walk.samples \in Seq([at : Int, rssi : Int])

VARIABLES rows,        \* index.json: the rows, as [object, lawn]
          torn,        \* index.json cannot be read
          bodies,      \* the objects that have a file
          shownRows,   \* _wifi_archive_index
          walked,      \* the sessions in their archive
          refresh,     \* what each refresh is doing
          brokeOff,    \* a refresh ended in an exception since the last full one
          visits

heatmaps == <<rows, torn, bodies, shownRows, walked, refresh, brokeOff, visits>>

NO_DATA_SENTINEL == 1
CELL == 2
NoLawn == -1
Resting == [pc |-> "idle", object |-> None, todo |-> {}, walks |-> {}, modified |-> FALSE]

(***************************************************************************)
(* wifi_match.py: the lawn whose samples a heatmap fits best.              *)
(***************************************************************************)

\* int() rounds towards 0: the cell before the first counts as the first.
CellOf(heat, at) ==
    IF at >= heat.start THEN (at - heat.start) \div CELL ELSE -((heat.start - at) \div CELL)

\* The samples of a lawn are those of its sessions together, each as its session
\* and its place there.
SamplesOf(walks, lawn) ==
    UNION {{<<w, i>> : i \in DOMAIN w.samples} : w \in {w \in walks : w.lawn = lawn}}
SampleAt(s) == s[1].samples[s[2]]
CellAt(heat, s) == CellOf(heat, SampleAt(s).at)

Inside(heat, samples) == {s \in samples : CellAt(heat, s) \in 0 .. Len(heat.cells) - 1}
Measured(heat, samples) ==
    {s \in Inside(heat, samples) : heat.cells[CellAt(heat, s) + 1] # NO_DATA_SENTINEL}

Off(heat, s) ==
    LET cell == heat.cells[CellAt(heat, s) + 1]
        rssi == SampleAt(s).rssi
    IN  IF rssi > cell THEN rssi - cell ELSE cell - rssi

\* Coverage and mean distance, as fractions; where no cell has data, 100.
Fit(heat, samples) ==
    LET known == Measured(heat, samples)
    IN  [inside |-> Cardinality(Inside(heat, samples)), all |-> Cardinality(samples),
         off |-> IF known = {} THEN 100 ELSE SumFunctionOnSet([s \in known |-> Off(heat, s)], known),
         known |-> IF known = {} THEN 1 ELSE Cardinality(known)]

\* score_candidates: coverage / (1 + mean / 10), as a fraction.
Score(f) == <<f.inside * 10 * f.known, f.all * (10 * f.known + f.off)>>
AtLeast(p, q) == p[1] * q[2] >= q[1] * p[2]

LawnsOf(walks) == {w.lawn : w \in walks}
FitOf(object, walks, lawn) == Fit(Heat[object], SamplesOf(walks, lawn))

Best(object, walks) ==
    {lawn \in LawnsOf(walks) : \A other \in LawnsOf(walks) :
         AtLeast(Score(FitOf(object, walks, lawn)), Score(FitOf(object, walks, other)))}

\* match_heatmap_to_session: one of these, none if no candidate scores.
Match(object, walks) ==
    {lawn \in Best(object, walks) : FitOf(object, walks, lawn).inside > 0}

(***************************************************************************)
(* WifiArchiveStore.                                                       *)
(***************************************************************************)

\* load_index: what cannot be read is empty.
LoadIndex == IF torn THEN <<>> ELSE rows
Listed(index, object) == \E i \in DOMAIN index : index[i].object = object
\* Another name for the same time and geometry.
Twin(index, object) ==
    \E i \in DOMAIN index :
        LET h == Heat[index[i].object]
        IN  /\ h.ts = Heat[object].ts /\ h.start = Heat[object].start
            /\ Len(h.cells) = Len(Heat[object].cells)

\* Faulty: the row is added to the index as it is in memory.
ListAfresh(object) ==
    /\ rows' = Append(shownRows, [object |-> object, lawn |-> NoLawn])
    /\ torn' = FALSE

ListObject(object) ==
    /\ rows' = Append(LoadIndex, [object |-> object, lawn |-> NoLawn])
    /\ torn' = FALSE

Goes(r, pc, todo) == refresh' = [refresh EXCEPT ![r].pc = pc, ![r].todo = todo]

\* A write fails: the exception ends the refresh.
BreaksOff(r) == refresh' = [refresh EXCEPT ![r] = Resting] /\ brokeOff' = TRUE

\* archive, in the executor, under the lock: the body is written first.
ArchiveBody(r, object) ==
    /\ IF Listed(LoadIndex, object)
       THEN /\ UNCHANGED <<rows, torn, bodies, brokeOff>>
            /\ Goes(r, "next", refresh[r].todo)
       ELSE \/ /\ bodies' = bodies \cup {object}
               /\ IF Twin(LoadIndex, object) THEN UNCHANGED <<rows, torn>> ELSE ListObject(object)
               /\ Goes(r, "next", refresh[r].todo)
               /\ UNCHANGED brokeOff
            \/ /\ bodies' \in {bodies, bodies \cup {object}}
               /\ BreaksOff(r)
               /\ UNCHANGED <<rows, torn>>

\* set_map_id, under the lock.
SetMapId(object, lawn) ==
    LET index == LoadIndex
        Tagged(row) == IF row.object = object THEN [row EXCEPT !.lawn = lawn] ELSE row
    IN  rows' = IF torn THEN rows ELSE [i \in DOMAIN index |-> Tagged(index[i])]

(***************************************************************************)
(* refresh_wifi_archive.                                                   *)
(***************************************************************************)

\* list_wifi_candidates: the objects that can be downloaded and decoded now.
List(r) ==
    /\ refresh[r].pc = "idle" /\ visits < MaxVisits
    /\ visits' = visits + 1
    /\ \E found \in SUBSET Objects : Goes(r, "next", found)
    /\ UNCHANGED <<rows, torn, bodies, shownRows, walked, brokeOff>>

\* has_object looks for the file; what has none is downloaded and archived.
Download(r) ==
    /\ refresh[r].pc = "next"
    /\ \E object \in refresh[r].todo :
           LET rest == refresh[r].todo \ {object}
           IN  IF object \in bodies THEN Goes(r, "next", rest)
               ELSE refresh' = [refresh EXCEPT ![r] = [Resting EXCEPT !.pc = "get", !.object = object, !.todo = rest]]
    /\ UNCHANGED <<rows, torn, bodies, shownRows, walked, brokeOff, visits>>

\* _download_and_archive_wifi.
Downloaded(r) ==
    /\ refresh[r].pc = "get"
    /\ \/ ArchiveBody(r, refresh[r].object)
       \/ Goes(r, "next", refresh[r].todo) /\ UNCHANGED <<rows, torn, bodies, brokeOff>>
    /\ UNCHANGED <<shownRows, walked, visits>>

ShowIndex(r) ==
    /\ refresh[r].pc = "next" /\ refresh[r].todo = {}
    /\ shownRows' = LoadIndex /\ brokeOff' = FALSE
    /\ Goes(r, "match", {})
    /\ UNCHANGED <<rows, torn, bodies, walked, visits>>

\* _tag_wifi_archive_map_ids: the heatmaps without a lawn, and the sessions.
StartMatching(r) ==
    /\ refresh[r].pc = "match"
    /\ LET index == LoadIndex
           untagged == {index[i].object : i \in {i \in DOMAIN index : index[i].lawn = NoLawn}}
       IN  refresh' = [refresh EXCEPT ![r] =
               IF untagged = {} \/ walked = {} THEN Resting
               ELSE [@ EXCEPT !.pc = "tag", !.todo = untagged \cap bodies, !.walks = walked]]
    /\ UNCHANGED <<rows, torn, bodies, shownRows, walked, brokeOff, visits>>

\* A write that fails is caught, and the index is not loaded again.
Tag(r) ==
    /\ refresh[r].pc = "tag"
    /\ \E object \in refresh[r].todo :
           LET best == Match(object, refresh[r].walks)
               rest == refresh[r].todo \ {object}
           IN  \/ best = {} /\ Goes(r, "tag", rest) /\ UNCHANGED <<rows, brokeOff>>
               \/ \E lawn \in best :
                      /\ SetMapId(object, lawn)
                      /\ refresh' = [refresh EXCEPT ![r].todo = rest, ![r].modified = @ \/ rows' # rows]
                      /\ UNCHANGED brokeOff
               \/ best # {} /\ BreaksOff(r) /\ UNCHANGED rows
    /\ UNCHANGED <<torn, bodies, shownRows, walked, visits>>

Matched(r) ==
    /\ refresh[r].pc = "tag" /\ refresh[r].todo = {}
    /\ shownRows' = IF refresh[r].modified THEN LoadIndex ELSE shownRows
    /\ refresh' = [refresh EXCEPT ![r] = Resting]
    /\ UNCHANGED <<rows, torn, bodies, walked, brokeOff, visits>>

\* A session is archived with its samples.
EndSession(walk) ==
    /\ walk \notin walked /\ visits < MaxVisits
    /\ visits' = visits + 1 /\ walked' = walked \cup {walk}
    /\ UNCHANGED <<rows, torn, bodies, shownRows, refresh, brokeOff>>

\* Home Assistant dies, in the middle of a write if one is under way, and the
\* set-up loads what can be read.
Crash ==
    /\ visits < MaxVisits /\ visits' = visits + 1
    /\ torn' \in {torn, \E r \in Refreshes : refresh[r].pc \in {"get", "tag"}}
    /\ bodies' \in {bodies} \cup {bodies \cup {refresh[r].object} : r \in {r \in Refreshes : refresh[r].pc = "get"}}
    /\ refresh' = [r \in Refreshes |-> Resting]
    /\ UNCHANGED <<rows, walked>>
    /\ shownRows' = LoadIndex' /\ brokeOff' = FALSE

HeatmapsInit ==
    /\ rows = <<>> /\ torn = FALSE /\ bodies = {} /\ shownRows = <<>> /\ walked = {}
    /\ refresh = [r \in Refreshes |-> Resting] /\ brokeOff = FALSE /\ visits = 0

HeatmapsNext ==
    \/ \E r \in Refreshes : \/ List(r) \/ Download(r) \/ Downloaded(r) \/ ShowIndex(r)
                            \/ StartMatching(r) \/ Tag(r) \/ Matched(r)
    \/ \E walk \in Walks : EndSession(walk)
    \/ Crash

HeatmapsSpec == HeatmapsInit /\ [][HeatmapsNext]_heatmaps

(***************************************************************************)
(* Properties.                                                             *)
(***************************************************************************)

\* The samples of no other lawn lie more inside and agree as well, or agree
\* better and lie as much inside; and some of its own lie inside.
Supported(object, walks, lawn) ==
    LET own == FitOf(object, walks, lawn)
    IN  /\ own.inside > 0
        /\ \A other \in LawnsOf(walks) :
               LET f == FitOf(object, walks, other)
                   Wider == f.inside * own.all - own.inside * f.all
                   Nearer == own.off * f.known - f.off * own.known
               IN  ~(Wider >= 0 /\ Nearer >= 0 /\ Wider + Nearer > 0)

\* Rows stay in the archive, and a heatmap that has a lawn keeps one, whatever
\* refreshes overlap, as long as the index can be read; and a lawn is given only
\* to a heatmap that the samples of its sessions support, of those the refresh
\* had read (archive, set_map_id, match_heatmap_to_session).
RowsStay ==
    [][~torn =>
        /\ Len(rows') >= Len(rows)
        /\ \A i \in DOMAIN rows :
            /\ rows'[i].object = rows[i].object
            /\ rows'[i].lawn # rows[i].lawn =>
                   \E r \in Refreshes : Supported(rows[i].object, refresh[r].walks, rows'[i].lawn)]_heatmaps

\* Every row has its body; and the pickers and cameras show the index that is on
\* the disk when no refresh is under way, unless one broke off since it was read
\* (refresh_wifi_archive).
ShownIsArchived ==
    /\ \A i \in DOMAIN rows : rows[i].object \in bodies
    /\ (~brokeOff /\ \A r \in Refreshes : refresh[r].pc = "idle") => shownRows = LoadIndex

\* Both: no heatmap is lost or misplaced, and what is shown is what is kept
\* (wifi_archive_store.py, refresh_wifi_archive).
HeatmapsKept == RowsStay /\ []ShownIsArchived
=============================================================================
