--------------------------------- MODULE Scans ---------------------------------
(***************************************************************************)
(* The point clouds that the mower scans, archived per map: the push that  *)
(* announces one, the backfill after a start, the service that moves one   *)
(* to another map, the two caps, and the options that change them.         *)
(*                                                                         *)
(* Downloads are awaited, and the work on an archive runs in executor      *)
(* threads or, for the options, in the loop: without a lock, so that jobs  *)
(* on one archive interleave.  The index in memory and index.json are the  *)
(* same between jobs, and Home Assistant waits for its executor when it    *)
(* stops.                                                                  *)
(***************************************************************************)
EXTENDS Integers, Sequences, SequencesExt, FiniteSetsExt, PythonValues

CONSTANTS Lawns,       \* the maps
          CloudScans,  \* the point clouds in the cloud, newest first
          Caps,        \* limits an archive may be given, 0 for none
          MaxJobs      \* bound: pushes, backfills, moves, options and restarts

\* The cloud has one object of a name, and a map is not Python's None.
ASSUME ScansAssumption ==
    /\ CloudScans \in Seq(ToSet(CloudScans))
    /\ \A i, k \in DOMAIN CloudScans : CloudScans[i] = CloudScans[k] => i = k
    /\ None \notin Lawns

VARIABLES listing,     \* of each map: its rows, as they were appended
          stored,      \* of each map: the files in its directory
          caps,        \* the limits of count and of bytes
          activeLawn,  \* _active_map_id
          lastName,    \* _last_lidar_object_name
          backfill,    \* what is left to backfill
          jobs,        \* downloads and executor jobs under way
          clock

scans == <<listing, stored, caps, activeLawn, lastName, backfill, jobs, clock>>

\* A scan of n is n units large.  A file is named by its time and its content.
SizeOf(row) == row.scan
RowsOf(m) == ToSet(listing[m])
Bytes(rows) == MapThenSumSet(SizeOf, rows)

Begins(job) == jobs' = jobs \cup {job}
GoesTo(j, pc) == jobs' = (jobs \ {j}) \cup {[j EXCEPT !.pc = pc]}
Ends(j) == jobs' = jobs \ {j}
NewJob(who, m, scan, ts, pc) ==
    [who |-> who, map |-> m, row |-> [scan |-> scan, ts |-> ts], pc |-> pc,
     cap |-> "retention", kept |-> {}, to |-> None]

Counted == clock < MaxJobs /\ clock' = clock + 1

(***************************************************************************)
(* Who archives.                                                           *)
(***************************************************************************)

\* _handle_lidar_object_name: a name is handled once, also when it is dropped
\* because the active map is not known.
Announce(scan) ==
    /\ scan # lastName /\ Counted
    /\ lastName' = scan
    /\ IF activeLawn = None THEN UNCHANGED jobs ELSE Begins(NewJob("push", activeLawn, scan, clock', "fetch"))
    /\ UNCHANGED <<listing, stored, caps, activeLawn, backfill>>

\* _backfill_lidar_from_3dmap, once: the names the map has none of, in turn.  A
\* list that fails is asked for again.
StartBackfill ==
    /\ backfill = None /\ activeLawn # None /\ Counted
    /\ backfill' = [map |-> activeLawn, ts |-> clock', todo |->
            Filtered(CloudScans, {s \in ToSet(CloudScans) : \A row \in RowsOf(activeLawn) : row.scan # s})]
    /\ UNCHANGED <<listing, stored, caps, activeLawn, lastName, jobs>>

BackfillNext ==
    /\ backfill # None /\ backfill.todo # <<>> /\ \A j \in jobs : j.who # "backfill"
    /\ backfill' = [backfill EXCEPT !.todo = Tail(@)]
    /\ Begins(NewJob("backfill", backfill.map, Head(backfill.todo), backfill.ts, "fetch"))
    /\ UNCHANGED <<listing, stored, caps, activeLawn, lastName, clock>>

\* get_interim_file_url and get_file, with their retries.
ScanFetched(j) ==
    /\ j.pc = "fetch"
    /\ GoesTo(j, "has") \/ Ends(j)
    /\ UNCHANGED <<listing, stored, caps, activeLawn, lastName, backfill, clock>>

(***************************************************************************)
(* LidarArchive.archive.                                                   *)
(***************************************************************************)

\* The content is there already, or not.
CheckHas(j) ==
    /\ j.pc = "has"
    /\ IF \E row \in RowsOf(j.map) : row.scan = j.row.scan THEN Ends(j) ELSE GoesTo(j, "write")
    /\ UNCHANGED <<listing, stored, caps, activeLawn, lastName, backfill, clock>>

StoreFile(j) ==
    /\ j.pc = "write"
    /\ \/ stored' = [stored EXCEPT ![j.map] = @ \cup {j.row}] /\ GoesTo(j, "append")
       \/ UNCHANGED stored /\ Ends(j)
    /\ UNCHANGED <<listing, caps, activeLawn, lastName, backfill, clock>>

AppendRow(j) ==
    /\ j.pc = "append"
    /\ listing' = [listing EXCEPT ![j.map] = Append(@, j.row)]
    /\ GoesTo(j, "prune")
    /\ UNCHANGED <<stored, caps, activeLawn, lastName, backfill, clock>>

(***************************************************************************)
(* _enforce_retention, then _enforce_size_cap.                             *)
(***************************************************************************)
Over(cap, rows) ==
    /\ caps[cap] > 0
    /\ caps[cap] < IF cap = "retention" THEN Len(rows) ELSE Bytes(ToSet(rows))

\* The rows sorted by time; those of equal time stay in their order.
Oldest(m) ==
    LET rows == listing[m]
        Before(i, k) == rows[i].ts < rows[k].ts \/ (rows[i].ts = rows[k].ts /\ i < k)
    IN  [n \in DOMAIN rows |-> rows[CHOOSE i \in DOMAIN rows :
                                    Cardinality({k \in DOMAIN rows : Before(k, i)}) = n - 1]]

\* What is left when rows are dropped from the front until the cap holds.
KeptRows(m, cap) ==
    LET rows == Oldest(m)
        Left(n) == SubSeq(rows, n + 1, Len(rows))
    IN  Left(Min({n \in 0 .. Len(rows) : n = Len(rows) \/ ~Over(cap, Left(n))}))

NextCap(j) ==
    IF j.cap = "size" THEN Ends(j)
    ELSE jobs' = (jobs \ {j}) \cup {[j EXCEPT !.cap = "size", !.pc = "prune", !.kept = {}]}

\* Faulty: the files of the rows that are kept are removed.
RemoveKept(m, kept) == stored' = [stored EXCEPT ![m] = @ \ kept]

\* The files of the rows that are dropped are removed ...
RemoveFiles(m, kept) == stored' = [stored EXCEPT ![m] = @ \ (RowsOf(m) \ kept)]

PruneFiles(j) ==
    /\ j.pc = "prune"
    /\ LET kept == ToSet(KeptRows(j.map, j.cap))
       IN  IF ~Over(j.cap, listing[j.map]) THEN UNCHANGED stored /\ NextCap(j)
           ELSE /\ RemoveFiles(j.map, kept)
                /\ jobs' = (jobs \ {j}) \cup {[j EXCEPT !.pc = "assign", !.kept = kept]}
    /\ UNCHANGED <<listing, caps, activeLawn, lastName, backfill, clock>>

\* ... and the index is what it was then, even if a row came since.
AssignIndex(j) ==
    /\ j.pc = "assign"
    /\ listing' = [listing EXCEPT ![j.map] = Filtered(@, j.kept)]
    /\ NextCap(j)
    /\ UNCHANGED <<stored, caps, activeLawn, lastName, backfill, clock>>

\* _options_updated: set_retention and set_max_bytes of every archive.
ChangeOptions(keep, bytes) ==
    /\ [retention |-> keep, size |-> bytes] # caps /\ Counted
    /\ caps' = [retention |-> keep, size |-> bytes]
    /\ jobs' = jobs \cup {NewJob("options", m, 0, clock', "prune") : m \in Lawns}
    /\ UNCHANGED <<listing, stored, activeLawn, lastName, backfill>>

(***************************************************************************)
(* move_entry_to.                                                          *)
(***************************************************************************)

\* The file goes to the other directory; without a file the index is repaired.
MoveEntry(from, to, row) ==
    /\ from # to /\ row \in RowsOf(from) /\ Counted
    /\ LET job == [NewJob("move", from, 0, clock', "unlist") EXCEPT !.row = row, !.to = to]
       IN  IF row \in stored[from]
           THEN /\ stored' = [stored EXCEPT ![from] = @ \ {row}, ![to] = @ \cup {row}]
                /\ Begins(job)
           ELSE UNCHANGED stored /\ Begins([job EXCEPT !.to = None])
    /\ UNCHANGED <<listing, caps, activeLawn, lastName, backfill>>

Unlist(j) ==
    /\ j.pc = "unlist"
    /\ listing' = [listing EXCEPT ![j.map] = Filtered(@, RowsOf(j.map) \ {j.row})]
    /\ IF j.to = None THEN Ends(j) ELSE GoesTo(j, "list")
    /\ UNCHANGED <<stored, caps, activeLawn, lastName, backfill, clock>>

Relist(j) ==
    /\ j.pc = "list"
    /\ listing' = [listing EXCEPT ![j.to] = Append(@, j.row)]
    /\ Ends(j)
    /\ UNCHANGED <<stored, caps, activeLawn, lastName, backfill, clock>>

KnowLawn(m) == activeLawn' = m /\ UNCHANGED <<listing, stored, caps, lastName, backfill, jobs, clock>>

StopAndStart ==
    /\ jobs = {} /\ Counted
    /\ activeLawn' = None /\ lastName' = None /\ backfill' = None
    /\ UNCHANGED <<listing, stored, caps, jobs>>

ScansInit ==
    /\ listing = [m \in Lawns |-> <<>>] /\ stored = [m \in Lawns |-> {}]
    /\ caps \in [{"retention", "size"} -> Caps]
    /\ activeLawn = None /\ lastName = None /\ backfill = None /\ jobs = {} /\ clock = 0

Works(j) == \/ ScanFetched(j) \/ CheckHas(j) \/ StoreFile(j) \/ AppendRow(j)
            \/ PruneFiles(j) \/ AssignIndex(j) \/ Unlist(j) \/ Relist(j)

ScansNext ==
    \/ \E scan \in ToSet(CloudScans) : Announce(scan)
    \/ StartBackfill \/ BackfillNext \/ StopAndStart
    \/ \E keep, bytes \in Caps : ChangeOptions(keep, bytes)
    \/ \E from, to \in Lawns : \E row \in RowsOf(from) : MoveEntry(from, to, row)
    \/ \E m \in Lawns : KnowLawn(m)
    \/ \E j \in jobs : Works(j)

ScansSpec == ScansInit /\ [][ScansNext]_scans

(***************************************************************************)
(* Properties.                                                             *)
(***************************************************************************)

\* However jobs interleave on an archive that has no lock, a row that is listed
\* has its file when they have ended: none is removed for a row that stays, and
\* none is listed in a map whose directory it is not in (archive,
\* _enforce_retention, _enforce_size_cap, move_entry_to).
RowsHaveFiles == jobs = {} => \A m \in Lawns : RowsOf(m) \subseteq stored[m]

\* "Idempotent by md5" (archive): a map has one row for one content.
ScanOnce == \A m \in Lawns : \A i, k \in DOMAIN listing[m] : listing[m][i].scan = listing[m][k].scan => i = k
=============================================================================
