--------------------------- MODULE SessionArchive ---------------------------
(***************************************************************************)
(* archive/session.py: one JSON file per session and index.json, the rows  *)
(* the replay picker shows.  archive() and set_retention() are called from *)
(* executor threads (and the event loop) without a lock: each is a job     *)
(* whose steps are its effects on the disk, and Home Assistant may stop    *)
(* between any two of them.  A file or the index is written to a temporary *)
(* name and renamed, one step.                                             *)
(*                                                                         *)
(* Abstractions.  A row is what identifies and orders sessions: canonical  *)
(* (from a cloud summary) or an "(incomplete)" placeholder, start_ts and   *)
(* end_ts.  The cloud repeats its md5 while the map is unchanged, so the   *)
(* md5 tells no two canonical rows apart; a file is known by its row.      *)
(***************************************************************************)
EXTENDS Integers, Sequences, FiniteSets, SequencesExt, PythonValues

CONSTANTS
    Jobs,          \* threads that may be inside the archive at once
    Summaries,     \* the sessions that may be archived, as rows
    Keeps,         \* retention caps the options may choose, 0 is unlimited
    DiskFails,     \* a write or an unlink may fail with an OSError
    MaxRestarts    \* bound on the restarts

ASSUME ArchiveAssumption ==
    /\ Summaries \subseteq [canonical : BOOLEAN, start : Nat, end : Nat]
    /\ Keeps \subseteq Nat /\ Keeps # {}
    /\ DiskFails \in BOOLEAN /\ MaxRestarts \in Nat

VARIABLES
    index,     \* SessionArchive._index
    listed,    \* the rows of index.json
    files,     \* the session files, each by its row
    keep,      \* SessionArchive._retention
    job,       \* what each thread is doing
    restarts

vars == <<index, listed, files, keep, job, restarts>>

TOL == 5       \* _prune_incomplete_for.TOL

Idle == [pc |-> "idle", row |-> None, drop |-> {}, kept |-> {}]

JobStates == [pc : {"idle", "write", "commit", "prune", "save", "trim", "drop", "resave"},
              row : Summaries \cup {None},
              drop : SUBSET Summaries, kept : SUBSET Summaries]

TypeOK ==
    /\ index \in Seq(Summaries) /\ listed \in Seq(Summaries)
    /\ files \subseteq Summaries
    /\ keep \in Keeps
    /\ job \in [Jobs -> JobStates]
    /\ restarts \in 0..MaxRestarts

Init ==
    /\ index = <<>> /\ listed = <<>> /\ files = {}
    /\ keep \in Keeps
    /\ job = [j \in Jobs |-> Idle]
    /\ restarts = 0

Known(row) == \E r \in ToSet(index) : /\ r.canonical = row.canonical
                                      /\ r.start = row.start

(* The "(incomplete)" rows a canonical one supersedes.                     *)
SameSession(row, r) == /\ row.canonical /\ ~r.canonical
                       /\ r.start - row.start \in -TOL..TOL
Phantoms(row) == {r \in ToSet(index) : SameSession(row, r)}

(* The positions of the rows beyond the cap: the oldest by end_ts.         *)
Excess(P) ==
    /\ keep > 0 /\ Cardinality(P) = Len(index) - keep
    /\ \A i \in P, k \in DOMAIN index \ P : index[i].end <= index[k].end
RowsAt(P) == {index[i] : i \in P}

Goto(j, pc) == job' = [job EXCEPT ![j].pc = pc]
Leave(j)    == job' = [job EXCEPT ![j] = Idle]

-----------------------------------------------------------------------------
(* Faulty: only the newest row is compared with the summary.               *)
ArchiveChecksLast(j) ==
    /\ job[j].pc = "idle"
    /\ \E row \in Summaries :
           /\ Len(index) > 0 => index[Len(index)] # row
           /\ job' = [job EXCEPT ![j] = [Idle EXCEPT !.pc = "write", !.row = row]]
    /\ UNCHANGED <<index, listed, files, keep, restarts>>

(* archive(): a known (md5, start_ts) is a no-op.                          *)
Archive(j) ==
    /\ job[j].pc = "idle"
    /\ \E row \in Summaries :
           /\ ~Known(row)
           /\ job' = [job EXCEPT ![j] = [Idle EXCEPT !.pc = "write", !.row = row]]
    /\ UNCHANGED <<index, listed, files, keep, restarts>>

(* The session file; an OSError is logged and archive() returns None.      *)
WriteFile(j) ==
    /\ job[j].pc = "write"
    /\ \/ files' = files \cup {job[j].row} /\ Goto(j, "commit")
       \/ DiskFails /\ UNCHANGED files /\ Leave(j)
    /\ UNCHANGED <<index, listed, keep, restarts>>

(* Faulty: every placeholder goes, whatever session it stands for.         *)
CommitPrunesAll(j) ==
    /\ job[j].pc = "commit"
    /\ index' = Append(index, job[j].row)
    /\ job' = [job EXCEPT ![j].pc = IF job[j].row.canonical THEN "prune" ELSE "save",
                          ![j].drop = {r \in ToSet(index) : ~r.canonical}]
    /\ UNCHANGED <<listed, files, keep, restarts>>

(* _commit_to_index: append, and look for placeholders to prune.           *)
Commit(j) ==
    /\ job[j].pc = "commit"
    /\ index' = Append(index, job[j].row)
    /\ job' = [job EXCEPT ![j].pc = IF job[j].row.canonical THEN "prune" ELSE "save",
                          ![j].drop = Phantoms(job[j].row)]
    /\ UNCHANGED <<listed, files, keep, restarts>>

(* _prune_incomplete_for and _enforce_retention unlink file after file, and*)
(* only log a failure ...                                                  *)
Unlink(j) ==
    /\ job[j].pc \in {"prune", "drop"}
    /\ \E r \in job[j].drop :
           /\ job' = [job EXCEPT ![j].drop = @ \ {r}]
           /\ files' = files \ {r} \/ (DiskFails /\ UNCHANGED files)
    /\ UNCHANGED <<index, listed, keep, restarts>>

(* ... and then replace the list of rows.                                  *)
PruneRows(j) ==
    /\ job[j].pc = "prune" /\ job[j].drop = {}
    /\ index' = Filtered(index, ToSet(index) \ Phantoms(job[j].row))
    /\ Goto(j, "save")
    /\ UNCHANGED <<listed, files, keep, restarts>>

DropRows(j) ==
    /\ job[j].pc = "drop" /\ job[j].drop = {}
    /\ index' = Filtered(index, job[j].kept)
    /\ Goto(j, "resave")
    /\ UNCHANGED <<listed, files, keep, restarts>>

(* _save_index; an OSError leaves archive() and set_retention().           *)
SaveIndex(j) ==
    /\ job[j].pc \in {"save", "resave"}
    /\ \/ /\ listed' = index
          /\ IF job[j].pc = "save" THEN Goto(j, "trim") ELSE Leave(j)
       \/ DiskFails /\ UNCHANGED listed /\ Leave(j)
    /\ UNCHANGED <<index, files, keep, restarts>>

(* _enforce_retention.                                                     *)
EnforceRetention(j) ==
    /\ job[j].pc = "trim"
    /\ IF keep = 0 \/ Len(index) <= keep THEN Leave(j)
       ELSE \E P \in SUBSET DOMAIN index :
                /\ Excess(P)
                /\ job' = [job EXCEPT ![j].pc = "drop", ![j].drop = RowsAt(P),
                                      ![j].kept = RowsAt(DOMAIN index \ P)]
    /\ UNCHANGED <<index, listed, files, keep, restarts>>

(* set_retention, when the options change.                                 *)
SetRetention(j) ==
    /\ job[j].pc = "idle"
    /\ keep' \in Keeps \ {keep}
    /\ Goto(j, "trim")
    /\ UNCHANGED <<index, listed, files, restarts>>

(* Home Assistant restarts, and load_index reads the rows back.            *)
Restart ==
    /\ restarts < MaxRestarts
    /\ restarts' = restarts + 1
    /\ index' = listed
    /\ keep' \in Keeps
    /\ job' = [j \in Jobs |-> Idle]
    /\ UNCHANGED <<listed, files>>

Next ==
    \/ \E j \in Jobs : \/ Archive(j) \/ WriteFile(j) \/ Commit(j) \/ Unlink(j)
                       \/ PruneRows(j) \/ DropRows(j) \/ SaveIndex(j)
                       \/ EnforceRetention(j) \/ SetRetention(j)
    \/ Restart

Spec == Init /\ [][Next]_vars

-----------------------------------------------------------------------------
(* Properties.                                                             *)

Superseded(r, S) == \E c \in S : SameSession(c, r)

BeyondCap(r, S) ==
    keep > 0 /\ Cardinality({q \in S \ {r} : q.end >= r.end}) >= keep

(* A row leaves the index, from which the picker is filled, only when the  *)
(* canonical one of its session is there instead, or as many newer ones as *)
(* the cap allows, or with a restart if it was never saved; index.json     *)
(* loses none that the index has; and a file goes only when the canonical  *)
(* one of its session is on the disk, or as many newer rows are listed as  *)
(* the cap allows: whatever fails on the disk and wherever a restart falls.*)
SessionsLeaveForAReason ==
    [][ /\ \A r \in ToSet(index) \ ToSet(index') :
               \/ Superseded(r, ToSet(index'))
               \/ BeyondCap(r, ToSet(index'))
               \/ restarts' # restarts /\ r \notin ToSet(listed)
        /\ ToSet(listed) \cap ToSet(index) \subseteq ToSet(listed')
        /\ \A r \in files \ files' :
               Superseded(r, files') \/ BeyondCap(r, ToSet(index)) ]_vars

(* The picker shows a session once.                                        *)
OneRowPerSession ==
    \A i, k \in DOMAIN listed :
        listed[i].canonical = listed[k].canonical /\ listed[i].start = listed[k].start
            => i = k
=============================================================================
