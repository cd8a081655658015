---------------------------- MODULE Archives_proofs ----------------------------
(***************************************************************************)
(* Proofs about the archives: of sessions, of lidar scans and of heatmaps. *)
(***************************************************************************)
EXTENDS SessionArchive, Heatmaps, Scans, Data_proofs

-----------------------------------------------------------------------------
(***************************************************************************)
(* The archive of sessions, for every number of calls under way, of        *)
(* sessions and of caps.  OneRowPerSession is not inductive: the index in  *)
(* memory has to be without doubles too, as it is what is saved, and what  *)
(* a call is about to append may not be in it.                             *)
(***************************************************************************)
OfOneSession(r, q) == r.canonical = q.canonical /\ r.start = q.start

NoDoubles(rows_) == \A i, k \in DOMAIN rows_ : OfOneSession(rows_[i], rows_[k]) => i = k

Archiving(j) == job[j].pc \in {"write", "commit"}

ArchiveInv ==
    /\ TypeOK
    /\ NoDoubles(index)
    /\ NoDoubles(listed)
    /\ \A j \in Jobs : Archiving(j) => job[j].row \in Summaries /\ ~Known(job[j].row)

(* No two calls archive the one session at once: archive() looks for it    *)
(* before it writes the file, and appends the row after.                   *)
CallsApart ==
    \A i, j \in Jobs : Archiving(i) /\ Archiving(j) /\ OfOneSession(job[i].row, job[j].row) => i = j

(* A filtered list has no doubles if the list has none.                    *)
LEMMA FilteredNoDoubles ==
    ASSUME NEW S, NEW rows0 \in Seq(S), NEW chosen, NoDoubles(rows0)
    PROVE  NoDoubles(Filtered(rows0, chosen))
<1> DEFINE kept == Filtered(rows0, chosen)
           at(n) == NthOf(KeptAt(rows0, chosen), n)
<1>1. /\ \A n \in DOMAIN kept : at(n) \in DOMAIN rows0 /\ kept[n] = rows0[at(n)]
      /\ \A n, m \in DOMAIN kept : at(n) = at(m) => n = m
  BY FilteredRows
<1> HIDE DEF kept, at
<1>2. NoDoubles(kept)
  BY <1>1 DEF NoDoubles
<1>3. QED BY <1>2 DEF kept

(* Nor does a list get one from a row of a session it has no row of.       *)
LEMMA AppendNoDoubles ==
    ASSUME NEW S, NEW rows0 \in Seq(S), NEW row \in S, NoDoubles(rows0),
           \A r \in ToSet(rows0) : ~OfOneSession(r, row)
    PROVE  NoDoubles(Append(rows0, row))
<1> DEFINE more == Append(rows0, row)
<1>1. /\ DOMAIN more = DOMAIN rows0 \cup {Len(rows0) + 1}
      /\ \A i \in DOMAIN rows0 : more[i] = rows0[i]
      /\ more[Len(rows0) + 1] = row
      /\ Len(rows0) + 1 \notin DOMAIN rows0
  OBVIOUS
<1>2. \A i \in DOMAIN rows0 : ~OfOneSession(rows0[i], row) /\ ~OfOneSession(row, rows0[i])
  BY DEF ToSet, OfOneSession
<1> HIDE DEF more
<1>3. NoDoubles(more)
  BY <1>1, <1>2 DEF NoDoubles
<1>4. QED BY <1>3 DEF more

\* Nothing is archived at first.
LEMMA InitArchive == Init => ArchiveInv
  BY ArchiveAssumption DEF Init, ArchiveInv, TypeOK, JobStates, NoDoubles, Archiving, Idle

(* The calls that archive nothing that they did not archive before, and an *)
(* index with no row that it did not have, keep the last conjunct.         *)
LEMMA StillUnknown ==
    ASSUME ArchiveInv, ToSet(index') \subseteq ToSet(index),
           NEW j \in Jobs, Archiving(j)' => Archiving(j) /\ job'[j].row = job[j].row
    PROVE  Archiving(j)' => job'[j].row \in Summaries /\ ~Known(job[j].row)'
BY DEF ArchiveInv, Known

(* What a call that moves on, or ends, does to its own state.              *)
LEMMA CallMoves ==
    ASSUME TypeOK, NEW j \in Jobs,
           NEW pc \in {"idle", "write", "commit", "prune", "save", "trim", "drop", "resave"},
           NEW drop \in SUBSET Summaries, NEW kept \in SUBSET Summaries,
           \/ Leave(j) \/ Goto(j, pc)
           \/ job' = [job EXCEPT ![j].pc = pc, ![j].drop = drop]
           \/ job' = [job EXCEPT ![j].pc = pc, ![j].drop = drop, ![j].kept = kept]
    PROVE  /\ job' \in [Jobs -> JobStates]
           /\ job'[j] = Idle \/ (job'[j].pc = pc /\ job'[j].row = job[j].row)
           /\ \A i \in Jobs : i # j => job'[i] = job[i]
<1>1. job \in [Jobs -> JobStates] /\ job[j] \in JobStates
  BY DEF TypeOK
<1>2. PICK s \in JobStates : /\ job' = [job EXCEPT ![j] = s]
                             /\ s = Idle \/ (s.pc = pc /\ s.row = job[j].row)
  <2>1. CASE Leave(j)
    <3>1. Idle \in JobStates BY DEF Idle, JobStates
    <3>2. QED BY <2>1, <3>1 DEF Leave
  <2>2. CASE Goto(j, pc)
    <3> DEFINE s == [job[j] EXCEPT !.pc = pc]
    <3>1. s \in JobStates /\ s.pc = pc /\ s.row = job[j].row BY <1>1 DEF JobStates
    <3>2. job' = [job EXCEPT ![j] = s] BY <2>2 DEF Goto
    <3>3. QED BY <3>1, <3>2
  <2>3. CASE job' = [job EXCEPT ![j].pc = pc, ![j].drop = drop]
    <3> DEFINE s == [job[j] EXCEPT !.pc = pc, !.drop = drop]
    <3>1. s \in JobStates /\ s.pc = pc /\ s.row = job[j].row BY <1>1 DEF JobStates
    <3>2. job' = [job EXCEPT ![j] = s] BY <1>1, <2>3
    <3>3. QED BY <3>1, <3>2
  <2>4. CASE job' = [job EXCEPT ![j].pc = pc, ![j].drop = drop, ![j].kept = kept]
    <3> DEFINE s == [job[j] EXCEPT !.pc = pc, !.drop = drop, !.kept = kept]
    <3>1. s \in JobStates /\ s.pc = pc /\ s.row = job[j].row BY <1>1 DEF JobStates
    <3>2. job' = [job EXCEPT ![j] = s] BY <1>1, <2>4
    <3>3. QED BY <3>1, <3>2
  <2>5. QED BY <2>1, <2>2, <2>3, <2>4
<1>3. job'[j] = s /\ (\A i \in Jobs : i # j => job'[i] = job[i]) /\ job' \in [Jobs -> JobStates]
  <2>0. job' = [job EXCEPT ![j] = s]
    BY <1>2, Zenon
  <2>1. DOMAIN job = Jobs
    BY <1>1
  <2>2. job'[j] = s /\ (\A i \in Jobs : i # j => job'[i] = job[i])
    BY <2>0, <2>1
  <2>3. job' \in [Jobs -> JobStates]
    BY <1>1, <2>0
  <2>4. QED BY <2>2, <2>3
<1>4. QED BY <1>2, <1>3

(* Every step of a call.                                                   *)
LEMMA ArchiveCall ==
    ASSUME ArchiveInv, CallsApart, NEW j \in Jobs,
           \/ Archive(j) \/ WriteFile(j) \/ Commit(j) \/ Unlink(j) \/ PruneRows(j)
           \/ DropRows(j) \/ SaveIndex(j) \/ EnforceRetention(j) \/ SetRetention(j)
    PROVE  ArchiveInv'
<1> USE ArchiveAssumption
<1>0. TypeOK /\ NoDoubles(index) /\ NoDoubles(listed)
  BY DEF ArchiveInv
<1>1. CASE Archive(j)
  <2>1. PICK row \in Summaries :
            ~Known(row) /\ job' = [job EXCEPT ![j] = [Idle EXCEPT !.pc = "write", !.row = row]]
    BY <1>1 DEF Archive
  <2>2. TypeOK'
    BY <1>0, <1>1, <2>1 DEF TypeOK, JobStates, Archive, Idle
  <2>3. ASSUME NEW i \in Jobs, Archiving(i)' PROVE job'[i].row \in Summaries /\ ~Known(job[i].row)'
    <3>1. CASE i = j  BY <1>0, <1>1, <2>1, <3>1 DEF Archive, Known, TypeOK, Idle
    <3>2. CASE i # j  BY <1>0, <1>1, <2>1, <2>3, <3>2 DEF Archive, Known, TypeOK, ArchiveInv, Archiving
    <3>3. QED BY <3>1, <3>2
  <2>4. QED BY <1>0, <1>1, <2>2, <2>3 DEF ArchiveInv, Archive, NoDoubles
<1>2. CASE WriteFile(j)
  <2>0. /\ job' \in [Jobs -> JobStates]
        /\ job'[j] = Idle \/ job'[j].row = job[j].row
        /\ \A i \in Jobs : i # j => job'[i] = job[i]
    BY <1>0, <1>2, CallMoves DEF WriteFile
  <2>1. TypeOK'
    <3>1. job[j].row \in Summaries
      BY <1>2 DEF WriteFile, ArchiveInv, Archiving
    <3>2. QED BY <1>0, <1>2, <2>0, <3>1 DEF TypeOK, WriteFile
  <2>2. ASSUME NEW i \in Jobs
        PROVE  Archiving(i)' => Archiving(i) /\ job'[i].row = job[i].row
    BY <1>2, <2>0 DEF WriteFile, Idle, Archiving
  <2>3. index' = index /\ listed' = listed
    BY <1>2 DEF WriteFile
  <2>4. QED BY <1>0, <2>1, <2>2, <2>3, StillUnknown DEF ArchiveInv, NoDoubles
<1>3. CASE Commit(j)
  <2> DEFINE row == job[j].row
  <2>1. row \in Summaries /\ ~Known(row) /\ Archiving(j)
    BY <1>3 DEF ArchiveInv, Commit, Archiving
  <2>2. index' = Append(index, row) /\ listed' = listed
    BY <1>3 DEF Commit
  <2>3. index \in Seq(Summaries)
    BY <1>0 DEF TypeOK
  <2>4. \A r \in ToSet(index) : ~OfOneSession(r, row)
    BY <2>1 DEF Known, OfOneSession
  <2>5. NoDoubles(Append(index, row))
    BY <1>0, <2>1, <2>3, <2>4, AppendNoDoubles
  <2>6. ToSet(index') = ToSet(index) \cup {row}
    <3> DEFINE more == Append(index, row)
    <3>1. /\ DOMAIN more = DOMAIN index \cup {Len(index) + 1}
          /\ \A i \in DOMAIN index : more[i] = index[i]
          /\ more[Len(index) + 1] = row
          /\ Len(index) + 1 \notin DOMAIN index
      BY <2>3, <2>1
    <3> HIDE DEF more
    <3>2. ToSet(more) = ToSet(index) \cup {row}
      BY <3>1, Zenon DEF ToSet
    <3>3. QED BY <3>2, <2>2 DEF more
  <2>7. TypeOK'
    <3>1. Phantoms(row) \in SUBSET Summaries
      BY <2>3 DEF Phantoms, ToSet
    <3>2. job' \in [Jobs -> JobStates]
      BY <1>0, <1>3, <3>1, CallMoves DEF Commit
    <3>3. index' \in Seq(Summaries)
      BY <2>1, <2>2, <2>3
    <3>4. QED BY <1>0, <1>3, <3>2, <3>3 DEF TypeOK, Commit
  <2>8. ASSUME NEW i \in Jobs, Archiving(i)' PROVE job'[i].row \in Summaries /\ ~Known(job[i].row)'
    <3>1. i # j /\ job'[i] = job[i]
      BY <1>0, <1>3, <2>8 DEF TypeOK, Commit, Archiving
    <3>2. Archiving(i) /\ job[i].row \in Summaries /\ ~Known(job[i].row)
      BY <2>8, <3>1 DEF ArchiveInv, Archiving
    <3>3. ~OfOneSession(row, job[i].row)
      BY <2>1, <3>1, <3>2 DEF CallsApart, OfOneSession
    <3>4. QED BY <2>6, <3>1, <3>2, <3>3 DEF Known, OfOneSession
  <2>9. QED BY <1>0, <2>2, <2>5, <2>7, <2>8 DEF ArchiveInv
<1>4. CASE Unlink(j)
  <2>1. TypeOK'
    <3>1. PICK r \in job[j].drop : job' = [job EXCEPT ![j].drop = @ \ {r}]
      BY <1>4 DEF Unlink
    <3> DEFINE s == [job[j] EXCEPT !.drop = @ \ {r}]
    <3>2. job \in [Jobs -> JobStates] /\ job[j] \in JobStates
      BY <1>0 DEF TypeOK
    <3>3. s \in JobStates
      BY <3>2 DEF JobStates
    <3>4. job' = [job EXCEPT ![j] = s]
      BY <3>1
    <3>5. job' \in [Jobs -> JobStates]
      BY <3>2, <3>3, <3>4
    <3>6. QED BY <1>0, <1>4, <3>5 DEF TypeOK, Unlink
  <2>2. ASSUME NEW i \in Jobs
        PROVE  Archiving(i)' => Archiving(i) /\ job'[i].row = job[i].row
    BY <1>0, <1>4 DEF TypeOK, Unlink, Archiving
  <2>3. index' = index /\ listed' = listed
    BY <1>4 DEF Unlink
  <2>4. QED BY <1>0, <2>1, <2>2, <2>3, StillUnknown DEF ArchiveInv, NoDoubles
<1>5. CASE PruneRows(j) \/ DropRows(j)
  <2>1. PICK chosen : index' = Filtered(index, chosen)
    BY <1>5 DEF PruneRows, DropRows
  <2>2. index \in Seq(Summaries)
    BY <1>0 DEF TypeOK
  <2>3. index' \in Seq(Summaries) /\ ToSet(index') \subseteq ToSet(index) /\ NoDoubles(index)'
    <3>1. index' \in Seq(Summaries) /\ ToSet(index') = ToSet(index) \cap chosen
      BY <2>1, <2>2, FilteredSet
    <3>2. NoDoubles(Filtered(index, chosen))
      BY <1>0, <2>2, FilteredNoDoubles
    <3>3. QED BY <2>1, <3>1, <3>2 DEF NoDoubles
  <2>4. TypeOK'
    <3>1. job' \in [Jobs -> JobStates]
      BY <1>0, <1>5, CallMoves DEF PruneRows, DropRows
    <3>2. QED BY <1>0, <1>5, <2>3, <3>1 DEF TypeOK, PruneRows, DropRows
  <2>5. ASSUME NEW i \in Jobs
        PROVE  Archiving(i)' => Archiving(i) /\ job'[i].row = job[i].row
    <3>1. /\ job'[j] = Idle \/ job'[j].pc \in {"save", "resave"}
          /\ \A k \in Jobs : k # j => job'[k] = job[k]
      BY <1>0, <1>5, CallMoves DEF PruneRows, DropRows
    <3>2. QED BY <3>1 DEF Idle, Archiving
  <2>6. listed' = listed
    BY <1>5 DEF PruneRows, DropRows
  <2>7. QED BY <1>0, <2>3, <2>4, <2>5, <2>6, StillUnknown DEF ArchiveInv, NoDoubles
<1>6. CASE SaveIndex(j)
  <2>0. /\ job' \in [Jobs -> JobStates]
        /\ job'[j] = Idle \/ job'[j].pc = "trim"
        /\ \A i \in Jobs : i # j => job'[i] = job[i]
    BY <1>0, <1>6, CallMoves DEF SaveIndex
  <2>1. TypeOK'
    BY <1>0, <1>6, <2>0 DEF TypeOK, SaveIndex
  <2>2. ASSUME NEW i \in Jobs
        PROVE  Archiving(i)' => Archiving(i) /\ job'[i].row = job[i].row
    BY <2>0 DEF Idle, Archiving
  <2>3. index' = index /\ listed' \in {listed, index}
    BY <1>6 DEF SaveIndex
  <2>4. QED BY <1>0, <2>1, <2>2, <2>3, StillUnknown DEF ArchiveInv, NoDoubles
<1>7. CASE EnforceRetention(j)
  <2>2. TypeOK'
    <3>1. CASE job' = [job EXCEPT ![j] = Idle]
      BY <1>0, <1>7, <3>1 DEF TypeOK, JobStates, EnforceRetention, Idle
    <3>2. CASE \E P \in SUBSET DOMAIN index :
                   job' = [job EXCEPT ![j].pc = "drop", ![j].drop = RowsAt(P), ![j].kept = RowsAt(DOMAIN index \ P)]
      <4>1. PICK P \in SUBSET DOMAIN index :
                   job' = [job EXCEPT ![j].pc = "drop", ![j].drop = RowsAt(P), ![j].kept = RowsAt(DOMAIN index \ P)]
        BY <3>2
      <4>2. RowsAt(P) \in SUBSET Summaries /\ RowsAt(DOMAIN index \ P) \in SUBSET Summaries
        BY <1>0 DEF TypeOK, RowsAt
      <4>3. job' \in [Jobs -> JobStates]
        BY <1>0, <4>1, <4>2, CallMoves
      <4>4. QED BY <1>0, <1>7, <4>3 DEF TypeOK, EnforceRetention
    <3>3. QED BY <1>7, <3>1, <3>2 DEF EnforceRetention, Leave
  <2>3. ASSUME NEW i \in Jobs
        PROVE  Archiving(i)' => Archiving(i) /\ job'[i].row = job[i].row
    <3>1. CASE job' = [job EXCEPT ![j] = Idle]
      BY <1>0, <3>1 DEF TypeOK, Idle, Archiving
    <3>2. CASE \E P \in SUBSET DOMAIN index :
                   job' = [job EXCEPT ![j].pc = "drop", ![j].drop = RowsAt(P), ![j].kept = RowsAt(DOMAIN index \ P)]
      BY <1>0, <3>2 DEF TypeOK, Archiving
    <3>3. QED BY <1>7, <3>1, <3>2 DEF EnforceRetention, Leave
  <2>4. index' = index /\ listed' = listed
    BY <1>7 DEF EnforceRetention
  <2>5. QED BY <1>0, <2>2, <2>3, <2>4, StillUnknown DEF ArchiveInv, NoDoubles
<1>8. CASE SetRetention(j)
  <2>1. TypeOK'
    BY <1>0, <1>8 DEF TypeOK, JobStates, SetRetention, Goto
  <2>2. ASSUME NEW i \in Jobs
        PROVE  Archiving(i)' => Archiving(i) /\ job'[i].row = job[i].row
    BY <1>0, <1>8 DEF TypeOK, SetRetention, Goto, Archiving
  <2>3. index' = index /\ listed' = listed
    BY <1>8 DEF SetRetention
  <2>4. QED BY <1>0, <2>1, <2>2, <2>3, StillUnknown DEF ArchiveInv, NoDoubles
<1>9. QED BY <1>1, <1>2, <1>3, <1>4, <1>5, <1>6, <1>7, <1>8

\* Every step keeps it.
LEMMA ArchiveStep ==
    ASSUME ArchiveInv, CallsApart, [Next]_vars
    PROVE  ArchiveInv'
<1>1. CASE Restart
  BY <1>1, ArchiveAssumption DEF Restart, ArchiveInv, TypeOK, JobStates, NoDoubles, Archiving, Idle
<1>2. CASE UNCHANGED vars
  BY <1>2 DEF vars, ArchiveInv, TypeOK, NoDoubles, Archiving, Known
<1>3. QED BY <1>1, <1>2, ArchiveCall DEF Next

(* As long as no two calls archive the same session at once, however they  *)
(* interleave otherwise, whatever write fails and wherever a restart falls,*)
(* index.json and the index have one row per session (archive()).          *)
THEOREM OneRowUnlessAtOnce ==
    Spec /\ []CallsApart => [](OneRowPerSession /\ NoDoubles(index))
<1>1. ArchiveInv => OneRowPerSession /\ NoDoubles(index)
  BY DEF ArchiveInv, OneRowPerSession, NoDoubles, OfOneSession
<1>2. QED BY <1>1, InitArchive, ArchiveStep, PTL DEF Spec

OneCall == \A i, j \in Jobs : i = j

(* One call at a time: what the run checks.                                *)
THEOREM OneRow ==
    ASSUME OneCall
    PROVE  Spec => []OneRowPerSession
<1>1. CallsApart
  BY DEF OneCall, CallsApart
<1>2. QED BY <1>1, OneRowUnlessAtOnce, PTL

-----------------------------------------------------------------------------
(***************************************************************************)
(* Why rows and files go, with one call at a time.  While a call prunes,   *)
(* the file and the row of its session are there; while it drops the       *)
(* oldest, the rows it keeps are as many as the cap, and all newer.        *)
(***************************************************************************)
Prunes(j) ==
    /\ job[j].row \in files \cap ToSet(index)
    /\ \A r \in job[j].drop : SameSession(job[j].row, r)
Trims(j) ==
    /\ keep > 0
    /\ IsFiniteSet(job[j].kept) /\ Cardinality(job[j].kept) = keep
    /\ job[j].kept \subseteq ToSet(index)
    /\ job[j].drop \cap job[j].kept = {}
    /\ \A r \in ToSet(index) \cup job[j].drop : r \notin job[j].kept =>
           \A q \in job[j].kept : r.end <= q.end

LeavingInv ==
    /\ ArchiveInv
    /\ \A j \in Jobs : /\ job[j].pc = "commit" => job[j].row \in files
                       /\ job[j].pc = "prune" => Prunes(j)
                       /\ job[j].pc = "drop" => Trims(j)

\* What a step does to the index, to index.json and to the files.
ForAReason ==
    /\ \A r \in ToSet(index) \ ToSet(index') :
           \/ Superseded(r, ToSet(index'))
           \/ BeyondCap(r, ToSet(index'))
           \/ restarts' # restarts /\ r \notin ToSet(listed)
    /\ ToSet(listed) \cap ToSet(index) \subseteq ToSet(listed')
    /\ \A r \in files \ files' :
           Superseded(r, files') \/ BeyondCap(r, ToSet(index))

\* What a list holds is finite.
LEMMA RowsAreFinite ==
    ASSUME NEW S, NEW rows0 \in Seq(S)
    PROVE  IsFiniteSet(ToSet(rows0))
<1>1. rows0 \in [1 .. Len(rows0) -> ToSet(rows0)] /\ Len(rows0) \in Nat
  BY DEF ToSet
<1>2. \A r \in ToSet(rows0) : \E i \in 1 .. Len(rows0) : rows0[i] = r
  <2>1. DOMAIN rows0 = 1 .. Len(rows0)
    OBVIOUS
  <2>2. QED BY <2>1, Zenon DEF ToSet
<1>3. rows0 \in Surjection(1 .. Len(rows0), ToSet(rows0))
  BY <1>1, <1>2, Zenon DEF Surjection
<1>4. IsFiniteSet(1 .. Len(rows0))
  BY <1>1, FS_Interval
<1>5. QED BY <1>3, <1>4, FS_Surjection

\* As many rows as the cap are newer than one that is not kept.
LEMMA OthersAreKept ==
    ASSUME NEW S, IsFiniteSet(S), NEW kept \in SUBSET S, NEW r, r \notin kept,
           keep \in Nat, keep > 0, Cardinality(kept) = keep,
           \A q \in kept : q.end >= r.end
    PROVE  BeyondCap(r, S)
<1> DEFINE newer == {q \in S \ {r} : q.end >= r.end}
<1>1. kept \in SUBSET newer /\ newer \in SUBSET S
  OBVIOUS
<1> HIDE DEF newer
<1>2. IsFiniteSet(newer) /\ Cardinality(newer) \in Nat
  BY <1>1, FS_Subset, FS_CardinalityType
<1>3. keep <= Cardinality(newer)
  BY <1>1, <1>2, FS_Subset
<1>4. Cardinality(newer) >= keep
  BY <1>2, <1>3
<1>5. QED BY <1>4 DEF BeyondCap, newer

\* Different places have different rows, so that as many rows are kept as places.
LEMMA KeptAreKeep ==
    ASSUME index \in Seq(Summaries), NoDoubles(index), NEW K \in SUBSET DOMAIN index
    PROVE  IsFiniteSet(RowsAt(K)) /\ Cardinality(RowsAt(K)) = Cardinality(K)
<1> DEFINE at == [i \in K |-> index[i]]
<1>1. \A i, k \in K : index[i] = index[k] => i = k
  BY DEF NoDoubles, OfOneSession
<1>2. at \in Bijection(K, RowsAt(K))
  BY <1>1 DEF Bijection, Injection, Surjection, IsInjective, RowsAt
<1>3. IsFiniteSet(K)
  <2>1. DOMAIN index = 1 .. Len(index) /\ Len(index) \in Nat
    OBVIOUS
  <2>2. QED BY <2>1, Positions
<1>4. ExistsBijection(K, RowsAt(K))
  BY <1>2, Zenon DEF ExistsBijection
<1>5. QED BY <1>3, <1>4, FS_Bijection

LEMMA LeavingStarts == Init => LeavingInv
  BY InitArchive DEF Init, LeavingInv, Idle

\* Every step of a call.
LEMMA LeavingCall ==
    ASSUME LeavingInv, OneCall, NEW j \in Jobs,
           \/ Archive(j) \/ WriteFile(j) \/ Commit(j) \/ Unlink(j) \/ PruneRows(j)
           \/ DropRows(j) \/ SaveIndex(j) \/ EnforceRetention(j) \/ SetRetention(j),
           ArchiveInv'
    PROVE  LeavingInv' /\ ForAReason
<1> USE ArchiveAssumption
<1>0. /\ TypeOK /\ job \in [Jobs -> JobStates] /\ job[j] \in JobStates
      /\ index \in Seq(Summaries) /\ listed \in Seq(Summaries) /\ keep \in Nat
      /\ job[j].pc = "commit" => job[j].row \in files
      /\ job[j].pc = "prune" => Prunes(j)
      /\ job[j].pc = "drop" => Trims(j)
  BY DEF LeavingInv, ArchiveInv, TypeOK
<1>1. \A i \in Jobs : i = j
  BY DEF OneCall
<1>2. SUFFICES ASSUME TRUE
               PROVE  /\ job'[j].pc = "commit" => job'[j].row \in files'
                      /\ job'[j].pc = "prune" => Prunes(j)'
                      /\ job'[j].pc = "drop" => Trims(j)'
                      /\ ForAReason
  BY <1>1 DEF LeavingInv, Prunes, Trims
<1>3. CASE Archive(j)
  BY <1>0, <1>3 DEF Archive, ForAReason, Idle
<1>4. CASE WriteFile(j)
  <2>1. CASE files' = files \cup {job[j].row} /\ Goto(j, "commit")
    <3>1. job'[j].pc = "commit" /\ job'[j].row = job[j].row
      BY <1>0, <2>1 DEF Goto, JobStates
    <3>2. QED BY <1>4, <2>1, <3>1 DEF WriteFile, ForAReason
  <2>2. CASE UNCHANGED files /\ Leave(j)
    BY <1>0, <1>4, <2>2 DEF WriteFile, Leave, ForAReason, Idle
  <2>3. QED BY <1>4, <2>1, <2>2 DEF WriteFile
<1>5. CASE Commit(j)
  <2>1. /\ job'[j].pc = (IF job[j].row.canonical THEN "prune" ELSE "save")
        /\ job'[j].row = job[j].row /\ job'[j].drop = Phantoms(job[j].row)
    BY <1>0, <1>5 DEF Commit, JobStates
  <2>2. ToSet(index') = ToSet(index) \cup {job[j].row}
    <3> DEFINE row == job[j].row
               more == Append(index, row)
    <3>1. /\ DOMAIN more = DOMAIN index \cup {Len(index) + 1}
          /\ \A i \in DOMAIN index : more[i] = index[i]
          /\ more[Len(index) + 1] = row
      BY <1>0
    <3> HIDE DEF more
    <3>2. ToSet(more) = ToSet(index) \cup {row}
      BY <3>1, Zenon DEF ToSet
    <3>3. QED BY <3>2, <1>5 DEF Commit, more
  <2>3. job[j].row \in files /\ files' = files /\ listed' = listed
    BY <1>0, <1>5 DEF Commit
  <2>4. Prunes(j)'
    BY <2>1, <2>2, <2>3 DEF Prunes, Phantoms
  <2>5. ForAReason
    BY <2>2, <2>3 DEF ForAReason
  <2>6. QED BY <2>1, <2>4, <2>5
<1>6. CASE Unlink(j)
  <2>1. PICK r \in job[j].drop : /\ job' = [job EXCEPT ![j].drop = @ \ {r}]
                                 /\ files' = files \ {r} \/ UNCHANGED files
    BY <1>6 DEF Unlink
  <2>2. /\ job'[j].pc = job[j].pc /\ job'[j].row = job[j].row /\ job'[j].kept = job[j].kept
        /\ job'[j].drop = job[j].drop \ {r} /\ job[j].pc \in {"prune", "drop"}
    BY <1>0, <1>6, <2>1 DEF Unlink, JobStates
  <2>3. index' = index /\ listed' = listed /\ keep' = keep
    BY <1>6 DEF Unlink
  <2>4. CASE job[j].pc = "prune"
    <3>1. Prunes(j) /\ SameSession(job[j].row, r)
      BY <1>0, <2>1, <2>4 DEF Prunes
    <3>2. job[j].row # r
      BY <3>1 DEF SameSession
    <3>3. job[j].row \in files'
      BY <2>1, <3>1, <3>2 DEF Prunes
    <3>4. Prunes(j)'
      BY <2>2, <2>3, <3>1, <3>3 DEF Prunes
    <3>5. Superseded(r, files')
      BY <3>1, <3>3 DEF Superseded
    <3>6. ForAReason
      BY <2>1, <2>3, <3>5 DEF ForAReason
    <3>7. QED BY <2>2, <2>4, <3>4, <3>6
  <2>5. CASE job[j].pc = "drop"
    <3>1. Trims(j)
      BY <1>0, <2>5
    <3>2. Trims(j)'
      BY <2>2, <2>3, <3>1 DEF Trims
    <3>3. IsFiniteSet(ToSet(index))
      BY <1>0, RowsAreFinite
    <3>4. r \notin job[j].kept
      BY <2>1, <3>1 DEF Trims
    <3>5. \A q \in job[j].kept : r.end <= q.end
      BY <2>1, <3>1, <3>4 DEF Trims
    <3>6. r \in Summaries /\ job[j].kept \subseteq Summaries
      BY <1>0, <2>1 DEF JobStates
    <3>7. \A q \in job[j].kept : q.end >= r.end
      BY <3>5, <3>6
    <3>8. BeyondCap(r, ToSet(index))
      BY <1>0, <3>1, <3>3, <3>4, <3>7, OthersAreKept DEF Trims
    <3>9. ForAReason
      BY <2>1, <2>3, <3>8 DEF ForAReason
    <3>10. QED BY <2>2, <2>5, <3>2, <3>9
  <2>6. QED BY <2>2, <2>4, <2>5
<1>7. CASE PruneRows(j)
  <2> DEFINE chosen == ToSet(index) \ Phantoms(job[j].row)
  <2>1. ToSet(index') = chosen
    <3>1. ToSet(Filtered(index, chosen)) = ToSet(index) \cap chosen
      BY <1>0, FilteredSet
    <3>2. QED BY <1>7, <3>1 DEF PruneRows
  <2>2. job'[j].pc = "save" /\ files' = files /\ listed' = listed
    BY <1>0, <1>7 DEF PruneRows, Goto, JobStates
  <2>3. job[j].row \in ToSet(index')
    BY <1>0, <1>7, <2>1 DEF PruneRows, Prunes, Phantoms, SameSession
  <2>4. \A r \in ToSet(index) \ ToSet(index') : SameSession(job[j].row, r)
    BY <2>1 DEF Phantoms
  <2>5. \A r \in ToSet(index) \ ToSet(index') : Superseded(r, ToSet(index'))
    BY <2>3, <2>4 DEF Superseded
  <2>6. ForAReason
    BY <2>2, <2>5 DEF ForAReason
  <2>7. QED BY <2>2, <2>6
<1>8. CASE DropRows(j)
  <2>1. Trims(j)
    BY <1>0, <1>8 DEF DropRows
  <2>2. ToSet(index') = job[j].kept
    <3>1. ToSet(Filtered(index, job[j].kept)) = ToSet(index) \cap job[j].kept
      BY <1>0, FilteredSet
    <3>2. QED BY <1>8, <2>1, <3>1 DEF DropRows, Trims
  <2>3. job'[j].pc = "resave" /\ files' = files /\ listed' = listed
    BY <1>0, <1>8 DEF DropRows, Goto, JobStates
  <2>4. ASSUME NEW r \in ToSet(index), r \notin ToSet(index') PROVE BeyondCap(r, ToSet(index'))
    <3>1. r \notin job[j].kept /\ \A q \in job[j].kept : r.end <= q.end
      BY <2>1, <2>2, <2>4 DEF Trims
    <3>2. r \in Summaries /\ job[j].kept \subseteq Summaries
      BY <1>0 DEF JobStates, ToSet
    <3>3. \A q \in job[j].kept : q.end >= r.end
      BY <3>1, <3>2
    <3>4. BeyondCap(r, job[j].kept)
      BY <1>0, <2>1, <3>1, <3>3, OthersAreKept DEF Trims
    <3>5. QED BY <2>2, <3>4
  <2>5. ForAReason
    BY <2>3, <2>4 DEF ForAReason
  <2>6. QED BY <2>3, <2>5
<1>9. CASE SaveIndex(j)
  <2>1. job'[j].pc \in {"trim", "idle"}
    BY <1>0, <1>9 DEF SaveIndex, Goto, Leave, Idle, JobStates
  <2>2. index' = index /\ files' = files /\ listed' \in {listed, index}
    BY <1>9 DEF SaveIndex
  <2>3. ForAReason
    BY <2>2 DEF ForAReason
  <2>4. QED BY <2>1, <2>3
<1>10. CASE EnforceRetention(j)
  <2>1. index' = index /\ files' = files /\ listed' = listed /\ keep' = keep
    BY <1>10 DEF EnforceRetention
  <2>2. ForAReason
    BY <2>1 DEF ForAReason
  <2>3. CASE Leave(j)
    BY <1>0, <2>2, <2>3 DEF Leave, Idle
  <2>4. CASE ~(keep = 0 \/ Len(index) <= keep) /\ ~Leave(j)
    <3>1. PICK P \in SUBSET DOMAIN index :
              /\ Excess(P)
              /\ job' = [job EXCEPT ![j].pc = "drop", ![j].drop = RowsAt(P),
                                    ![j].kept = RowsAt(DOMAIN index \ P)]
      BY <1>10, <2>4 DEF EnforceRetention
    <3> DEFINE K == DOMAIN index \ P
    <3>2. /\ job'[j].pc = "drop" /\ job'[j].drop = RowsAt(P) /\ job'[j].kept = RowsAt(K)
      BY <1>0, <3>1 DEF JobStates
    <3>3. keep > 0 /\ DOMAIN index = 1 .. Len(index) /\ Len(index) \in Nat
      BY <1>0, <2>4
    <3>4. Cardinality(P) = Len(index) - keep
          /\ \A i \in P, k \in K : index[i].end <= index[k].end
      BY <3>1 DEF Excess
    <3>5. Cardinality(K) = keep
      <4>1. IsFiniteSet(1 .. Len(index)) /\ Cardinality(1 .. Len(index)) = Len(index)
        <5>1. 1 \in Int /\ Len(index) \in Int /\ (1 > Len(index) => Len(index) = 0) /\ Len(index) - 1 + 1 = Len(index)
          BY <3>3
        <5>2. QED BY <5>1, FS_Interval
      <4>2. Cardinality(K) = Cardinality(1 .. Len(index)) - Cardinality((1 .. Len(index)) \cap P)
        BY <3>3, <4>1, FS_Difference
      <4>3. (1 .. Len(index)) \cap P = P
        BY <3>3, Zenon
      <4> HIDE DEF K
      <4>4. Cardinality(K) = Len(index) - (Len(index) - keep)
        BY <3>4, <4>1, <4>2, <4>3
      <4>5. QED BY <1>0, <3>3, <4>4
    <3>6. \A i, k \in DOMAIN index : index[i] = index[k] => i = k
      BY DEF LeavingInv, ArchiveInv, NoDoubles, OfOneSession
    <3>7. IsFiniteSet(RowsAt(K)) /\ Cardinality(RowsAt(K)) = keep
      <4>1. K \in SUBSET DOMAIN index /\ index \in Seq(Summaries) /\ NoDoubles(index)
        BY <1>0 DEF LeavingInv, ArchiveInv
      <4> HIDE DEF K
      <4>2. QED BY <3>5, <4>1, KeptAreKeep
    <3>8. RowsAt(K) \subseteq ToSet(index)
      BY DEF RowsAt, ToSet
    <3>9. RowsAt(P) \cap RowsAt(K) = {}
      BY <3>1, <3>6 DEF RowsAt
    <3>10. ASSUME NEW r \in ToSet(index) \cup RowsAt(P), r \notin RowsAt(K), NEW q \in RowsAt(K)
           PROVE  r.end <= q.end
      <4>1. PICK k \in K : q = index[k]
        BY DEF RowsAt
      <4>2. PICK i \in DOMAIN index : r = index[i]
        BY DEF RowsAt, ToSet
      <4>3. i \in P
        BY <3>10, <4>2 DEF RowsAt
      <4>4. QED BY <3>4, <4>1, <4>2, <4>3
    <3>11. Trims(j)'
      BY <2>1, <3>2, <3>3, <3>7, <3>8, <3>9, <3>10 DEF Trims
    <3>12. QED BY <2>2, <3>2, <3>11
  <2>5. QED BY <1>10, <2>3, <2>4 DEF EnforceRetention
<1>11. CASE SetRetention(j)
  <2>1. job'[j].pc = "trim"
    BY <1>0, <1>11 DEF SetRetention, Goto, JobStates
  <2>2. QED BY <1>11, <2>1 DEF SetRetention, ForAReason
<1>12. QED BY <1>3, <1>4, <1>5, <1>6, <1>7, <1>8, <1>9, <1>10, <1>11

\* Every step.
LEMMA LeavingStep ==
    ASSUME LeavingInv, OneCall, [Next]_vars
    PROVE  LeavingInv' /\ ForAReason
<1>1. ArchiveInv'
  <2>1. CallsApart
    BY DEF OneCall, CallsApart
  <2>2. QED BY <2>1, ArchiveStep DEF LeavingInv
<1>2. CASE UNCHANGED vars
  BY <1>1, <1>2 DEF vars, LeavingInv, Prunes, Trims, ForAReason
<1>3. CASE Restart
  <2>1. \A j \in Jobs : job'[j] = Idle
    BY <1>3 DEF Restart
  <2>2. restarts' # restarts /\ index' = listed /\ files' = files /\ listed' = listed
    BY <1>3, ArchiveAssumption DEF Restart, LeavingInv, ArchiveInv, TypeOK
  <2>3. QED BY <1>1, <2>1, <2>2 DEF LeavingInv, ForAReason, Idle
<1>4. QED BY <1>1, <1>2, <1>3, LeavingCall DEF Next

(* With one call at a time rows and files go for a reason only, whatever   *)
(* fails on the disk and wherever a restart falls, for any sessions and    *)
(* caps (_prune_incomplete_for, _enforce_retention).                       *)
THEOREM SessionsAreKept ==
    ASSUME OneCall
    PROVE  Spec => SessionsLeaveForAReason
<1>1. LeavingInv /\ [Next]_vars => LeavingInv' /\ [ForAReason]_vars
  BY LeavingStep
<1>2. Spec => []LeavingInv
  BY <1>1, LeavingStarts, PTL DEF Spec
<1>3. QED BY <1>1, <1>2, PTL DEF Spec, SessionsLeaveForAReason, ForAReason

-----------------------------------------------------------------------------
(***************************************************************************)
(* The scans of the mower.  A row is borne by the one job that is to list  *)
(* it, and by none once it is listed; a row without its file is one that a *)
(* job is about to take off the list, so that none is left when the jobs   *)
(* have ended.                                                             *)
(***************************************************************************)
AnyScan == ToSet(CloudScans)
AnyRow == [scan : AnyScan, ts : Nat]
IsJob(j) ==
    j = [who |-> j.who, map |-> j.map, row |-> j.row, pc |-> j.pc, cap |-> j.cap, kept |-> j.kept, to |-> j.to]

Comes(j) == j.pc \in {"fetch", "has", "write"}
Moves(j) == j.pc \in {"unlist", "list"} /\ j.to # None
Bears(j) == Comes(j) \/ j.pc = "append" \/ Moves(j)
\* The directory that has the file of a row that is not listed yet.
Holder(j) == IF j.pc = "append" THEN j.map ELSE j.to
Removes(j, m, row) ==
    /\ j.map = m
    /\ (j.pc = "assign" /\ row \notin j.kept) \/ (j.pc = "unlist" /\ row = j.row)
PlannedRow(i) == [scan |-> backfill.todo[i], ts |-> backfill.ts]

JobOK(j) ==
    /\ IsJob(j)
    /\ j.map \in Lawns
    /\ Moves(j) => j.to \in Lawns \ {j.map}
    /\ j.pc = "list" => j.to # None
    /\ Bears(j) => j.row \in AnyRow /\ j.row.ts <= clock

ScansTyped ==
    /\ listing \in [Lawns -> Seq(AnyRow)]
    /\ stored \in [Lawns -> SUBSET AnyRow]
    /\ clock \in Nat
    /\ activeLawn \in Lawns \cup {None}
    /\ backfill # None =>
           /\ backfill \in [map : Lawns, ts : Nat, todo : Seq(AnyScan)]
           /\ backfill.ts <= clock
    /\ \A j \in jobs : JobOK(j)
NoneAhead == \A m \in Lawns : \A row \in RowsOf(m) \cup stored[m] : row.ts <= clock
OneBearer == \A j, k \in jobs : Bears(j) /\ Bears(k) /\ j.row = k.row => j = k
NotListedYet ==
    \A j \in jobs : Bears(j) => \A m \in Lawns : j.row \in RowsOf(m) => j.pc = "unlist" /\ m = j.map
FileIsHeld ==
    \A j \in jobs : /\ j.pc = "append" \/ Moves(j) => j.row \in stored[Holder(j)]
                    /\ Comes(j) => \A m \in Lawns : j.row \notin stored[m]
InOnePlace ==
    \A m, n \in Lawns : m # n => /\ \A row \in RowsOf(m) : row \notin RowsOf(n)
                                 /\ \A row \in stored[m] : row \notin stored[n]
Accounted == \A m \in Lawns : \A row \in RowsOf(m) \ stored[m] : \E j \in jobs : Removes(j, m, row)
PlannedAreNew ==
    backfill # None =>
        /\ \A i, k \in DOMAIN backfill.todo : backfill.todo[i] = backfill.todo[k] => i = k
        /\ \A i \in DOMAIN backfill.todo :
               /\ \A m \in Lawns : PlannedRow(i) \notin RowsOf(m) /\ PlannedRow(i) \notin stored[m]
               /\ \A j \in jobs : Bears(j) => j.row # PlannedRow(i)
ScansInv ==
    /\ ScansTyped /\ NoneAhead /\ OneBearer /\ NotListedYet /\ FileIsHeld /\ InOnePlace
    /\ Accounted /\ PlannedAreNew

\* No lawn has scans at first.
LEMMA InitScans == ScansInit => ScansInv
<1>1. SUFFICES ASSUME ScansInit PROVE ScansInv
  OBVIOUS
<1>2. \A m \in Lawns : RowsOf(m) = {} /\ stored[m] = {}
  BY <1>1 DEF ScansInit, RowsOf, ToSet
<1>3. ScansTyped
  BY <1>1 DEF ScansInit, ScansTyped
<1>4. NoneAhead /\ InOnePlace /\ Accounted
  BY <1>2 DEF NoneAhead, InOnePlace, Accounted
<1>5. OneBearer /\ NotListedYet /\ FileIsHeld /\ PlannedAreNew
  BY <1>1 DEF ScansInit, OneBearer, NotListedYet, FileIsHeld, PlannedAreNew
<1>6. QED BY <1>3, <1>4, <1>5 DEF ScansInv

\* What the invariant is for.
LEMMA FilesAreThere == ScansInv => RowsHaveFiles
  BY DEF ScansInv, Accounted, RowsHaveFiles

(* What a job becomes.                                                     *)
LEMMA JobGoes ==
    ASSUME NEW j, IsJob(j), NEW pc, NEW k, k = [j EXCEPT !.pc = pc]
    PROVE  IsJob(k) /\ k.pc = pc /\ k.map = j.map /\ k.row = j.row /\ k.to = j.to /\ k.kept = j.kept
BY DEF IsJob

\* A job that begins.
LEMMA JobBegins ==
    ASSUME NEW who, NEW m, NEW scan, NEW ts, NEW pc, NEW k, k = NewJob(who, m, scan, ts, pc)
    PROVE  IsJob(k) /\ k.pc = pc /\ k.map = m /\ k.row = [scan |-> scan, ts |-> ts] /\ k.to = None
BY DEF IsJob, NewJob

(* A row more on a list.                                                   *)
LEMMA RowMore ==
    ASSUME NEW S, NEW list \in Seq(S), NEW row \in S
    PROVE  Append(list, row) \in Seq(S) /\ ToSet(Append(list, row)) = ToSet(list) \cup {row}
<1>1. Append(list, row) \in Seq(S) /\ Len(Append(list, row)) = Len(list) + 1 /\ Append(list, row)[Len(list) + 1] = row
      /\ \A i \in 1 .. Len(list) : Append(list, row)[i] = list[i]
  OBVIOUS
<1>2. ToSet(Append(list, row)) \subseteq ToSet(list) \cup {row}
  <2>1. SUFFICES ASSUME NEW i \in DOMAIN Append(list, row) PROVE Append(list, row)[i] \in ToSet(list) \cup {row}
    BY DEF ToSet
  <2>2. i \in 1 .. Len(list) + 1 /\ Len(list) \in Nat /\ DOMAIN list = 1 .. Len(list)
    BY <1>1
  <2>3. CASE i = Len(list) + 1
    BY <1>1, <2>3
  <2>4. CASE i # Len(list) + 1
    BY <1>1, <2>2, <2>4 DEF ToSet
  <2>5. QED BY <2>3, <2>4
<1>3. ToSet(list) \cup {row} \subseteq ToSet(Append(list, row))
  <2>1. Len(list) \in Nat /\ DOMAIN list = 1 .. Len(list) /\ DOMAIN Append(list, row) = 1 .. Len(list) + 1
    BY <1>1
  <2>2. row \in ToSet(Append(list, row))
    BY <1>1, <2>1 DEF ToSet
  <2>3. ASSUME NEW i \in DOMAIN list PROVE list[i] \in ToSet(Append(list, row))
    BY <1>1, <2>1 DEF ToSet
  <2>4. QED BY <2>2, <2>3 DEF ToSet
<1>4. QED BY <1>1, <1>2, <1>3

(* A step that leaves the lists and the files alone: what is to be seen of *)
(* the jobs.                                                               *)
LEMMA JobsStep ==
    ASSUME ScansInv, ScansTyped', UNCHANGED <<listing, stored>>, clock <= clock', clock' \in Nat,
           backfill' = backfill \/ backfill' = None,
           \A i \in jobs' \ jobs : Bears(i) =>
               Comes(i) /\ \E j \in jobs \ jobs' : Comes(j) /\ j.row = i.row,
           \A i, k \in jobs' \ jobs : Bears(i) /\ Bears(k) => i = k,
           \A i \in jobs \ jobs' : Comes(i) \/ i.pc = "prune"
    PROVE  ScansInv'
<1>1. \A m : UNCHANGED RowsOf(m)
  BY DEF RowsOf
<1>2. ASSUME NEW i \in jobs', Bears(i)
      PROVE  \E j \in jobs : Bears(j) /\ j.row = i.row /\ (i = j \/ (i \notin jobs /\ Comes(i) /\ Comes(j) /\ j \notin jobs'))
  BY <1>2 DEF Bears
<1>3. NoneAhead'
  <2>1. ASSUME NEW m \in Lawns, NEW row \in RowsOf(m) \cup stored[m] PROVE row.ts <= clock'
    <3>1. row.ts <= clock
      BY DEF ScansInv, NoneAhead
    <3>2. row \in AnyRow
      <4>1. listing[m] \in Seq(AnyRow) /\ stored[m] \in SUBSET AnyRow
        BY DEF ScansInv, ScansTyped
      <4>2. QED BY <4>1 DEF RowsOf, ToSet
    <3>3. row.ts \in Nat /\ clock \in Nat
      BY <3>2 DEF AnyRow, ScansInv, ScansTyped
    <3>4. QED BY <3>1, <3>3
  <2>2. QED BY <1>1, <2>1 DEF NoneAhead
<1>4. OneBearer'
  <2>1. SUFFICES ASSUME NEW i \in jobs', NEW k \in jobs', Bears(i), Bears(k), i.row = k.row PROVE i = k
    BY DEF OneBearer
  <2>2. PICK j \in jobs : Bears(j) /\ j.row = i.row /\ (i = j \/ (i \notin jobs /\ Comes(i) /\ Comes(j) /\ j \notin jobs'))
    BY <1>2, <2>1
  <2>3. PICK l \in jobs : Bears(l) /\ l.row = k.row /\ (k = l \/ (k \notin jobs /\ Comes(k) /\ Comes(l) /\ l \notin jobs'))
    BY <1>2, <2>1
  <2>4. j = l
    BY <2>1, <2>2, <2>3 DEF ScansInv, OneBearer
  <2>5. QED BY <2>1, <2>2, <2>3, <2>4
<1>5. NotListedYet'
  <2>1. SUFFICES ASSUME NEW i \in jobs', Bears(i), NEW m \in Lawns, i.row \in RowsOf(m) PROVE i.pc = "unlist" /\ m = i.map
    BY <1>1 DEF NotListedYet
  <2>2. PICK j \in jobs : Bears(j) /\ j.row = i.row /\ (i = j \/ (i \notin jobs /\ Comes(i) /\ Comes(j) /\ j \notin jobs'))
    BY <1>2, <2>1
  <2>3. j.pc = "unlist" /\ m = j.map
    BY <2>1, <2>2 DEF ScansInv, NotListedYet
  <2>4. QED BY <2>2, <2>3 DEF Comes
<1>6. FileIsHeld'
  <2>1. SUFFICES ASSUME NEW i \in jobs'
                 PROVE  /\ i.pc = "append" \/ Moves(i) => i.row \in stored[Holder(i)]
                        /\ Comes(i) => \A m \in Lawns : i.row \notin stored[m]
    BY DEF FileIsHeld
  <2>2. CASE Bears(i)
    <3>1. PICK j \in jobs : Bears(j) /\ j.row = i.row /\ (i = j \/ (i \notin jobs /\ Comes(i) /\ Comes(j) /\ j \notin jobs'))
      BY <1>2, <2>2
    <3>2. CASE i = j
      BY <3>2 DEF ScansInv, FileIsHeld
    <3>3. CASE i # j
      BY <3>1, <3>3 DEF ScansInv, FileIsHeld, Comes, Moves
    <3>4. QED BY <3>2, <3>3
  <2>3. CASE ~Bears(i)
    BY <2>3 DEF Bears
  <2>4. QED BY <2>2, <2>3
<1>7. InOnePlace'
  BY <1>1 DEF ScansInv, InOnePlace
<1>8. Accounted'
  <2>1. ASSUME NEW m \in Lawns, NEW row \in RowsOf(m) \ stored[m] PROVE \E j \in jobs' : Removes(j, m, row)
    <3>1. PICK j \in jobs : Removes(j, m, row)
      BY DEF ScansInv, Accounted
    <3>2. j \in jobs'
      BY <3>1 DEF Removes, Comes
    <3>3. QED BY <3>1, <3>2
  <2>2. QED BY <1>1, <2>1 DEF Accounted
<1>9. PlannedAreNew'
  <2>1. SUFFICES ASSUME backfill' = backfill, backfill # None PROVE PlannedAreNew'
    BY DEF PlannedAreNew
  <2>2. \A i \in DOMAIN backfill.todo : \A j \in jobs' : Bears(j) => j.row # PlannedRow(i)
    BY <1>2, <2>1 DEF ScansInv, PlannedAreNew
  <2>3. QED BY <1>1, <2>1, <2>2 DEF ScansInv, PlannedAreNew, PlannedRow
<1>10. QED BY <1>3, <1>4, <1>5, <1>6, <1>7, <1>8, <1>9 DEF ScansInv

(* The types after a step.                                                 *)
LEMMA StepTyped ==
    ASSUME ScansInv, listing' \in [Lawns -> Seq(AnyRow)], stored' \in [Lawns -> SUBSET AnyRow], clock' \in Nat, clock <= clock',
           activeLawn' \in Lawns \cup {None}, backfill' = backfill \/ backfill' = None,
           \A i \in jobs' \ jobs : JobOK(i)'
    PROVE  ScansTyped'
<1>1. \A i \in jobs : JobOK(i)'
  <2>1. SUFFICES ASSUME NEW i \in jobs PROVE JobOK(i)'
    OBVIOUS
  <2>2. JobOK(i)
    BY DEF ScansInv, ScansTyped
  <2>3. Bears(i) => i.row \in AnyRow /\ i.row.ts <= clock'
    <3>1. SUFFICES ASSUME Bears(i) PROVE i.row \in AnyRow /\ i.row.ts <= clock'
      OBVIOUS
    <3>2. i.row \in AnyRow /\ i.row.ts <= clock /\ clock \in Nat
      BY <2>2, <3>1 DEF JobOK, ScansInv, ScansTyped
    <3>3. i.row.ts \in Nat
      BY <3>2 DEF AnyRow
    <3>4. QED BY <3>2, <3>3
  <2>4. QED BY <2>2, <2>3 DEF JobOK
<1>2. backfill' # None => backfill' \in [map : Lawns, ts : Nat, todo : Seq(AnyScan)] /\ backfill'.ts <= clock'
  <2>1. SUFFICES ASSUME backfill' = backfill, backfill # None
                 PROVE  backfill \in [map : Lawns, ts : Nat, todo : Seq(AnyScan)] /\ backfill.ts <= clock'
    OBVIOUS
  <2>2. backfill \in [map : Lawns, ts : Nat, todo : Seq(AnyScan)] /\ backfill.ts <= clock /\ clock \in Nat
    BY <2>1 DEF ScansInv, ScansTyped
  <2>3. backfill.ts \in Nat
    BY <2>2
  <2>4. QED BY <2>2, <2>3
<1>3. QED BY <1>1, <1>2 DEF ScansTyped

\* A job of the mower.
LEMMA JobsTyped ==
    ASSUME ScansInv, UNCHANGED <<listing, stored>>, clock' \in Nat, clock <= clock',
           activeLawn' \in Lawns \cup {None}, backfill' = backfill \/ backfill' = None,
           \A i \in jobs' \ jobs : JobOK(i)'
    PROVE  ScansTyped'
BY StepTyped DEF ScansInv, ScansTyped

(* A download goes on, a cap is not exceeded, the options change, the map  *)
(* becomes known, or Home Assistant stops between jobs.                    *)
LEMMA QuietStep ==
    ASSUME ScansInv,
           \/ \E j \in jobs : ScanFetched(j) \/ CheckHas(j)
           \/ \E j \in jobs : PruneFiles(j) /\ UNCHANGED stored /\ NextCap(j)
           \/ \E cap, size \in Caps : ChangeOptions(cap, size)
           \/ \E m \in Lawns : KnowLawn(m)
           \/ StopAndStart
    PROVE  ScansInv'
<1>0. clock \in Nat /\ clock <= clock /\ activeLawn \in Lawns \cup {None} /\ \A j \in jobs : JobOK(j)
  BY DEF ScansInv, ScansTyped
<1>1. CASE \E j \in jobs : ScanFetched(j) \/ CheckHas(j)
  <2>1. PICK j \in jobs : ScanFetched(j) \/ CheckHas(j)
    BY <1>1
  <2>2. /\ UNCHANGED <<listing, stored, activeLawn, backfill, clock>> /\ Comes(j)
        /\ \E pc \in {"has", "write"} : pc # j.pc /\ (GoesTo(j, pc) \/ Ends(j))
    BY <2>1 DEF ScanFetched, CheckHas, Comes
  <2>3. PICK pc \in {"has", "write"} : pc # j.pc /\ (GoesTo(j, pc) \/ Ends(j))
    BY <2>2
  <2>4. PICK k : k = [j EXCEPT !.pc = pc]
    OBVIOUS
  <2>5. IsJob(k) /\ k.pc = pc /\ k.map = j.map /\ k.row = j.row /\ k.to = j.to /\ JobOK(j)
    BY <1>0, <2>4, JobGoes DEF JobOK
  <2>6. jobs' = (jobs \ {j}) \cup {k} \/ jobs' = jobs \ {j}
    BY <2>3, <2>4 DEF GoesTo, Ends
  <2>7. k # j /\ Comes(k) /\ ~Moves(k) /\ j \notin jobs'
    BY <2>3, <2>5, <2>6 DEF Comes, Moves
  <2>8. JobOK(k)'
    BY <2>2, <2>3, <2>5, <2>7 DEF JobOK, Bears
  <2>9. ScansTyped'
    BY <1>0, <2>2, <2>6, <2>8, JobsTyped
  <2>10. /\ \A i \in jobs' \ jobs : i = k
         /\ \A i \in jobs \ jobs' : i = j
    BY <2>6
  <2>11. QED BY <1>0, <2>2, <2>5, <2>7, <2>9, <2>10, JobsStep
<1>2. CASE \E j \in jobs : PruneFiles(j) /\ UNCHANGED stored /\ NextCap(j)
  <2>1. PICK j \in jobs : PruneFiles(j) /\ UNCHANGED stored /\ NextCap(j)
    BY <1>2
  <2>2. UNCHANGED <<listing, stored, activeLawn, backfill, clock>> /\ j.pc = "prune"
    BY <2>1 DEF PruneFiles
  <2>3. PICK k : k = [j EXCEPT !.cap = "size", !.pc = "prune", !.kept = {}]
    OBVIOUS
  <2>4. IsJob(k) /\ k.pc = "prune" /\ k.map = j.map
    <3>1. IsJob(j)
      BY <1>0 DEF JobOK
    <3>2. QED BY <2>3, <3>1 DEF IsJob
  <2>5. jobs' = (jobs \ {j}) \cup {k} \/ jobs' = jobs \ {j}
    BY <2>1, <2>3 DEF NextCap, Ends
  <2>6. JobOK(k)' /\ ~Bears(k)
    BY <1>0, <2>4 DEF JobOK, Bears, Moves, Comes
  <2>7. ScansTyped'
    BY <1>0, <2>2, <2>5, <2>6, JobsTyped
  <2>8. /\ \A i \in jobs' \ jobs : i = k
        /\ \A i \in jobs \ jobs' : i = j
    BY <2>5
  <2>9. QED BY <1>0, <2>2, <2>6, <2>7, <2>8, JobsStep
<1>3. CASE \E cap, size \in Caps : ChangeOptions(cap, size)
  <2>1. PICK cap \in Caps, size \in Caps : ChangeOptions(cap, size)
    BY <1>3
  <2>2. /\ UNCHANGED <<listing, stored, activeLawn, backfill>> /\ clock' = clock + 1
        /\ jobs' = jobs \cup {NewJob("options", m, 0, clock', "prune") : m \in Lawns}
    BY <2>1 DEF ChangeOptions, Counted
  <2>3. clock' \in Nat /\ clock <= clock'
    BY <1>0, <2>2
  <2>4. ASSUME NEW k \in jobs' \ jobs PROVE JobOK(k)' /\ ~Bears(k)
    <3>0. PICK ts : ts = clock'
      OBVIOUS
    <3>1. PICK m \in Lawns : k = NewJob("options", m, 0, ts, "prune")
      BY <2>2, <3>0
    <3>2. IsJob(k) /\ k.pc = "prune" /\ k.map = m
      BY <3>1 DEF IsJob, NewJob
    <3>3. QED BY <3>2 DEF JobOK, Bears, Moves, Comes
  <2>5. ScansTyped'
    BY <1>0, <2>2, <2>3, <2>4, JobsTyped
  <2>6. jobs \ jobs' = {}
    BY <2>2
  <2>7. QED BY <2>2, <2>3, <2>4, <2>5, <2>6, JobsStep
<1>4. CASE \E m \in Lawns : KnowLawn(m)
  <2>1. UNCHANGED <<listing, stored, backfill, clock, jobs>> /\ activeLawn' \in Lawns
    BY <1>4 DEF KnowLawn
  <2>2. QED BY <1>0, <2>1, JobsTyped, JobsStep
<1>5. CASE StopAndStart
  <2>1. UNCHANGED <<listing, stored, jobs>> /\ clock' = clock + 1 /\ activeLawn' = None /\ backfill' = None
    BY <1>5 DEF StopAndStart, Counted
  <2>2. clock' \in Nat /\ clock <= clock'
    BY <1>0, <2>1
  <2>3. QED BY <2>1, <2>2, JobsTyped, JobsStep
<1>6. QED BY <1>1, <1>2, <1>3, <1>4, <1>5

(* A download begins, with a row that is new.                              *)
LEMMA NewRowStep ==
    ASSUME ScansInv, NEW k, IsJob(k), k.pc = "fetch", k.to = None, k.map \in Lawns, k.row \in AnyRow,
           jobs' = jobs \cup {k}, UNCHANGED <<listing, stored, activeLawn>>,
           clock' \in Nat, clock <= clock', k.row.ts <= clock',
           \A m \in Lawns : k.row \notin RowsOf(m) /\ k.row \notin stored[m],
           \A j \in jobs : Bears(j) => j.row # k.row,
           backfill' # None =>
               /\ backfill # None
               /\ backfill' \in [map : Lawns, ts : Nat, todo : Seq(AnyScan)] /\ backfill'.ts = backfill.ts
               /\ \A i \in DOMAIN backfill'.todo : \E n \in DOMAIN backfill.todo : backfill'.todo[i] = backfill.todo[n]
               /\ \A i, n \in DOMAIN backfill'.todo : backfill'.todo[i] = backfill'.todo[n] => i = n
               /\ \A i \in DOMAIN backfill'.todo : k.row # PlannedRow(i)'
    PROVE  ScansInv'
<1>0. \A m : UNCHANGED RowsOf(m)
  BY DEF RowsOf
<1>1. Bears(k) /\ Comes(k) /\ ~Moves(k)
  BY DEF Bears, Comes, Moves
<1>2. ScansTyped'
  <2>1. JobOK(k)'
    BY <1>1 DEF JobOK
  <2>2. ASSUME NEW i \in jobs PROVE JobOK(i)'
    <3>1. JobOK(i) /\ clock \in Nat
      BY DEF ScansInv, ScansTyped
    <3>2. Bears(i) => i.row.ts <= clock'
      BY <3>1 DEF JobOK, AnyRow
    <3>3. QED BY <3>1, <3>2 DEF JobOK
  <2>3. \A i \in jobs' : JobOK(i)'
    BY <2>1, <2>2
  <2>4. backfill' # None => backfill'.ts <= clock'
    <3>1. SUFFICES ASSUME backfill' # None PROVE backfill'.ts <= clock'
      OBVIOUS
    <3>2. backfill \in [map : Lawns, ts : Nat, todo : Seq(AnyScan)] /\ backfill.ts <= clock /\ clock \in Nat
      BY <3>1 DEF ScansInv, ScansTyped
    <3>3. backfill.ts \in Nat
      BY <3>2
    <3>4. QED BY <3>1, <3>2, <3>3
  <2>5. QED BY <2>3, <2>4 DEF ScansInv, ScansTyped
<1>3. NoneAhead'
  <2>1. ASSUME NEW m \in Lawns, NEW row \in RowsOf(m) \cup stored[m] PROVE row.ts <= clock'
    <3>1. row.ts <= clock
      BY DEF ScansInv, NoneAhead
    <3>2. row \in AnyRow
      <4>1. listing[m] \in Seq(AnyRow) /\ stored[m] \in SUBSET AnyRow
        BY DEF ScansInv, ScansTyped
      <4>2. QED BY <4>1 DEF RowsOf, ToSet
    <3>3. row.ts \in Nat /\ clock \in Nat
      BY <3>2 DEF AnyRow, ScansInv, ScansTyped
    <3>4. QED BY <3>1, <3>3
  <2>2. QED BY <1>0, <2>1 DEF NoneAhead
<1>4. OneBearer'
  BY <1>1 DEF ScansInv, OneBearer
<1>5. NotListedYet'
  BY <1>0, <1>1 DEF ScansInv, NotListedYet
<1>6. FileIsHeld'
  BY <1>1 DEF ScansInv, FileIsHeld
<1>7. InOnePlace'
  BY <1>0 DEF ScansInv, InOnePlace
<1>8. Accounted'
  BY <1>0 DEF ScansInv, Accounted
<1>9. PlannedAreNew'
  <2>1. SUFFICES ASSUME backfill' # None, NEW i \in DOMAIN backfill'.todo
                 PROVE  /\ \A m \in Lawns : PlannedRow(i)' \notin RowsOf(m) /\ PlannedRow(i)' \notin stored[m]
                        /\ \A j \in jobs' : Bears(j) => j.row # PlannedRow(i)'
    BY <1>0 DEF PlannedAreNew
  <2>2. PICK n \in DOMAIN backfill.todo : PlannedRow(i)' = PlannedRow(n)
    BY <2>1 DEF PlannedRow
  <2>3. QED BY <2>1, <2>2 DEF ScansInv, PlannedAreNew
<1>10. QED BY <1>2, <1>3, <1>4, <1>5, <1>6, <1>7, <1>8, <1>9 DEF ScansInv

(* What is stamped with a later time is new.                               *)
LEMMA LaterIsNew ==
    ASSUME ScansInv, NEW row, row.ts = clock + 1
    PROVE  /\ \A m \in Lawns : row \notin RowsOf(m) /\ row \notin stored[m]
           /\ \A j \in jobs : Bears(j) => j.row # row
<1>1. clock \in Nat /\ ~(row.ts <= clock)
  BY DEF ScansInv, ScansTyped
<1>2. \A m \in Lawns : row \notin RowsOf(m) /\ row \notin stored[m]
  BY <1>1 DEF ScansInv, NoneAhead
<1>3. \A j \in jobs : Bears(j) => j.row # row
  BY <1>1 DEF ScansInv, ScansTyped, JobOK
<1>4. QED BY <1>2, <1>3

\* The mower announces a scan.
LEMMA AnnounceStep ==
    ASSUME ScansInv, NEW scan \in AnyScan, Announce(scan)
    PROVE  ScansInv'
<1>1. /\ UNCHANGED <<listing, stored, activeLawn, backfill>> /\ clock' = clock + 1
      /\ clock \in Nat /\ clock' \in Nat /\ clock <= clock'
  BY DEF Announce, Counted, ScansInv, ScansTyped
<1>2. CASE activeLawn = None
  <2>1. UNCHANGED jobs /\ activeLawn' \in Lawns \cup {None}
    BY <1>1, <1>2 DEF Announce
  <2>2. QED BY <1>1, <2>1, JobsTyped, JobsStep
<1>3. CASE activeLawn # None
  <2>0. PICK ts : ts = clock'
    OBVIOUS
  <2>1. PICK k : k = NewJob("push", activeLawn, scan, ts, "fetch")
    OBVIOUS
  <2>2. IsJob(k) /\ k.pc = "fetch" /\ k.map = activeLawn /\ k.row = [scan |-> scan, ts |-> ts] /\ k.to = None
    BY <2>1, JobBegins
  <2>3. jobs' = jobs \cup {k}
    BY <1>3, <2>0, <2>1 DEF Announce, Begins
  <2>4. k.map \in Lawns
    BY <1>3, <2>2 DEF ScansInv, ScansTyped
  <2>5. k.row.ts = clock + 1 /\ k.row \in AnyRow /\ k.row.ts <= clock'
    BY <1>1, <2>0, <2>2 DEF AnyRow
  <2>6. /\ \A m \in Lawns : k.row \notin RowsOf(m) /\ k.row \notin stored[m]
        /\ \A j \in jobs : Bears(j) => j.row # k.row
    BY <2>5, LaterIsNew
  <2>7. ASSUME backfill' # None
        PROVE  /\ backfill # None
               /\ backfill' \in [map : Lawns, ts : Nat, todo : Seq(AnyScan)] /\ backfill'.ts = backfill.ts
               /\ \A i \in DOMAIN backfill'.todo : \E n \in DOMAIN backfill.todo : backfill'.todo[i] = backfill.todo[n]
               /\ \A i, n \in DOMAIN backfill'.todo : backfill'.todo[i] = backfill'.todo[n] => i = n
               /\ \A i \in DOMAIN backfill'.todo : k.row # PlannedRow(i)'
    <3>1. backfill # None /\ backfill \in [map : Lawns, ts : Nat, todo : Seq(AnyScan)] /\ backfill.ts <= clock
      BY <1>1, <2>7 DEF ScansInv, ScansTyped
    <3>2. ~(k.row.ts <= clock)
      BY <1>1, <2>5
    <3>3. \A i : k.row # PlannedRow(i)'
      <4>1. \A i : PlannedRow(i)'.ts = backfill.ts
        BY <1>1 DEF PlannedRow
      <4>2. QED BY <3>1, <3>2, <4>1
    <3>4. \A i, n \in DOMAIN backfill.todo : backfill.todo[i] = backfill.todo[n] => i = n
      BY <3>1 DEF ScansInv, PlannedAreNew
    <3>5. QED BY <1>1, <3>1, <3>3, <3>4
  <2>8. QED BY <1>1, <2>2, <2>3, <2>4, <2>5, <2>6, <2>7, NewRowStep
<1>4. QED BY <1>2, <1>3

\* The next scan of a backfill.
LEMMA BackfillNextStep ==
    ASSUME ScansInv, BackfillNext
    PROVE  ScansInv'
<1>1. /\ backfill # None /\ backfill.todo # <<>>
      /\ UNCHANGED <<listing, stored, activeLawn, clock>> /\ clock \in Nat /\ clock <= clock
      /\ backfill \in [map : Lawns, ts : Nat, todo : Seq(AnyScan)] /\ backfill.ts <= clock
  BY DEF BackfillNext, ScansInv, ScansTyped
<1>2. PICK todo \in Seq(AnyScan) : todo = backfill.todo /\ todo # <<>>
  BY <1>1
<1>3. /\ Head(todo) \in AnyScan /\ Head(todo) = todo[1] /\ 1 \in DOMAIN todo
      /\ Tail(todo) \in Seq(AnyScan)
      /\ \A i \in DOMAIN Tail(todo) : i \in Nat /\ i + 1 \in DOMAIN todo /\ Tail(todo)[i] = todo[i + 1]
  BY <1>2
<1>4. PICK ts \in Nat : ts = backfill.ts
  BY <1>1
<1>5. PICK k : k = NewJob("backfill", backfill.map, Head(todo), ts, "fetch")
  OBVIOUS
<1>6. /\ IsJob(k) /\ k.pc = "fetch" /\ k.map = backfill.map /\ k.row = [scan |-> Head(todo), ts |-> ts]
      /\ k.to = None
  BY <1>5, JobBegins
<1>7. jobs' = jobs \cup {k}
  BY <1>2, <1>4, <1>5 DEF BackfillNext, Begins
<1>8. backfill' = [map |-> backfill.map, ts |-> ts, todo |-> Tail(todo)]
  <2>1. backfill' = [backfill EXCEPT !.todo = Tail(todo)]
    BY <1>2 DEF BackfillNext
  <2>2. QED BY <1>1, <1>4, <2>1
<1>9. k.map \in Lawns /\ k.row \in AnyRow /\ k.row.ts <= clock
  BY <1>1, <1>3, <1>4, <1>6 DEF AnyRow
<1>10. k.row = PlannedRow(1)
  BY <1>2, <1>3, <1>4, <1>6 DEF PlannedRow
<1>11. /\ \A m \in Lawns : k.row \notin RowsOf(m) /\ k.row \notin stored[m]
       /\ \A j \in jobs : Bears(j) => j.row # k.row
  BY <1>1, <1>2, <1>3, <1>10 DEF ScansInv, PlannedAreNew
<1>12. \A i, n \in DOMAIN todo : todo[i] = todo[n] => i = n
  BY <1>1, <1>2 DEF ScansInv, PlannedAreNew
<1>13. \A i \in DOMAIN Tail(todo) : \E n \in DOMAIN todo : Tail(todo)[i] = todo[n]
  BY <1>3
<1>14. \A i, n \in DOMAIN Tail(todo) : Tail(todo)[i] = Tail(todo)[n] => i = n
  <2>1. SUFFICES ASSUME NEW i \in DOMAIN Tail(todo), NEW n \in DOMAIN Tail(todo), Tail(todo)[i] = Tail(todo)[n]
                 PROVE  i = n
    OBVIOUS
  <2>2. i + 1 = n + 1 /\ i \in Nat /\ n \in Nat
    BY <1>3, <1>12, <2>1
  <2>3. QED BY <2>2
<1>15. \A i \in DOMAIN Tail(todo) : Tail(todo)[i] # Head(todo)
  <2>1. SUFFICES ASSUME NEW i \in DOMAIN Tail(todo), Tail(todo)[i] = Head(todo) PROVE FALSE
    OBVIOUS
  <2>2. i + 1 = 1 /\ i \in Nat
    BY <1>3, <1>12, <2>1
  <2>3. i \in 1 .. Len(Tail(todo))
    BY <1>3
  <2>4. QED BY <2>2, <2>3
<1>16. \A i \in DOMAIN Tail(todo) : k.row # PlannedRow(i)'
  BY <1>6, <1>8, <1>15 DEF PlannedRow
<1>17. backfill'.todo = Tail(todo) /\ backfill'.ts = backfill.ts
       /\ backfill' \in [map : Lawns, ts : Nat, todo : Seq(AnyScan)]
  BY <1>1, <1>3, <1>4, <1>8
<1>18. QED BY <1>1, <1>2, <1>6, <1>7, <1>9, <1>11, <1>13, <1>14, <1>16, <1>17, NewRowStep

(* A list becomes another one.                                             *)
LEMMA RowsAfter ==
    ASSUME ScansInv, NEW m \in Lawns, NEW list \in Seq(AnyRow), listing' = [listing EXCEPT ![m] = list]
    PROVE  /\ listing' \in [Lawns -> Seq(AnyRow)]
           /\ RowsOf(m)' = ToSet(list)
           /\ \A n \in Lawns : n # m => RowsOf(n)' = RowsOf(n)
BY DEF ScansInv, ScansTyped, RowsOf

(* The file is written, or is not.                                         *)
LEMMA StoreStep ==
    ASSUME ScansInv, NEW j \in jobs, StoreFile(j)
    PROVE  ScansInv'
<1>1. /\ UNCHANGED <<listing, activeLawn, backfill, clock>> /\ Comes(j) /\ Bears(j) /\ j.pc = "write" /\ JobOK(j)
      /\ clock \in Nat /\ clock <= clock /\ activeLawn' \in Lawns \cup {None}
  BY DEF StoreFile, Comes, Bears, ScansInv, ScansTyped
<1>2. CASE UNCHANGED stored /\ Ends(j)
  <2>1. jobs' = jobs \ {j}
    BY <1>2 DEF Ends
  <2>2. QED BY <1>1, <1>2, <2>1, JobsTyped, JobsStep
<1>3. CASE stored' = [stored EXCEPT ![j.map] = @ \cup {j.row}] /\ GoesTo(j, "append")
  <2>1. PICK k : k = [j EXCEPT !.pc = "append"]
    OBVIOUS
  <2>2. IsJob(k) /\ k.pc = "append" /\ k.map = j.map /\ k.row = j.row /\ k.to = j.to
    BY <1>1, <2>1, JobGoes DEF JobOK
  <2>3. jobs' = (jobs \ {j}) \cup {k} /\ Bears(k) /\ ~Comes(k) /\ ~Moves(k) /\ Holder(k) = k.map
    BY <1>3, <2>1, <2>2 DEF GoesTo, Bears, Comes, Moves, Holder
  <2>4. j.row \in AnyRow /\ j.row.ts <= clock /\ j.map \in Lawns
    BY <1>1 DEF JobOK
  <2>5. JobOK(k)'
    BY <1>1, <2>2, <2>3, <2>4 DEF JobOK
  <2>6. /\ stored' \in [Lawns -> SUBSET AnyRow] /\ stored'[j.map] = stored[j.map] \cup {j.row}
        /\ \A m \in Lawns : m # j.map => stored'[m] = stored[m]
    BY <1>3, <2>4 DEF ScansInv, ScansTyped
  <2>7. \A m : RowsOf(m)' = RowsOf(m)
    BY <1>1 DEF RowsOf
  <2>8. /\ \A m \in Lawns : j.row \notin RowsOf(m) /\ j.row \notin stored[m]
        /\ \A i \in jobs : Bears(i) /\ i # j => i.row # j.row
    BY <1>1 DEF ScansInv, NotListedYet, FileIsHeld, OneBearer
  <2>9. ScansTyped'
    <3>1. listing' \in [Lawns -> Seq(AnyRow)]
      BY <1>1 DEF ScansInv, ScansTyped
    <3>2. QED BY <1>1, <2>3, <2>5, <2>6, <3>1, StepTyped
  <2>10. NoneAhead'
    BY <1>1, <2>4, <2>6, <2>7 DEF ScansInv, NoneAhead
  <2>11. OneBearer'
    BY <2>2, <2>3, <2>8 DEF ScansInv, OneBearer
  <2>12. NotListedYet'
    BY <2>2, <2>3, <2>7, <2>8 DEF ScansInv, NotListedYet
  <2>13. FileIsHeld'
    <3>1. ASSUME NEW i \in jobs, i # j
          PROVE  /\ i.pc = "append" \/ Moves(i) => i.row \in stored'[Holder(i)]
                 /\ Comes(i) => \A m \in Lawns : i.row \notin stored'[m]
      <4>1. JobOK(i)
        BY DEF ScansInv, ScansTyped
      <4>2. i.pc = "append" \/ Moves(i) => i.row \in stored'[Holder(i)]
        <5>1. SUFFICES ASSUME i.pc = "append" \/ Moves(i) PROVE i.row \in stored'[Holder(i)]
          OBVIOUS
        <5>2. i.row \in stored[Holder(i)] /\ Holder(i) \in Lawns
          BY <4>1, <5>1 DEF ScansInv, FileIsHeld, Holder, JobOK, Moves
        <5>3. QED BY <2>6, <5>2
      <4>3. Comes(i) => \A m \in Lawns : i.row \notin stored'[m]
        BY <2>6, <2>8, <3>1 DEF ScansInv, FileIsHeld, Bears
      <4>4. QED BY <4>2, <4>3
    <3>2. QED BY <2>2, <2>3, <2>6, <3>1 DEF FileIsHeld
  <2>14. InOnePlace'
    BY <2>6, <2>7, <2>8 DEF ScansInv, InOnePlace
  <2>15. Accounted'
    <3>1. ASSUME NEW m \in Lawns, NEW row \in RowsOf(m) \ stored'[m] PROVE \E i \in jobs' : Removes(i, m, row)
      <4>1. row \notin stored[m]
        BY <2>6, <3>1
      <4>2. PICK i \in jobs : Removes(i, m, row)
        BY <4>1 DEF ScansInv, Accounted
      <4>3. i # j
        BY <1>1, <4>2 DEF Removes
      <4>4. QED BY <2>3, <4>2, <4>3
    <3>2. QED BY <2>7, <3>1 DEF Accounted
  <2>16. PlannedAreNew'
    <3>1. \A i : PlannedRow(i)' = PlannedRow(i)
      BY <1>1 DEF PlannedRow
    <3>2. SUFFICES ASSUME backfill # None PROVE PlannedAreNew'
      BY <1>1 DEF PlannedAreNew
    <3>3. \A i \in DOMAIN backfill.todo :
              /\ \A m \in Lawns : PlannedRow(i) \notin RowsOf(m) /\ PlannedRow(i) \notin stored[m]
              /\ PlannedRow(i) # j.row
              /\ \A n \in jobs : Bears(n) => n.row # PlannedRow(i)
      BY <1>1, <3>2 DEF ScansInv, PlannedAreNew
    <3>4. \A i \in DOMAIN backfill.todo : \A m \in Lawns : PlannedRow(i) \notin stored'[m]
      BY <2>6, <3>3
    <3>5. QED BY <1>1, <2>2, <2>3, <2>7, <3>1, <3>2, <3>3, <3>4 DEF ScansInv, PlannedAreNew
  <2>17. QED BY <2>9, <2>10, <2>11, <2>12, <2>13, <2>14, <2>15, <2>16 DEF ScansInv
<1>4. QED BY <1>2, <1>3 DEF StoreFile

(* The row is listed.                                                      *)
LEMMA AppendStep ==
    ASSUME ScansInv, NEW j \in jobs, NEW k, NEW m \in Lawns,
           \/ AppendRow(j) /\ m = j.map /\ k = [j EXCEPT !.pc = "prune"]
           \/ Relist(j) /\ m = j.to /\ k = j
    PROVE  ScansInv'
<1>1. /\ UNCHANGED <<stored, activeLawn, backfill, clock>> /\ Bears(j) /\ Holder(j) = m /\ JobOK(j)
      /\ j.pc \in {"append", "list"} /\ (j.pc = "append" \/ Moves(j))
      /\ clock \in Nat /\ clock <= clock /\ activeLawn' \in Lawns \cup {None}
  BY DEF AppendRow, Relist, Bears, Moves, Holder, ScansInv, ScansTyped, JobOK
<1>2. JobOK(k)' /\ (k # j => ~Bears(k)) /\ ((jobs' = (jobs \ {j}) \cup {k} /\ k # j) \/ jobs' = jobs \ {j})
  <2>1. CASE AppendRow(j) /\ m = j.map /\ k = [j EXCEPT !.pc = "prune"]
    <3>1. IsJob(k) /\ k.pc = "prune" /\ k.map = j.map
      BY <1>1, <2>1, JobGoes DEF JobOK
    <3>2. j.pc = "append" /\ jobs' = (jobs \ {j}) \cup {k}
      BY <2>1 DEF AppendRow, GoesTo
    <3>3. QED BY <1>1, <3>1, <3>2 DEF JobOK, Bears, Comes, Moves
  <2>2. CASE Relist(j) /\ k = j
    BY <1>1, <2>2 DEF Relist, Ends, JobOK
  <2>3. QED BY <2>1, <2>2
<1>3. j.row \in AnyRow /\ j.row.ts <= clock /\ listing[m] \in Seq(AnyRow)
  BY <1>1 DEF JobOK, ScansInv, ScansTyped
<1>4. listing' = [listing EXCEPT ![m] = Append(listing[m], j.row)]
  BY DEF AppendRow, Relist, ScansInv, ScansTyped
<1>5. /\ listing' \in [Lawns -> Seq(AnyRow)] /\ RowsOf(m)' = RowsOf(m) \cup {j.row}
      /\ \A n \in Lawns : n # m => RowsOf(n)' = RowsOf(n)
  <2>1. Append(listing[m], j.row) \in Seq(AnyRow) /\ ToSet(Append(listing[m], j.row)) = ToSet(listing[m]) \cup {j.row}
    BY <1>3, RowMore
  <2>2. PICK list \in Seq(AnyRow) : list = Append(listing[m], j.row)
    BY <2>1
  <2>3. QED BY <1>4, <2>1, <2>2, RowsAfter DEF RowsOf
<1>6. /\ \A n \in Lawns : j.row \notin RowsOf(n)
      /\ \A i \in jobs : Bears(i) /\ i # j => i.row # j.row
      /\ j.row \in stored[m]
  BY <1>1 DEF ScansInv, NotListedYet, FileIsHeld, OneBearer
<1>7. \A i \in jobs' : Bears(i) => i \in jobs /\ i # j
  BY <1>2
<1>8. ScansTyped'
  <2>1. stored' \in [Lawns -> SUBSET AnyRow]
    BY <1>1 DEF ScansInv, ScansTyped
  <2>2. \A i \in jobs' \ jobs : JobOK(i)'
    BY <1>2
  <2>3. QED BY <1>1, <1>5, <2>1, <2>2, StepTyped
<1>9. NoneAhead'
  BY <1>1, <1>3, <1>5 DEF ScansInv, NoneAhead
<1>10. OneBearer'
  BY <1>7 DEF ScansInv, OneBearer
<1>11. NotListedYet'
  BY <1>5, <1>6, <1>7 DEF ScansInv, NotListedYet
<1>12. FileIsHeld'
  <2>1. ASSUME NEW i \in jobs'
        PROVE  /\ i.pc = "append" \/ Moves(i) => i.row \in stored[Holder(i)]
               /\ Comes(i) => \A n \in Lawns : i.row \notin stored[n]
    <3>1. CASE Bears(i)
      BY <1>7, <3>1 DEF ScansInv, FileIsHeld
    <3>2. CASE ~Bears(i)
      BY <3>2 DEF Bears
    <3>3. QED BY <3>1, <3>2
  <2>2. QED BY <1>1, <2>1 DEF FileIsHeld
<1>13. InOnePlace'
  BY <1>1, <1>5, <1>6 DEF ScansInv, InOnePlace
<1>14. Accounted'
  <2>1. ASSUME NEW n \in Lawns, NEW row \in RowsOf(n)' \ stored[n] PROVE \E i \in jobs' : Removes(i, n, row)
    <3>1. row \in RowsOf(n)
      BY <1>5, <1>6, <2>1
    <3>2. PICK i \in jobs : Removes(i, n, row)
      BY <2>1, <3>1 DEF ScansInv, Accounted
    <3>3. i # j
      BY <1>1, <3>2 DEF Removes
    <3>4. QED BY <1>2, <3>2, <3>3
  <2>2. QED BY <1>1, <2>1 DEF Accounted
<1>15. PlannedAreNew'
  <2>1. \A i : PlannedRow(i)' = PlannedRow(i)
    BY <1>1 DEF PlannedRow
  <2>2. SUFFICES ASSUME backfill # None PROVE PlannedAreNew'
    BY <1>1 DEF PlannedAreNew
  <2>3. \A i \in DOMAIN backfill.todo :
            /\ \A n \in Lawns : PlannedRow(i) \notin RowsOf(n) /\ PlannedRow(i) \notin stored[n]
            /\ PlannedRow(i) # j.row
            /\ \A n \in jobs : Bears(n) => n.row # PlannedRow(i)
    BY <1>1, <2>2 DEF ScansInv, PlannedAreNew
  <2>4. \A i \in DOMAIN backfill.todo : \A n \in Lawns : PlannedRow(i) \notin RowsOf(n)'
    BY <1>5, <2>3
  <2>5. QED BY <1>1, <1>7, <2>1, <2>2, <2>3, <2>4 DEF ScansInv, PlannedAreNew
<1>16. QED BY <1>8, <1>9, <1>10, <1>11, <1>12, <1>13, <1>14, <1>15 DEF ScansInv

(* The files of the rows a cap drops are removed; the job will drop them.  *)
LEMMA PruneStep ==
    ASSUME ScansInv, NEW j \in jobs, NEW kept, PruneFiles(j), RemoveFiles(j.map, kept),
           jobs' = (jobs \ {j}) \cup {[j EXCEPT !.pc = "assign", !.kept = kept]}
    PROVE  ScansInv'
<1>1. /\ UNCHANGED <<listing, activeLawn, backfill, clock>> /\ j.pc = "prune" /\ IsJob(j) /\ j.map \in Lawns
      /\ clock \in Nat /\ clock <= clock /\ activeLawn' \in Lawns \cup {None}
  BY DEF PruneFiles, ScansInv, ScansTyped, JobOK
<1>2. PICK k : k = [j EXCEPT !.pc = "assign", !.kept = kept]
  OBVIOUS
<1>3. IsJob(k) /\ k.pc = "assign" /\ k.map = j.map /\ k.kept = kept
  BY <1>1, <1>2 DEF IsJob
<1>4. JobOK(k)' /\ ~Bears(k) /\ ~Bears(j) /\ jobs' = (jobs \ {j}) \cup {k}
  BY <1>1, <1>2, <1>3 DEF JobOK, Bears, Comes, Moves
<1>5. /\ stored' \in [Lawns -> SUBSET AnyRow] /\ stored'[j.map] = stored[j.map] \ (RowsOf(j.map) \ kept)
      /\ \A m \in Lawns : m # j.map => stored'[m] = stored[m]
  BY <1>1 DEF RemoveFiles, ScansInv, ScansTyped
<1>6. \A m : RowsOf(m)' = RowsOf(m)
  BY <1>1 DEF RowsOf
<1>7. \A i \in jobs' : Bears(i) => i \in jobs
  BY <1>4
<1>8. ScansTyped'
  <2>1. listing' \in [Lawns -> Seq(AnyRow)]
    BY <1>1 DEF ScansInv, ScansTyped
  <2>2. \A i \in jobs' \ jobs : JobOK(i)'
    BY <1>4
  <2>3. QED BY <1>1, <1>5, <2>1, <2>2, StepTyped
<1>9. \A m \in Lawns : stored'[m] \subseteq stored[m]
  BY <1>5
<1>10. NoneAhead'
  BY <1>1, <1>6, <1>9 DEF ScansInv, NoneAhead
<1>11. OneBearer'
  BY <1>7 DEF ScansInv, OneBearer
<1>12. NotListedYet'
  BY <1>6, <1>7 DEF ScansInv, NotListedYet
<1>13. FileIsHeld'
  <2>1. ASSUME NEW i \in jobs', i.pc = "append" \/ Moves(i) PROVE i.row \in stored'[Holder(i)]
    <3>1. i \in jobs /\ Bears(i)
      BY <1>7, <2>1 DEF Bears
    <3>2. JobOK(i) /\ i.row \in stored[Holder(i)]
      BY <2>1, <3>1 DEF ScansInv, ScansTyped, FileIsHeld
    <3>3. i.row \notin RowsOf(Holder(i)) /\ Holder(i) \in Lawns
      BY <2>1, <3>1, <3>2 DEF ScansInv, NotListedYet, Holder, JobOK, Moves
    <3>4. QED BY <1>5, <3>2, <3>3
  <2>2. ASSUME NEW i \in jobs', Comes(i), NEW m \in Lawns PROVE i.row \notin stored'[m]
    BY <1>7, <1>9, <2>2 DEF ScansInv, FileIsHeld, Bears
  <2>3. QED BY <2>1, <2>2 DEF FileIsHeld
<1>14. InOnePlace'
  BY <1>6, <1>9 DEF ScansInv, InOnePlace
<1>15. Accounted'
  <2>1. ASSUME NEW m \in Lawns, NEW row \in RowsOf(m) \ stored'[m] PROVE \E i \in jobs' : Removes(i, m, row)
    <3>1. CASE row \in stored[m]
      <4>1. m = j.map /\ row \notin kept
        BY <1>5, <2>1, <3>1
      <4>2. QED BY <1>3, <1>4, <4>1 DEF Removes
    <3>2. CASE row \notin stored[m]
      <4>1. PICK i \in jobs : Removes(i, m, row)
        BY <3>2 DEF ScansInv, Accounted
      <4>2. i # j
        BY <1>1, <4>1 DEF Removes
      <4>3. QED BY <1>4, <4>1, <4>2
    <3>3. QED BY <3>1, <3>2
  <2>2. QED BY <1>6, <2>1 DEF Accounted
<1>16. PlannedAreNew'
  <2>1. \A i : PlannedRow(i)' = PlannedRow(i)
    BY <1>1 DEF PlannedRow
  <2>2. SUFFICES ASSUME backfill # None PROVE PlannedAreNew'
    BY <1>1 DEF PlannedAreNew
  <2>3. QED BY <1>1, <1>6, <1>7, <1>9, <2>1, <2>2 DEF ScansInv, PlannedAreNew
<1>17. QED BY <1>8, <1>10, <1>11, <1>12, <1>13, <1>14, <1>15, <1>16 DEF ScansInv

(* The list becomes what was kept.                                         *)
LEMMA AssignStep ==
    ASSUME ScansInv, NEW j \in jobs, AssignIndex(j)
    PROVE  ScansInv'
<1>1. /\ UNCHANGED <<stored, activeLawn, backfill, clock>> /\ j.pc = "assign" /\ IsJob(j) /\ j.map \in Lawns
      /\ clock \in Nat /\ clock <= clock /\ activeLawn' \in Lawns \cup {None}
  BY DEF AssignIndex, ScansInv, ScansTyped, JobOK
<1>2. PICK k : k = [j EXCEPT !.cap = "size", !.pc = "prune", !.kept = {}]
  OBVIOUS
<1>3. IsJob(k) /\ k.pc = "prune" /\ k.map = j.map
  BY <1>1, <1>2 DEF IsJob
<1>4. /\ JobOK(k)' /\ ~Bears(k) /\ ~Bears(j)
      /\ jobs' = (jobs \ {j}) \cup {k} \/ jobs' = jobs \ {j}
  BY <1>1, <1>2, <1>3 DEF JobOK, Bears, Comes, Moves, AssignIndex, NextCap, Ends
<1>5. /\ listing' \in [Lawns -> Seq(AnyRow)] /\ RowsOf(j.map)' = RowsOf(j.map) \cap j.kept
      /\ \A m \in Lawns : m # j.map => RowsOf(m)' = RowsOf(m)
  <2>1. PICK list \in Seq(AnyRow) : list = listing[j.map]
    BY <1>1 DEF ScansInv, ScansTyped
  <2>2. PICK chosen : chosen = j.kept
    OBVIOUS
  <2>3. Filtered(list, chosen) \in Seq(AnyRow) /\ ToSet(Filtered(list, chosen)) = ToSet(list) \cap chosen
    BY FilteredSet
  <2>4. PICK after \in Seq(AnyRow) : after = Filtered(list, chosen)
    BY <2>3
  <2>5. listing' = [listing EXCEPT ![j.map] = after]
    BY <2>1, <2>2, <2>4 DEF AssignIndex
  <2>6. QED BY <1>1, <2>1, <2>2, <2>3, <2>4, <2>5, RowsAfter DEF RowsOf
<1>6. \A m \in Lawns : RowsOf(m)' \subseteq RowsOf(m)
  BY <1>5
<1>7. \A i \in jobs' : Bears(i) => i \in jobs
  BY <1>4
<1>8. ScansTyped'
  <2>1. stored' \in [Lawns -> SUBSET AnyRow]
    BY <1>1 DEF ScansInv, ScansTyped
  <2>2. \A i \in jobs' \ jobs : JobOK(i)'
    BY <1>4
  <2>3. QED BY <1>1, <1>5, <2>1, <2>2, StepTyped
<1>10. NoneAhead'
  BY <1>1, <1>6 DEF ScansInv, NoneAhead
<1>11. OneBearer'
  BY <1>7 DEF ScansInv, OneBearer
<1>12. NotListedYet'
  BY <1>6, <1>7 DEF ScansInv, NotListedYet
<1>13. FileIsHeld'
  <2>1. ASSUME NEW i \in jobs'
        PROVE  /\ i.pc = "append" \/ Moves(i) => i.row \in stored[Holder(i)]
               /\ Comes(i) => \A n \in Lawns : i.row \notin stored[n]
    <3>1. CASE Bears(i)
      BY <1>7, <3>1 DEF ScansInv, FileIsHeld
    <3>2. CASE ~Bears(i)
      BY <3>2 DEF Bears
    <3>3. QED BY <3>1, <3>2
  <2>2. QED BY <1>1, <2>1 DEF FileIsHeld
<1>14. InOnePlace'
  BY <1>1, <1>6 DEF ScansInv, InOnePlace
<1>15. Accounted'
  <2>1. ASSUME NEW m \in Lawns, NEW row \in RowsOf(m)' \ stored[m] PROVE \E i \in jobs' : Removes(i, m, row)
    <3>1. PICK i \in jobs : Removes(i, m, row)
      BY <1>6, <2>1 DEF ScansInv, Accounted
    <3>2. i # j
      <4>1. SUFFICES ASSUME i = j PROVE FALSE
        OBVIOUS
      <4>2. m = j.map /\ row \notin j.kept
        BY <1>1, <3>1, <4>1 DEF Removes
      <4>3. QED BY <1>5, <2>1, <4>2
    <3>3. QED BY <1>4, <3>1, <3>2
  <2>2. QED BY <1>1, <2>1 DEF Accounted
<1>16. PlannedAreNew'
  <2>1. \A i : PlannedRow(i)' = PlannedRow(i)
    BY <1>1 DEF PlannedRow
  <2>2. SUFFICES ASSUME backfill # None PROVE PlannedAreNew'
    BY <1>1 DEF PlannedAreNew
  <2>3. QED BY <1>1, <1>6, <1>7, <2>1, <2>2 DEF ScansInv, PlannedAreNew
<1>17. QED BY <1>8, <1>10, <1>11, <1>12, <1>13, <1>14, <1>15, <1>16 DEF ScansInv

(* A row is taken off its list, to be listed elsewhere or not at all.      *)
LEMMA UnlistStep ==
    ASSUME ScansInv, NEW j \in jobs, Unlist(j)
    PROVE  ScansInv'
<1>1. /\ UNCHANGED <<stored, activeLawn, backfill, clock>> /\ j.pc = "unlist" /\ JobOK(j) /\ j.map \in Lawns
      /\ clock \in Nat /\ clock <= clock /\ activeLawn' \in Lawns \cup {None} /\ IsJob(j)
  BY DEF Unlist, ScansInv, ScansTyped, JobOK
<1>2. PICK k : k = [j EXCEPT !.pc = "list"]
  OBVIOUS
<1>3. IsJob(k) /\ k.pc = "list" /\ k.map = j.map /\ k.row = j.row /\ k.to = j.to
  BY <1>1, <1>2, JobGoes
<1>4. IF j.to = None THEN jobs' = jobs \ {j} ELSE jobs' = (jobs \ {j}) \cup {k}
  BY <1>2 DEF Unlist, GoesTo, Ends
<1>5. /\ listing' \in [Lawns -> Seq(AnyRow)] /\ RowsOf(j.map)' = RowsOf(j.map) \ {j.row}
      /\ \A m \in Lawns : m # j.map => RowsOf(m)' = RowsOf(m)
  <2>1. PICK list \in Seq(AnyRow) : list = listing[j.map]
    BY <1>1 DEF ScansInv, ScansTyped
  <2>2. PICK chosen : chosen = RowsOf(j.map) \ {j.row}
    OBVIOUS
  <2>3. Filtered(list, chosen) \in Seq(AnyRow) /\ ToSet(Filtered(list, chosen)) = ToSet(list) \cap chosen
    BY FilteredSet
  <2>4. PICK after \in Seq(AnyRow) : after = Filtered(list, chosen)
    BY <2>3
  <2>5. listing' = [listing EXCEPT ![j.map] = after]
    BY <2>1, <2>2, <2>4 DEF Unlist
  <2>6. ToSet(after) = RowsOf(j.map) \ {j.row}
    BY <2>1, <2>2, <2>3, <2>4 DEF RowsOf
  <2>7. QED BY <1>1, <2>5, <2>6, RowsAfter
<1>6. \A m \in Lawns : RowsOf(m)' \subseteq RowsOf(m)
  BY <1>5
<1>7. ASSUME NEW i \in jobs', Bears(i)
      PROVE  (i \in jobs /\ i # j) \/ (i = k /\ i # j /\ Bears(j) /\ Moves(j) /\ Moves(k) /\ Holder(k) = Holder(j))
  <2>1. CASE i \in jobs /\ i # j
    BY <2>1
  <2>2. CASE ~(i \in jobs /\ i # j)
    <3>1. j.to # None /\ i = k
      BY <1>4, <1>7, <2>2
    <3>2. QED BY <1>1, <1>3, <3>1 DEF Bears, Moves, Holder
  <2>3. QED BY <2>1, <2>2
<1>8. ScansTyped'
  <2>1. stored' \in [Lawns -> SUBSET AnyRow]
    BY <1>1 DEF ScansInv, ScansTyped
  <2>2. j.to # None => JobOK(k)'
    BY <1>1, <1>3 DEF JobOK, Bears, Moves
  <2>3. \A i \in jobs' \ jobs : JobOK(i)'
    BY <1>4, <2>2
  <2>4. QED BY <1>1, <1>5, <2>1, <2>3, StepTyped
<1>10. NoneAhead'
  BY <1>1, <1>6 DEF ScansInv, NoneAhead
<1>11. OneBearer'
  <2>1. SUFFICES ASSUME NEW i \in jobs', NEW n \in jobs', Bears(i), Bears(n), i.row = n.row PROVE i = n
    BY DEF OneBearer
  <2>2. QED BY <1>3, <1>7, <2>1 DEF ScansInv, OneBearer
<1>12. NotListedYet'
  <2>1. SUFFICES ASSUME NEW i \in jobs', Bears(i), NEW m \in Lawns, i.row \in RowsOf(m)' PROVE i.pc = "unlist" /\ m = i.map
    BY DEF NotListedYet
  <2>2. CASE i \in jobs
    BY <1>6, <2>1, <2>2 DEF ScansInv, NotListedYet
  <2>3. CASE i \notin jobs
    <3>1. i.row = j.row /\ Bears(j)
      BY <1>3, <1>7, <2>1, <2>3
    <3>2. m = j.map
      BY <1>6, <2>1, <3>1 DEF ScansInv, NotListedYet
    <3>3. QED BY <1>5, <2>1, <3>1, <3>2
  <2>4. QED BY <2>2, <2>3
<1>13. FileIsHeld'
  <2>1. ASSUME NEW i \in jobs'
        PROVE  /\ i.pc = "append" \/ Moves(i) => i.row \in stored[Holder(i)]
               /\ Comes(i) => \A n \in Lawns : i.row \notin stored[n]
    <3>1. CASE Bears(i) /\ i \in jobs
      BY <3>1 DEF ScansInv, FileIsHeld
    <3>2. CASE Bears(i) /\ i \notin jobs
      BY <1>3, <1>7, <3>2 DEF ScansInv, FileIsHeld, Comes
    <3>3. CASE ~Bears(i)
      BY <3>3 DEF Bears
    <3>4. QED BY <3>1, <3>2, <3>3
  <2>2. QED BY <1>1, <2>1 DEF FileIsHeld
<1>14. InOnePlace'
  BY <1>1, <1>6 DEF ScansInv, InOnePlace
<1>15. Accounted'
  <2>1. ASSUME NEW m \in Lawns, NEW row \in RowsOf(m)' \ stored[m] PROVE \E i \in jobs' : Removes(i, m, row)
    <3>1. PICK i \in jobs : Removes(i, m, row)
      BY <1>6, <2>1 DEF ScansInv, Accounted
    <3>2. i # j
      <4>1. SUFFICES ASSUME i = j PROVE FALSE
        OBVIOUS
      <4>2. m = j.map /\ row = j.row
        BY <1>1, <3>1, <4>1 DEF Removes
      <4>3. QED BY <1>5, <2>1, <4>2
    <3>3. QED BY <1>4, <3>1, <3>2
  <2>2. QED BY <1>1, <2>1 DEF Accounted
<1>16. PlannedAreNew'
  <2>1. \A i : PlannedRow(i)' = PlannedRow(i)
    BY <1>1 DEF PlannedRow
  <2>2. SUFFICES ASSUME backfill # None PROVE PlannedAreNew'
    BY <1>1 DEF PlannedAreNew
  <2>3. \A i \in DOMAIN backfill.todo : \A n \in jobs' : Bears(n) => n.row # PlannedRow(i)
    BY <1>3, <1>7, <2>2 DEF ScansInv, PlannedAreNew
  <2>4. QED BY <1>1, <1>6, <2>1, <2>2, <2>3 DEF ScansInv, PlannedAreNew
<1>17. QED BY <1>8, <1>10, <1>11, <1>12, <1>13, <1>14, <1>15, <1>16 DEF ScansInv

\* No row is ahead of the clock.
LEMMA StillNoneAhead ==
    ASSUME ScansInv, clock' \in Nat, clock <= clock', NEW m \in Lawns, NEW row \in RowsOf(m) \cup stored[m]
    PROVE  row.ts <= clock'
<1>1. row.ts <= clock
  BY DEF ScansInv, NoneAhead
<1>2. row \in AnyRow
  <2>1. listing[m] \in Seq(AnyRow) /\ stored[m] \in SUBSET AnyRow
    BY DEF ScansInv, ScansTyped
  <2>2. QED BY <2>1 DEF RowsOf, ToSet
<1>3. row.ts \in Nat /\ clock \in Nat
  BY <1>2 DEF AnyRow, ScansInv, ScansTyped
<1>4. QED BY <1>1, <1>3

(* The file of a row goes to another map; its row is to follow.            *)
LEMMA MoveStep ==
    ASSUME ScansInv, NEW from \in Lawns, NEW to \in Lawns, NEW row \in RowsOf(from), MoveEntry(from, to, row)
    PROVE  ScansInv'
<1>0. PICK ts : ts = clock'
  OBVIOUS
<1>1. PICK move : move = [NewJob("move", from, 0, ts, "unlist") EXCEPT !.row = row, !.to = to]
  OBVIOUS
<1>2. IsJob(move) /\ move.pc = "unlist" /\ move.map = from /\ move.row = row /\ move.to = to
  BY <1>1 DEF NewJob, IsJob
<1>3. /\ UNCHANGED <<listing, activeLawn, backfill>> /\ clock' = clock + 1 /\ from # to
      /\ clock \in Nat /\ clock' \in Nat /\ clock <= clock' /\ activeLawn' \in Lawns \cup {None}
  BY DEF MoveEntry, Counted, ScansInv, ScansTyped
<1>4. None \notin Lawns
  BY ScansAssumption
<1>5. CASE row \notin stored[from]
  <2>1. PICK k : k = [move EXCEPT !.to = None]
    OBVIOUS
  <2>2. IsJob(k) /\ k.pc = "unlist" /\ k.map = from /\ k.to = None
    BY <1>2, <2>1 DEF IsJob
  <2>3. UNCHANGED stored /\ jobs' = jobs \cup {k}
    BY <1>0, <1>1, <1>5, <2>1 DEF MoveEntry, Begins
  <2>4. JobOK(k)' /\ ~Bears(k)
    BY <2>2 DEF JobOK, Bears, Comes, Moves
  <2>5. \A i \in jobs' \ jobs : i = k
    BY <2>3
  <2>6. jobs \ jobs' = {}
    BY <2>3
  <2>7. ScansTyped'
    BY <1>3, <2>3, <2>4, <2>5, JobsTyped
  <2>8. QED BY <1>3, <2>3, <2>4, <2>5, <2>6, <2>7, JobsStep
<1>6. CASE row \in stored[from]
  <2>1. jobs' = jobs \cup {move} /\ stored' = [stored EXCEPT ![from] = @ \ {row}, ![to] = @ \cup {row}]
    BY <1>0, <1>1, <1>6 DEF MoveEntry, Begins
  <2>2. Bears(move) /\ Moves(move) /\ Holder(move) = to /\ ~Comes(move)
    BY <1>2, <1>4 DEF Bears, Moves, Holder, Comes
  <2>3. row \in AnyRow /\ row.ts <= clock'
    <3>1. listing[from] \in Seq(AnyRow)
      BY DEF ScansInv, ScansTyped
    <3>2. row \in AnyRow
      BY <3>1 DEF RowsOf, ToSet
    <3>3. QED BY <1>3, <3>2, StillNoneAhead
  <2>4. JobOK(move)'
    BY <1>2, <1>3, <2>3 DEF JobOK
  <2>5. /\ stored' \in [Lawns -> SUBSET AnyRow]
        /\ stored'[from] = stored[from] \ {row} /\ stored'[to] = stored[to] \cup {row}
        /\ \A m \in Lawns : m # from /\ m # to => stored'[m] = stored[m]
    BY <1>3, <2>1, <2>3 DEF ScansInv, ScansTyped
  <2>6. \A m : RowsOf(m)' = RowsOf(m)
    BY <1>3 DEF RowsOf
  <2>7. ASSUME NEW i \in jobs, Bears(i) PROVE i.row # row
    <3>1. SUFFICES ASSUME i.row = row PROVE FALSE
      OBVIOUS
    <3>2. i.pc = "unlist" /\ i.map = from
      BY <2>7, <3>1 DEF ScansInv, NotListedYet
    <3>3. Moves(i) /\ Holder(i) = i.to
      BY <2>7, <3>2 DEF Bears, Comes, Holder
    <3>4. JobOK(i) /\ row \in stored[i.to]
      BY <3>1, <3>3 DEF ScansInv, ScansTyped, FileIsHeld
    <3>5. i.to \in Lawns /\ i.to # from
      BY <3>2, <3>3, <3>4 DEF JobOK
    <3>6. QED BY <1>6, <3>4, <3>5 DEF ScansInv, InOnePlace
  <2>8. ScansTyped'
    <3>1. listing' \in [Lawns -> Seq(AnyRow)]
      BY <1>3 DEF ScansInv, ScansTyped
    <3>2. \A i \in jobs' \ jobs : JobOK(i)'
      BY <2>1, <2>4
    <3>3. QED BY <1>3, <2>5, <3>1, <3>2, StepTyped
  <2>9. NoneAhead'
    <3>1. ASSUME NEW m \in Lawns, NEW x \in RowsOf(m) \cup stored'[m] PROVE x.ts <= clock'
      <4>1. x \in RowsOf(m) \cup stored[m] \/ x = row
        BY <2>5
      <4>2. QED BY <1>3, <2>3, <4>1, StillNoneAhead
    <3>2. QED BY <2>6, <3>1 DEF NoneAhead
  <2>10. OneBearer'
    BY <1>2, <2>1, <2>7 DEF ScansInv, OneBearer
  <2>11. NotListedYet'
    <3>1. \A m \in Lawns : row \in RowsOf(m) => m = from
      BY DEF ScansInv, InOnePlace
    <3>2. QED BY <1>2, <2>1, <2>6, <3>1 DEF ScansInv, NotListedYet
  <2>12. FileIsHeld'
    <3>1. ASSUME NEW i \in jobs
          PROVE  /\ i.pc = "append" \/ Moves(i) => i.row \in stored'[Holder(i)]
                 /\ Comes(i) => \A n \in Lawns : i.row \notin stored'[n]
      <4>1. CASE Bears(i)
        <5>1. JobOK(i) /\ i.row # row
          BY <2>7, <4>1 DEF ScansInv, ScansTyped
        <5>2. i.pc = "append" \/ Moves(i) => i.row \in stored[Holder(i)] /\ Holder(i) \in Lawns
          BY <5>1 DEF ScansInv, FileIsHeld, Holder, JobOK, Moves
        <5>3. Comes(i) => \A n \in Lawns : i.row \notin stored[n]
          BY DEF ScansInv, FileIsHeld
        <5>4. QED BY <2>5, <5>1, <5>2, <5>3
      <4>2. CASE ~Bears(i)
        BY <4>2 DEF Bears
      <4>3. QED BY <4>1, <4>2
    <3>2. row \in stored'[to]
      BY <2>5
    <3>3. QED BY <1>2, <2>1, <2>2, <3>1, <3>2 DEF FileIsHeld
  <2>13. InOnePlace'
    <3>1. \A m \in Lawns : row \in stored[m] => m = from
      BY <1>6 DEF ScansInv, InOnePlace
    <3>2. \A m, n \in Lawns : m # n => \A x \in stored'[m] : x \notin stored'[n]
      BY <1>3, <2>5, <3>1 DEF ScansInv, InOnePlace
    <3>3. QED BY <2>6, <3>2 DEF ScansInv, InOnePlace
  <2>14. Accounted'
    <3>1. ASSUME NEW m \in Lawns, NEW x \in RowsOf(m) \ stored'[m] PROVE \E i \in jobs' : Removes(i, m, x)
      <4>1. CASE x \in stored[m]
        <5>1. m = from /\ x = row
          BY <2>5, <3>1, <4>1
        <5>2. QED BY <1>2, <2>1, <5>1 DEF Removes
      <4>2. CASE x \notin stored[m]
        BY <2>1, <4>2 DEF ScansInv, Accounted
      <4>3. QED BY <4>1, <4>2
    <3>2. QED BY <2>6, <3>1 DEF Accounted
  <2>15. PlannedAreNew'
    <3>1. \A i : PlannedRow(i)' = PlannedRow(i)
      BY <1>3 DEF PlannedRow
    <3>2. SUFFICES ASSUME backfill # None PROVE PlannedAreNew'
      BY <1>3 DEF PlannedAreNew
    <3>3. \A i \in DOMAIN backfill.todo :
              /\ \A n \in Lawns : PlannedRow(i) \notin RowsOf(n) /\ PlannedRow(i) \notin stored[n]
              /\ PlannedRow(i) # row
              /\ \A n \in jobs : Bears(n) => n.row # PlannedRow(i)
      BY <3>2 DEF ScansInv, PlannedAreNew
    <3>4. \A i \in DOMAIN backfill.todo : \A n \in Lawns : PlannedRow(i) \notin stored'[n]
      BY <2>5, <3>3
    <3>5. QED BY <1>2, <1>3, <2>1, <2>6, <3>1, <3>2, <3>3, <3>4 DEF ScansInv, PlannedAreNew
  <2>16. QED BY <2>8, <2>9, <2>10, <2>11, <2>12, <2>13, <2>14, <2>15 DEF ScansInv
<1>7. QED BY <1>5, <1>6

(* The backfill begins: what it is to download is new.                     *)
LEMMA StartBackfillStep ==
    ASSUME ScansInv, StartBackfill
    PROVE  ScansInv'
<1>1. /\ UNCHANGED <<listing, stored, activeLawn, jobs>> /\ clock' = clock + 1 /\ activeLawn \in Lawns
      /\ clock \in Nat /\ clock' \in Nat /\ clock <= clock'
  BY DEF StartBackfill, Counted, ScansInv, ScansTyped
<1>2. PICK chosen : chosen = {s \in AnyScan : \A row \in RowsOf(activeLawn) : row.scan # s}
  OBVIOUS
<1>3. PICK todo : todo = Filtered(CloudScans, chosen)
  OBVIOUS
<1>4. todo \in Seq(AnyScan) /\ \A i, k \in DOMAIN todo : todo[i] = todo[k] => i = k
  <2> DEFINE at(n) == NthOf(KeptAt(CloudScans, chosen), n)
  <2>1. CloudScans \in Seq(AnyScan)
    BY ScansAssumption DEF AnyScan
  <2>2. /\ todo \in Seq(AnyScan)
        /\ \A n \in DOMAIN todo : at(n) \in DOMAIN CloudScans /\ todo[n] = CloudScans[at(n)]
        /\ \A n, m \in DOMAIN todo : at(n) = at(m) => n = m
    BY <1>3, <2>1, FilteredRows
  <2> HIDE DEF at
  <2>3. ASSUME NEW i \in DOMAIN todo, NEW k \in DOMAIN todo, todo[i] = todo[k] PROVE i = k
    BY <2>2, <2>3, ScansAssumption
  <2>4. QED BY <2>2, <2>3
<1>5. PICK ts : ts = clock'
  OBVIOUS
<1>6. backfill' = [map |-> activeLawn, ts |-> ts, todo |-> todo]
  BY <1>2, <1>3, <1>5 DEF StartBackfill, AnyScan
<1>7. /\ backfill' \in [map : Lawns, ts : Nat, todo : Seq(AnyScan)] /\ backfill'.ts <= clock'
      /\ backfill'.todo = todo
  BY <1>1, <1>4, <1>5, <1>6
<1>8. \A m : RowsOf(m)' = RowsOf(m)
  BY <1>1 DEF RowsOf
<1>9. ScansTyped'
  <2>1. ASSUME NEW i \in jobs PROVE JobOK(i)'
    <3>1. JobOK(i)
      BY DEF ScansInv, ScansTyped
    <3>2. Bears(i) => i.row.ts <= clock'
      BY <1>1, <3>1 DEF JobOK, AnyRow
    <3>3. QED BY <3>1, <3>2 DEF JobOK
  <2>2. QED BY <1>1, <1>7, <2>1 DEF ScansInv, ScansTyped
<1>10. NoneAhead'
  BY <1>1, <1>8, StillNoneAhead DEF NoneAhead
<1>11. OneBearer' /\ NotListedYet' /\ FileIsHeld' /\ InOnePlace' /\ Accounted'
  BY <1>1, <1>8 DEF ScansInv, OneBearer, NotListedYet, FileIsHeld, InOnePlace, Accounted
<1>12. PlannedAreNew'
  <2>1. SUFFICES ASSUME NEW i \in DOMAIN todo
                 PROVE  /\ \A m \in Lawns : PlannedRow(i)' \notin RowsOf(m) /\ PlannedRow(i)' \notin stored[m]
                        /\ \A j \in jobs : Bears(j) => j.row # PlannedRow(i)'
    BY <1>1, <1>4, <1>7, <1>8 DEF PlannedAreNew
  <2>2. PICK row : row = PlannedRow(i)'
    OBVIOUS
  <2>3. row.ts = clock + 1
    BY <1>1, <1>5, <1>6, <2>2 DEF PlannedRow
  <2>4. QED BY <2>2, <2>3, LaterIsNew
<1>13. QED BY <1>9, <1>10, <1>11, <1>12 DEF ScansInv

\* Every step keeps it.
LEMMA ScansStep == ScansInv /\ [ScansNext]_scans => ScansInv'
<1>1. SUFFICES ASSUME ScansInv, [ScansNext]_scans PROVE ScansInv'
  OBVIOUS
<1>2. ASSUME NEW scan \in ToSet(CloudScans), Announce(scan) PROVE ScansInv'
  BY <1>1, <1>2, AnnounceStep DEF AnyScan
<1>3. ASSUME NEW from \in Lawns, NEW to \in Lawns, NEW row \in RowsOf(from), MoveEntry(from, to, row) PROVE ScansInv'
  BY <1>1, <1>3, MoveStep
<1>4. ASSUME NEW j \in jobs, Works(j) PROVE ScansInv'
  <2>1. CASE ScanFetched(j) \/ CheckHas(j)
    BY <1>1, <2>1, QuietStep
  <2>2. CASE StoreFile(j)
    BY <1>1, <2>2, StoreStep
  <2>3. CASE AppendRow(j)
    <3>1. j.map \in Lawns
      BY <1>1 DEF ScansInv, ScansTyped, JobOK
    <3>2. QED BY <1>1, <2>3, <3>1, AppendStep
  <2>4. CASE PruneFiles(j)
    <3>1. CASE UNCHANGED stored /\ NextCap(j)
      BY <1>1, <2>4, <3>1, QuietStep
    <3>2. CASE ~(UNCHANGED stored /\ NextCap(j))
      <4>1. PICK kept : kept = ToSet(KeptRows(j.map, j.cap))
        OBVIOUS
      <4>2. RemoveFiles(j.map, kept) /\ jobs' = (jobs \ {j}) \cup {[j EXCEPT !.pc = "assign", !.kept = kept]}
        BY <2>4, <3>2, <4>1 DEF PruneFiles
      <4>3. QED BY <1>1, <2>4, <4>2, PruneStep
    <3>3. QED BY <3>1, <3>2
  <2>5. CASE AssignIndex(j)
    BY <1>1, <2>5, AssignStep
  <2>6. CASE Unlist(j)
    BY <1>1, <2>6, UnlistStep
  <2>7. CASE Relist(j)
    <3>1. j.to \in Lawns
      BY <1>1, <2>7 DEF Relist, ScansInv, ScansTyped, JobOK, Moves
    <3>2. QED BY <1>1, <2>7, <3>1, AppendStep
  <2>8. QED BY <1>4, <2>1, <2>2, <2>3, <2>4, <2>5, <2>6, <2>7 DEF Works
<1>5. CASE UNCHANGED scans
  <2>1. UNCHANGED <<listing, stored, clock, jobs, backfill, activeLawn>>
    BY <1>5 DEF scans
  <2>2. clock \in Nat /\ clock <= clock /\ activeLawn \in Lawns \cup {None}
    BY <1>1 DEF ScansInv, ScansTyped
  <2>3. QED BY <1>1, <2>1, <2>2, JobsTyped, JobsStep
<1>6. QED BY <1>1, <1>2, <1>3, <1>4, <1>5, QuietStep, StartBackfillStep, BackfillNextStep DEF ScansNext

\* When no job is under way every scan that is listed has its file, whatever
\* jobs overlapped and however the lawns' caps changed (LidarArchive).
THEOREM ListedScansAreStored == ScansSpec => []RowsHaveFiles
BY InitScans, ScansStep, FilesAreThere, PTL DEF ScansSpec

-----------------------------------------------------------------------------
(***************************************************************************)
(* The archive of heatmaps, for every number of refreshes, of heatmaps and *)
(* of sessions.  What is shown may lag behind the disk while a refresh     *)
(* that is to load the index again is under way, and after one broke off.  *)
(***************************************************************************)
IsRefresh(k) ==
    k = [pc |-> k.pc, object |-> k.object, todo |-> k.todo, walks |-> k.walks, modified |-> k.modified]
Walked(walks) == walks \subseteq Walks /\ IsFiniteSet(walks)
RefreshOK(k) ==
    /\ IsRefresh(k)
    /\ k.todo \subseteq Objects /\ Walked(k.walks) /\ k.modified \in BOOLEAN
    /\ k.pc = "get" => k.object \in Objects

HeatRows == [object : Objects, lawn : {NoLawn} \cup LawnsOf(Walks)]

HeatmapsTyped ==
    /\ rows \in Seq(HeatRows) /\ torn \in BOOLEAN
    /\ Walked(walked)
    /\ refresh = [r \in Refreshes |-> refresh[r]]
    /\ \A r \in Refreshes : RefreshOK(refresh[r])

WillLoad(r) == refresh[r].pc \in {"next", "get"} \/ (refresh[r].pc = "tag" /\ refresh[r].modified)

HeatmapsInv ==
    /\ HeatmapsTyped
    /\ \A i \in DOMAIN rows : rows[i].object \in bodies
    /\ brokeOff \/ shownRows = LoadIndex \/ \E r \in Refreshes : WillLoad(r)

LEMMA NoWalks == Walked({})
  BY FS_EmptySet DEF Walked

\* Nothing is archived at first.
LEMMA InitHeatmaps == HeatmapsInit => HeatmapsInv
<1>1. SUFFICES ASSUME HeatmapsInit PROVE HeatmapsInv
  OBVIOUS
<1>2. \A r \in Refreshes : RefreshOK(refresh[r])
  BY <1>1, NoWalks DEF HeatmapsInit, RefreshOK, IsRefresh, Resting
<1>3. refresh = [r \in Refreshes |-> refresh[r]]
  BY <1>1 DEF HeatmapsInit
<1>4. rows \in Seq(HeatRows)
  BY <1>1 DEF HeatmapsInit
<1>5. torn \in BOOLEAN /\ Walked(walked)
  BY <1>1, NoWalks DEF HeatmapsInit
<1>6. HeatmapsTyped
  BY <1>2, <1>3, <1>4, <1>5 DEF HeatmapsTyped
<1>7. \A i \in DOMAIN rows : rows[i].object \in bodies
  BY <1>1 DEF HeatmapsInit
<1>8. shownRows = LoadIndex
  BY <1>1 DEF HeatmapsInit, LoadIndex
<1>9. QED BY <1>6, <1>7, <1>8 DEF HeatmapsInv

\* What can be loaded are rows.
LEMMA LoadedRows == HeatmapsTyped => LoadIndex \in Seq(HeatRows)
  BY DEF HeatmapsTyped, LoadIndex

\* What the invariant is for.
LEMMA ShownWhenAtRest == HeatmapsInv => ShownIsArchived
  BY DEF HeatmapsInv, ShownIsArchived, WillLoad

(* What a refresh becomes.                                                 *)
LEMMA RefreshGoes ==
    ASSUME HeatmapsInv, NEW r \in Refreshes, NEW pc, pc # "get", NEW todo \in SUBSET Objects, Goes(r, pc, todo)
    PROVE  /\ refresh' = [q \in Refreshes |-> refresh'[q]]
           /\ \A q \in Refreshes : q # r => refresh'[q] = refresh[q]
           /\ \A q \in Refreshes : RefreshOK(refresh'[q])
           /\ refresh'[r].pc = pc /\ refresh'[r].modified = refresh[r].modified
<1>1. PICK k : k = refresh[r]
  OBVIOUS
<1>2. PICK x : x = [k EXCEPT !.pc = pc, !.todo = todo]
  OBVIOUS
<1>3. RefreshOK(k)
  BY <1>1 DEF HeatmapsInv, HeatmapsTyped
<1>4. IsRefresh(x) /\ x.pc = pc /\ x.todo = todo /\ x.walks = k.walks /\ x.modified = k.modified
  BY <1>2, <1>3 DEF RefreshOK, IsRefresh
<1>5. RefreshOK(x)
  BY <1>3, <1>4 DEF RefreshOK
<1>6. refresh' = [refresh EXCEPT ![r] = x]
  BY <1>1, <1>2 DEF Goes, HeatmapsInv, HeatmapsTyped
<1>7. refresh = [q \in Refreshes |-> refresh[q]]
  BY DEF HeatmapsInv, HeatmapsTyped
<1>8. /\ refresh' = [q \in Refreshes |-> refresh'[q]] /\ refresh'[r] = x
      /\ \A q \in Refreshes : q # r => refresh'[q] = refresh[q]
  BY <1>6, <1>7
<1>9. QED BY <1>1, <1>4, <1>5, <1>8 DEF HeatmapsInv, HeatmapsTyped

\* What a refresh becomes otherwise.
LEMMA RefreshBecomes ==
    ASSUME HeatmapsInv, NEW r \in Refreshes, NEW x, RefreshOK(x), refresh' = [refresh EXCEPT ![r] = x]
    PROVE  /\ refresh' = [q \in Refreshes |-> refresh'[q]]
           /\ \A q \in Refreshes : q # r => refresh'[q] = refresh[q]
           /\ \A q \in Refreshes : RefreshOK(refresh'[q])
           /\ refresh'[r] = x
<1>1. refresh = [q \in Refreshes |-> refresh[q]]
  BY DEF HeatmapsInv, HeatmapsTyped
<1>2. /\ refresh' = [q \in Refreshes |-> refresh'[q]] /\ refresh'[r] = x
      /\ \A q \in Refreshes : q # r => refresh'[q] = refresh[q]
  BY <1>1
<1>3. QED BY <1>2 DEF HeatmapsInv, HeatmapsTyped

\* A refresh that is not under way.
LEMMA RestingIs == RefreshOK(Resting) /\ Resting.pc = "idle"
  BY NoWalks DEF RefreshOK, IsRefresh, Resting

(* The steps that write nothing.                                           *)
LEMMA ReadingStep ==
    ASSUME HeatmapsInv, NEW r \in Refreshes,
           List(r) \/ Download(r) \/ ShowIndex(r) \/ StartMatching(r) \/ Matched(r)
    PROVE  HeatmapsInv' /\ UNCHANGED rows
<1>0. UNCHANGED <<rows, torn, bodies, walked>>
  BY DEF List, Download, ShowIndex, StartMatching, Matched
<1>1. UNCHANGED <<rows, torn, bodies, walked>> /\ LoadIndex' = LoadIndex
  BY <1>0 DEF LoadIndex
<1>2. RefreshOK(refresh[r])
  BY DEF HeatmapsInv, HeatmapsTyped
<1>3. SUFFICES /\ refresh' = [q \in Refreshes |-> refresh'[q]]
               /\ \A q \in Refreshes : q # r => refresh'[q] = refresh[q]
               /\ \A q \in Refreshes : RefreshOK(refresh'[q])
               /\ \/ brokeOff' = brokeOff /\ shownRows' = shownRows /\ (WillLoad(r) => WillLoad(r)')
                  \/ shownRows' = LoadIndex
  <2>1. CASE brokeOff' = brokeOff /\ shownRows' = shownRows /\ (WillLoad(r) => WillLoad(r)')
    <3>1. ASSUME NEW q \in Refreshes, WillLoad(q) PROVE \E p \in Refreshes : WillLoad(p)'
      BY <1>3, <2>1, <3>1 DEF WillLoad
    <3>2. QED BY <1>1, <1>3, <2>1, <3>1 DEF HeatmapsInv, HeatmapsTyped
  <2>2. CASE shownRows' = LoadIndex
    BY <1>1, <1>3, <2>2 DEF HeatmapsInv, HeatmapsTyped
  <2>3. QED BY <1>3, <2>1, <2>2
<1>4. CASE List(r)
  <2>1. PICK found \in SUBSET Objects : Goes(r, "next", found)
    BY <1>4 DEF List
  <2>2. QED BY <1>4, <2>1, RefreshGoes DEF List, WillLoad
<1>5. CASE Download(r)
  <2>1. PICK object \in refresh[r].todo :
            LET rest == refresh[r].todo \ {object}
            IN  IF object \in bodies THEN Goes(r, "next", rest)
                ELSE refresh' = [refresh EXCEPT ![r] = [Resting EXCEPT !.pc = "get", !.object = object, !.todo = rest]]
    BY <1>5 DEF Download
  <2>2. PICK rest \in SUBSET Objects : rest = refresh[r].todo \ {object}
    BY <1>2 DEF RefreshOK
  <2>3. UNCHANGED <<brokeOff, shownRows>>
    BY <1>5 DEF Download
  <2>4. CASE object \in bodies
    BY <2>1, <2>2, <2>3, <2>4, RefreshGoes DEF WillLoad
  <2>5. CASE object \notin bodies
    <3>1. PICK x : x = [Resting EXCEPT !.pc = "get", !.object = object, !.todo = rest]
      OBVIOUS
    <3>2. x = [pc |-> "get", object |-> object, todo |-> rest, walks |-> {}, modified |-> FALSE]
      BY <3>1 DEF Resting
    <3>3. object \in Objects
      BY <1>2 DEF RefreshOK
    <3>4. RefreshOK(x) /\ x.pc = "get"
      BY <3>2, <3>3, NoWalks DEF RefreshOK, IsRefresh
    <3>5. refresh' = [refresh EXCEPT ![r] = x]
      BY <2>1, <2>2, <2>5, <3>1
    <3>6. QED BY <2>3, <3>4, <3>5, RefreshBecomes DEF WillLoad
  <2>6. QED BY <2>4, <2>5
<1>6. CASE ShowIndex(r)
  BY <1>6, RefreshGoes DEF ShowIndex
<1>7. CASE StartMatching(r)
  <2>1. /\ refresh[r].pc = "match" /\ UNCHANGED <<brokeOff, shownRows>>
        /\ \/ refresh' = [refresh EXCEPT ![r] = Resting]
           \/ \E todo \in SUBSET Objects :
                  refresh' = [refresh EXCEPT ![r] = [refresh[r] EXCEPT !.pc = "tag", !.todo = todo, !.walks = walked]]
    <3>1. PICK loaded : loaded = LoadIndex
      OBVIOUS
    <3>2. loaded \in Seq(HeatRows)
      BY <3>1, LoadedRows DEF HeatmapsInv
    <3>3. PICK untagged : untagged = {loaded[i].object : i \in {i \in DOMAIN loaded : loaded[i].lawn = NoLawn}}
      OBVIOUS
    <3>4. untagged \subseteq Objects
      <4>1. \A i \in DOMAIN loaded : loaded[i] \in HeatRows
        BY <3>2
      <4>2. \A i \in DOMAIN loaded : loaded[i].object \in Objects
        BY <4>1 DEF HeatRows
      <4>3. \A object \in untagged : \E i \in DOMAIN loaded : object = loaded[i].object
        BY <3>3
      <4>4. QED BY <4>2, <4>3
    <3>5. refresh' = [refresh EXCEPT ![r] =
               IF untagged = {} \/ walked = {} THEN Resting
               ELSE [@ EXCEPT !.pc = "tag", !.todo = untagged \cap bodies, !.walks = walked]]
      BY <1>7, <3>1, <3>3 DEF StartMatching
    <3>6. refresh[r].pc = "match" /\ UNCHANGED <<brokeOff, shownRows>>
      BY <1>7 DEF StartMatching
    <3>7. untagged \cap bodies \in SUBSET Objects
      BY <3>4
    <3>8. QED BY <3>5, <3>6, <3>7
  <2>2. CASE refresh' = [refresh EXCEPT ![r] = Resting]
    BY <2>1, <2>2, RestingIs, RefreshBecomes DEF WillLoad
  <2>3. CASE \E todo \in SUBSET Objects :
                  refresh' = [refresh EXCEPT ![r] = [refresh[r] EXCEPT !.pc = "tag", !.todo = todo, !.walks = walked]]
    <3>1. PICK todo \in SUBSET Objects :
                  refresh' = [refresh EXCEPT ![r] = [refresh[r] EXCEPT !.pc = "tag", !.todo = todo, !.walks = walked]]
      BY <2>3
    <3>2. PICK k : k = refresh[r]
      OBVIOUS
    <3>3. PICK x : x = [k EXCEPT !.pc = "tag", !.todo = todo, !.walks = walked]
      OBVIOUS
    <3>4. IsRefresh(k)
      BY <1>2, <3>2 DEF RefreshOK
    <3>5. IsRefresh(x) /\ x.pc = "tag" /\ x.todo = todo /\ x.walks = walked /\ x.modified = k.modified
      BY <3>3, <3>4 DEF IsRefresh
    <3>6. RefreshOK(x)
      BY <1>2, <3>2, <3>5 DEF RefreshOK, HeatmapsInv, HeatmapsTyped
    <3>7. refresh' = [refresh EXCEPT ![r] = x]
      BY <3>1, <3>2, <3>3
    <3>8. QED BY <2>1, <3>6, <3>7, RefreshBecomes DEF WillLoad
  <2>4. QED BY <2>1, <2>2, <2>3
<1>8. CASE Matched(r)
  BY <1>8, RestingIs, RefreshBecomes DEF Matched, WillLoad
<1>9. QED BY <1>4, <1>5, <1>6, <1>7, <1>8

(* A row appended to what can be loaded.                                   *)
LEMMA RowAppended ==
    ASSUME HeatmapsTyped, NEW object \in Objects, ListObject(object)
    PROVE  /\ rows' \in Seq(HeatRows) /\ torn' = FALSE
           /\ \A i \in DOMAIN rows' : rows'[i].object = object \/ (i \in DOMAIN rows /\ rows'[i] = rows[i])
           /\ ~torn => /\ Len(rows') >= Len(rows)
                       /\ \A i \in DOMAIN rows : rows'[i] = rows[i]
<1>1. PICK loaded \in Seq(HeatRows) : loaded = LoadIndex
  BY LoadedRows
<1>2. PICK row : row = [object |-> object, lawn |-> NoLawn]
  OBVIOUS
<1>3. row \in HeatRows /\ row.object = object
  BY <1>2 DEF HeatRows
<1>4. rows' = Append(loaded, row) /\ torn' = FALSE
  BY <1>1, <1>2 DEF ListObject
<1>5. /\ rows' \in Seq(HeatRows) /\ Len(rows') = Len(loaded) + 1 /\ DOMAIN rows' = 1 .. Len(loaded) + 1
      /\ \A i \in 1 .. Len(loaded) : rows'[i] = loaded[i]
      /\ rows'[Len(loaded) + 1] = row
  BY <1>3, <1>4
<1>6. DOMAIN loaded = 1 .. Len(loaded) /\ Len(loaded) \in Nat
  OBVIOUS
<1>7. CASE torn
  <2>1. loaded = <<>>
    BY <1>1, <1>7 DEF LoadIndex
  <2>2. QED BY <1>3, <1>4, <1>5, <1>7, <2>1
<1>8. CASE ~torn
  <2>1. loaded = rows
    BY <1>1, <1>8 DEF LoadIndex
  <2>2. QED BY <1>3, <1>4, <1>5, <1>6, <2>1
<1>9. QED BY <1>7, <1>8

(* A download ends, and the body may be archived.                          *)
LEMMA DownloadedStep ==
    ASSUME HeatmapsInv, NEW r \in Refreshes, Downloaded(r)
    PROVE  /\ HeatmapsInv'
           /\ ~torn => /\ Len(rows') >= Len(rows)
                       /\ \A i \in DOMAIN rows : rows'[i] = rows[i]
<1>1. RefreshOK(refresh[r]) /\ refresh[r].pc = "get" /\ UNCHANGED <<shownRows, walked>>
  BY DEF HeatmapsInv, HeatmapsTyped, Downloaded
<1>2. PICK object \in Objects : object = refresh[r].object
  BY <1>1 DEF RefreshOK
<1>3. PICK todo \in SUBSET Objects : todo = refresh[r].todo
  BY <1>1 DEF RefreshOK
<1>4. /\ refresh' = [q \in Refreshes |-> refresh'[q]]
      /\ \A q \in Refreshes : RefreshOK(refresh'[q])
      /\ brokeOff' \/ WillLoad(r)'
  <2>1. CASE Goes(r, "next", todo)
    BY <2>1, RefreshGoes DEF WillLoad
  <2>2. CASE BreaksOff(r)
    BY <2>2, RestingIs, RefreshBecomes DEF BreaksOff
  <2>3. QED BY <1>2, <1>3, <2>1, <2>2 DEF Downloaded, ArchiveBody
<1>5. bodies \subseteq bodies'
  BY <1>2 DEF Downloaded, ArchiveBody
<1>6. \/ UNCHANGED <<rows, torn>>
      \/ ListObject(object) /\ object \in bodies'
  BY <1>2 DEF Downloaded, ArchiveBody
<1>7. HeatmapsTyped /\ rows \in Seq(HeatRows)
  BY DEF HeatmapsInv, HeatmapsTyped
<1>8. /\ rows' \in Seq(HeatRows) /\ torn' \in BOOLEAN
      /\ \A i \in DOMAIN rows' : rows'[i].object \in bodies'
      /\ ~torn => /\ Len(rows') >= Len(rows)
                  /\ \A i \in DOMAIN rows : rows'[i] = rows[i]
  <2>1. CASE UNCHANGED <<rows, torn>>
    BY <1>5, <1>7, <2>1 DEF HeatmapsInv, HeatmapsTyped
  <2>2. CASE ListObject(object) /\ object \in bodies'
    BY <1>5, <1>7, <2>2, RowAppended DEF HeatmapsInv
  <2>3. QED BY <1>6, <2>1, <2>2
<1>9. HeatmapsTyped'
  BY <1>1, <1>4, <1>7, <1>8 DEF HeatmapsTyped
<1>10. QED BY <1>4, <1>8, <1>9 DEF HeatmapsInv

(* A match that is found is a lawn of the sessions the refresh had read.   *)
LEMMA MatchIsALawn ==
    ASSUME NEW object, NEW walks \in SUBSET Walks, NEW lawn \in Match(object, walks)
    PROVE  lawn \in LawnsOf(Walks)
BY DEF Match, Best, LawnsOf

(* The rows after a lawn is set.                                           *)
LEMMA LawnSet ==
    ASSUME HeatmapsTyped, NEW object, NEW lawn \in LawnsOf(Walks), SetMapId(object, lawn)
    PROVE  /\ rows' \in Seq(HeatRows) /\ DOMAIN rows' = DOMAIN rows /\ Len(rows') = Len(rows)
           /\ \A i \in DOMAIN rows :
                  /\ rows'[i].object = rows[i].object
                  /\ rows'[i].lawn # rows[i].lawn => rows[i].object = object /\ rows'[i].lawn = lawn
<1>1. rows \in Seq(HeatRows)
  BY DEF HeatmapsTyped
<1>2. CASE torn
  BY <1>1, <1>2 DEF SetMapId
<1>3. CASE ~torn
  <2>1. rows' = [i \in DOMAIN rows |-> IF rows[i].object = object THEN [rows[i] EXCEPT !.lawn = lawn] ELSE rows[i]]
    BY <1>3 DEF SetMapId, LoadIndex
  <2>2. ASSUME NEW i \in DOMAIN rows
        PROVE  /\ rows'[i] \in HeatRows /\ rows'[i].object = rows[i].object
               /\ rows'[i].lawn # rows[i].lawn => rows[i].object = object /\ rows'[i].lawn = lawn
    <3>1. PICK row \in HeatRows : row = rows[i]
      BY <1>1
    <3>2. rows'[i] = IF row.object = object THEN [row EXCEPT !.lawn = lawn] ELSE row
      BY <2>1, <3>1
    <3>3. row = [object |-> row.object, lawn |-> row.lawn] /\ row.object \in Objects
      BY DEF HeatRows
    <3>4. CASE row.object = object
      <4>1. PICK row1 : row1 = [object |-> row.object, lawn |-> lawn]
        OBVIOUS
      <4>2. rows'[i] = row1
        BY <3>2, <3>3, <3>4, <4>1
      <4>3. row1 \in HeatRows /\ row1.object = row.object /\ row1.lawn = lawn
        BY <3>3, <4>1 DEF HeatRows
      <4>4. QED BY <3>1, <3>4, <4>2, <4>3
    <3>5. CASE row.object # object
      BY <3>1, <3>2, <3>5
    <3>6. QED BY <3>4, <3>5
  <2>3. DOMAIN rows = 1 .. Len(rows) /\ Len(rows) \in Nat
    BY <1>1
  <2>4. PICK new : new = rows'
    OBVIOUS
  <2>5. new = [i \in 1 .. Len(rows) |-> new[i]]
    BY <2>1, <2>3, <2>4
  <2>6. new \in Seq(HeatRows) /\ Len(new) = Len(rows)
    BY <2>2, <2>3, <2>4, <2>5
  <2>7. QED BY <2>2, <2>3, <2>4, <2>5, <2>6
<1>4. QED BY <1>2, <1>3

(* A heatmap is matched with the sessions, and its row written.            *)
LEMMA TagStep ==
    ASSUME HeatmapsInv, NEW r \in Refreshes, Tag(r)
    PROVE  /\ HeatmapsInv' /\ Len(rows') = Len(rows)
           /\ \A i \in DOMAIN rows :
                  /\ rows'[i].object = rows[i].object
                  /\ rows'[i].lawn # rows[i].lawn => rows'[i].lawn \in Match(rows[i].object, refresh[r].walks)
<1>1. RefreshOK(refresh[r]) /\ refresh[r].pc = "tag" /\ UNCHANGED <<torn, bodies, shownRows, walked>>
  BY DEF HeatmapsInv, HeatmapsTyped, Tag
<1>2. HeatmapsTyped /\ rows \in Seq(HeatRows)
  BY DEF HeatmapsInv, HeatmapsTyped
<1>3. PICK object \in refresh[r].todo :
          \/ Goes(r, "tag", refresh[r].todo \ {object}) /\ UNCHANGED <<rows, brokeOff>>
          \/ \E lawn \in Match(object, refresh[r].walks) :
                 /\ SetMapId(object, lawn)
                 /\ refresh' = [refresh EXCEPT ![r].todo = refresh[r].todo \ {object},
                                               ![r].modified = @ \/ rows' # rows]
                 /\ UNCHANGED brokeOff
          \/ BreaksOff(r) /\ UNCHANGED rows
  BY DEF Tag
<1>4. PICK rest \in SUBSET Objects : rest = refresh[r].todo \ {object}
  BY <1>1 DEF RefreshOK
<1>5. CASE Goes(r, "tag", rest) /\ UNCHANGED <<rows, brokeOff>>
  <2>1. /\ refresh' = [q \in Refreshes |-> refresh'[q]]
        /\ \A q \in Refreshes : RefreshOK(refresh'[q]) /\ (WillLoad(q) => WillLoad(q)')
    BY <1>1, <1>5, RefreshGoes DEF WillLoad
  <2>2. HeatmapsTyped'
    BY <1>1, <1>2, <1>5, <2>1 DEF HeatmapsTyped
  <2>3. LoadIndex' = LoadIndex
    BY <1>1, <1>5 DEF LoadIndex
  <2>4. QED BY <1>1, <1>5, <2>1, <2>2, <2>3 DEF HeatmapsInv
<1>6. CASE BreaksOff(r) /\ UNCHANGED rows
  <2>1. /\ refresh' = [q \in Refreshes |-> refresh'[q]]
        /\ \A q \in Refreshes : RefreshOK(refresh'[q])
        /\ brokeOff'
    BY <1>6, RestingIs, RefreshBecomes DEF BreaksOff
  <2>2. HeatmapsTyped'
    BY <1>1, <1>2, <1>6, <2>1 DEF HeatmapsTyped
  <2>3. QED BY <1>1, <1>6, <2>1, <2>2 DEF HeatmapsInv
<1>7. ASSUME NEW lawn \in Match(object, refresh[r].walks), SetMapId(object, lawn), UNCHANGED brokeOff,
             refresh' = [refresh EXCEPT ![r].todo = rest, ![r].modified = @ \/ rows' # rows]
      PROVE  /\ HeatmapsInv' /\ Len(rows') = Len(rows)
             /\ \A i \in DOMAIN rows :
                    /\ rows'[i].object = rows[i].object
                    /\ rows'[i].lawn # rows[i].lawn => rows'[i].lawn \in Match(rows[i].object, refresh[r].walks)
  <2>1. lawn \in LawnsOf(Walks)
    BY <1>1, MatchIsALawn DEF RefreshOK, Walked
  <2>2. /\ rows' \in Seq(HeatRows) /\ DOMAIN rows' = DOMAIN rows /\ Len(rows') = Len(rows)
        /\ \A i \in DOMAIN rows :
               /\ rows'[i].object = rows[i].object
               /\ rows'[i].lawn # rows[i].lawn => rows[i].object = object /\ rows'[i].lawn = lawn
    BY <1>2, <1>7, <2>1, LawnSet
  <2>3. PICK k : k = refresh[r]
    OBVIOUS
  <2>4. IsRefresh(k) /\ RefreshOK(k) /\ k.modified \in BOOLEAN
    BY <1>1, <2>3 DEF RefreshOK
  <2>5. PICK modified \in BOOLEAN : modified = (k.modified \/ rows' # rows)
    BY <2>4
  <2>6. PICK x : x = [k EXCEPT !.todo = rest, !.modified = modified]
    OBVIOUS
  <2>7. IsRefresh(x) /\ x.pc = k.pc /\ x.todo = rest /\ x.walks = k.walks /\ x.modified = modified
    BY <2>4, <2>6 DEF IsRefresh
  <2>8. RefreshOK(x)
    BY <1>1, <2>3, <2>4, <2>7 DEF RefreshOK
  <2>9. refresh' = [refresh EXCEPT ![r] = x]
    BY <1>7, <2>3, <2>5, <2>6 DEF HeatmapsInv, HeatmapsTyped
  <2>10. /\ refresh' = [q \in Refreshes |-> refresh'[q]]
         /\ \A q \in Refreshes : q # r => refresh'[q] = refresh[q]
         /\ \A q \in Refreshes : RefreshOK(refresh'[q])
         /\ refresh'[r] = x
    BY <2>8, <2>9, RefreshBecomes
  <2>11. HeatmapsTyped'
    BY <1>1, <1>2, <2>2, <2>10 DEF HeatmapsTyped
  <2>12. brokeOff' \/ (shownRows = LoadIndex)' \/ \E q \in Refreshes : WillLoad(q)'
    <3>1. CASE rows' # rows
      BY <1>1, <2>3, <2>5, <2>7, <2>10, <3>1 DEF WillLoad
    <3>2. CASE rows' = rows
      <4>1. LoadIndex' = LoadIndex
        BY <1>1, <3>2 DEF LoadIndex
      <4>2. x.pc = refresh[r].pc /\ x.modified = refresh[r].modified
        BY <2>3, <2>4, <2>5, <2>7, <3>2
      <4>3. \A q \in Refreshes : WillLoad(q) => WillLoad(q)'
        BY <2>10, <4>2 DEF WillLoad
      <4>4. QED BY <1>1, <1>7, <4>1, <4>3 DEF HeatmapsInv
    <3>3. QED BY <3>1, <3>2
  <2>13. \A i \in DOMAIN rows' : rows'[i].object \in bodies'
    BY <1>1, <2>2 DEF HeatmapsInv
  <2>14. HeatmapsInv'
    BY <2>11, <2>12, <2>13 DEF HeatmapsInv
  <2>15. QED BY <1>7, <2>2, <2>14
<1>8. QED BY <1>3, <1>4, <1>5, <1>6, <1>7

(* A session ends, or Home Assistant dies and sets itself up again.        *)
LEMMA HeatmapsOutsideStep ==
    ASSUME HeatmapsInv, Crash \/ \E walk \in Walks : EndSession(walk)
    PROVE  HeatmapsInv' /\ UNCHANGED rows
<1>1. CASE Crash
  <2>1. /\ UNCHANGED <<rows, walked>> /\ torn' \in BOOLEAN /\ bodies \subseteq bodies'
        /\ refresh' = [r \in Refreshes |-> Resting] /\ shownRows' = LoadIndex'
    BY <1>1 DEF Crash, HeatmapsInv, HeatmapsTyped
  <2>2. \A r \in Refreshes : RefreshOK(refresh'[r])
    BY <2>1, RestingIs
  <2>3. refresh' = [r \in Refreshes |-> refresh'[r]]
    BY <2>1
  <2>4. HeatmapsTyped'
    BY <2>1, <2>2, <2>3 DEF HeatmapsTyped, HeatmapsInv
  <2>5. QED BY <2>1, <2>4 DEF HeatmapsInv
<1>2. CASE \E walk \in Walks : EndSession(walk)
  <2>1. UNCHANGED <<rows, torn, bodies, shownRows, refresh, brokeOff>> /\ Walked(walked')
    <3>1. PICK walk \in Walks : EndSession(walk)
      BY <1>2
    <3>2. walked \subseteq Walks /\ IsFiniteSet(walked)
      BY DEF HeatmapsInv, HeatmapsTyped, Walked
    <3>3. IsFiniteSet(walked \cup {walk})
      BY <3>2, FS_AddElement
    <3>4. QED BY <3>1, <3>2, <3>3 DEF EndSession, Walked
  <2>2. HeatmapsTyped'
    BY <2>1 DEF HeatmapsInv, HeatmapsTyped
  <2>3. LoadIndex' = LoadIndex /\ \A r \in Refreshes : WillLoad(r)' = WillLoad(r)
    BY <2>1 DEF LoadIndex, WillLoad
  <2>4. QED BY <2>1, <2>2, <2>3 DEF HeatmapsInv
<1>3. QED BY <1>1, <1>2

-----------------------------------------------------------------------------
(***************************************************************************)
(* The best score: why the samples of no other lawn say more.              *)
(***************************************************************************)
LEMMA SomeInList ==
    ASSUME NEW S, NEW list \in Seq(S), list # <<>>
    PROVE  /\ Len(list) \in Nat \ {0} /\ DOMAIN list = 1 .. Len(list)
           /\ \A i \in 1 .. Len(list) : list[i] \in S
  OBVIOUS

\* An index in the samples of a lawn is one of a session of that lawn.
LEMMA SamplesAre ==
    ASSUME NEW walks, Walked(walks), NEW lawn \in LawnsOf(walks)
    PROVE  /\ IsFiniteSet(SamplesOf(walks, lawn)) /\ SamplesOf(walks, lawn) # {}
           /\ \A s \in SamplesOf(walks, lawn) : SampleAt(s) \in [at : Int, rssi : Int]
<1> DEFINE own == {w \in walks : w.lawn = lawn}
           f == [w \in own |-> {<<w, i>> : i \in DOMAIN w.samples}]
           F == {f[w] : w \in own}
<1>1. \A w \in own : w.samples # <<>> /\ w.samples \in Seq([at : Int, rssi : Int])
  BY HeatmapsAssumption DEF Walked
<1>2. IsFiniteSet(own) /\ own # {}
  <2>1. own \subseteq walks OBVIOUS
  <2>2. IsFiniteSet(own) BY <2>1, FS_Subset DEF Walked
  <2>3. QED BY <2>2 DEF LawnsOf
<1>3. SamplesOf(walks, lawn) = UNION F
  <2>1. F = {{<<w, i>> : i \in DOMAIN w.samples} : w \in own}
    <3>1. \A w \in own : f[w] = {<<w, i>> : i \in DOMAIN w.samples}
      OBVIOUS
    <3> DEFINE pairs(w) == {<<w, i>> : i \in DOMAIN w.samples}
               G == {pairs(w) : w \in own}
    <3> HIDE DEF f, own
    <3>2. \A w \in own : f[w] = pairs(w)
      BY <3>1
    <3> HIDE DEF pairs
    <3>3. \A x : x \in F <=> x \in G
      BY <3>2
    <3> HIDE DEF F
    <3>4. F = G
      <4> HIDE DEF G
      <4>1. QED BY <3>3
    <3>5. QED BY <3>4 DEF pairs
  <2> HIDE DEF F
  <2>2. QED BY <2>1, Zenon DEF SamplesOf
<1>4. \A w \in own : f[w] = {<<w, i>> : i \in DOMAIN w.samples}
  OBVIOUS
<1> HIDE DEF f, own
<1>5. ASSUME NEW w \in own
      PROVE  /\ IsFiniteSet(f[w]) /\ f[w] # {}
             /\ \A s \in f[w] : SampleAt(s) \in [at : Int, rssi : Int]
  <2> DEFINE n == Len(w.samples)
             g == [i \in 1 .. n |-> <<w, i>>]
  <2>1. n \in Nat \ {0} /\ DOMAIN w.samples = 1 .. n /\ \A i \in 1 .. n : w.samples[i] \in [at : Int, rssi : Int]
    <3>1. w.samples \in Seq([at : Int, rssi : Int]) /\ w.samples # <<>>
      BY <1>1
    <3>2. QED BY <3>1, SomeInList
  <2> HIDE DEF n
  <2>2. IsFiniteSet(1 .. n)
    BY <2>1, FS_Interval
  <2>3. f[w] \subseteq {g[i] : i \in 1 .. n}
    BY <1>4, <2>1
  <2> HIDE DEF g
  <2>4. IsFiniteSet(f[w])
    BY <2>2, <2>3, ImageIsFinite
  <2>5. <<w, 1>> \in f[w]
    BY <1>4, <2>1
  <2>6. QED BY <1>4, <2>1, <2>4, <2>5 DEF SampleAt
<1>6. IsFiniteSet(F)
  BY <1>2, ImageIsFinite
<1>7. \A T \in F : IsFiniteSet(T) /\ \A s \in T : SampleAt(s) \in [at : Int, rssi : Int]
  BY <1>5
<1>8. UNION F # {}
  BY <1>2, <1>5
<1> HIDE DEF F
<1>9. IsFiniteSet(UNION F)
  BY <1>6, <1>7, FS_UNION
<1>10. QED BY <1>3, <1>7, <1>8, <1>9

\* What a score is made from.
IsFit(f) == f.inside \in Nat /\ f.all \in Nat \ {0} /\ f.known \in Nat \ {0} /\ f.off \in Nat

LEMMA FitIs ==
    ASSUME NEW object \in Objects, NEW walks, Walked(walks), NEW lawn \in LawnsOf(walks)
    PROVE  IsFit(FitOf(object, walks, lawn))
<1> DEFINE heat == Heat[object]
           S == SamplesOf(walks, lawn)
           I == Inside(heat, S)
           known == Measured(heat, S)
           f == [s \in known |-> Off(heat, s)]
           fit == FitOf(object, walks, lawn)
<1>1. IsFiniteSet(S) /\ S # {} /\ \A s \in S : SampleAt(s) \in [at : Int, rssi : Int]
  BY SamplesAre
<1>2. heat.start \in Int /\ heat.cells \in Seq(Int)
  BY HeatmapsAssumption
<1>3. I \subseteq S /\ known \subseteq I /\ \A s \in I : CellAt(heat, s) \in 0 .. Len(heat.cells) - 1
  BY DEF Inside, Measured
<1>4. /\ fit.inside = Cardinality(I) /\ fit.all = Cardinality(S)
      /\ fit.off = IF known = {} THEN 100 ELSE SumFunctionOnSet(f, known)
      /\ fit.known = IF known = {} THEN 1 ELSE Cardinality(known)
  BY DEF FitOf, Fit
<1> HIDE DEF S, I, known, heat, fit
<1>5. IsFiniteSet(I) /\ IsFiniteSet(known)
  BY <1>1, <1>3, FS_Subset
<1>6. /\ Cardinality(I) \in Nat /\ Cardinality(S) \in Nat \ {0}
      /\ known # {} => Cardinality(known) \in Nat \ {0}
  BY <1>1, <1>5, FS_CardinalityType, FS_EmptySet
<1>7. ASSUME NEW s \in known PROVE Off(heat, s) \in Nat
  <2>1. SampleAt(s).rssi \in Int /\ CellAt(heat, s) \in 0 .. Len(heat.cells) - 1
    BY <1>1, <1>3
  <2>2. heat.cells[CellAt(heat, s) + 1] \in Int
    BY <1>2, <2>1
  <2>3. QED BY <2>1, <2>2 DEF Off
<1>8. SumFunctionOnSet(f, known) \in Nat
  <2>1. \A s \in known : f[s] \in Nat
    BY <1>7
  <2> HIDE DEF f
  <2>2. QED BY <1>5, <2>1, SumOfNaturals
<1>9. fit.off \in Nat /\ fit.known \in Nat \ {0}
  BY <1>4, <1>6, <1>8
<1>10. IsFit(fit)
  BY <1>4, <1>6, <1>9 DEF IsFit
<1>11. QED BY <1>10 DEF fit

\* With i of a samples inside, and a distance of o over k cells, against the j, b,
\* p and m of another lawn.
LEMMA BetterScoresMore ==
    ASSUME NEW i \in Nat, NEW a \in Nat \ {0}, NEW o \in Nat, NEW k \in Nat \ {0},
           NEW j \in Nat, NEW b \in Nat \ {0}, NEW p \in Nat, NEW m \in Nat \ {0},
           i > 0, j * a - i * b >= 0, o * m - p * k >= 0, (j * a - i * b) + (o * m - p * k) > 0
    PROVE  (i * 10 * k) * (b * (10 * m + p)) < (j * 10 * m) * (a * (10 * k + o))
<1> DEFINE A == j * a
           B == i * b
           X == 10 * (k * m) + o * m
           Y == 10 * (k * m) + p * k
<1>1. (i * 10 * k) * (b * (10 * m + p)) = 10 * (B * Y)
  OBVIOUS
<1>2. (j * 10 * m) * (a * (10 * k + o)) = 10 * (A * X)
  OBVIOUS
<1>3. k * m \in Nat /\ k * m > 0 /\ o * m \in Nat /\ p * k \in Nat
  OBVIOUS
<1>4. A \in Nat /\ B \in Nat /\ B > 0
  OBVIOUS
<1>5. X \in Nat /\ Y \in Nat /\ X > 0 /\ Y > 0
  BY <1>3
<1>6. A >= B /\ X >= Y /\ (A > B \/ X > Y)
  <2>1. A - B >= 0 /\ X - Y = o * m - p * k
    BY <1>3
  <2>2. (A - B) + (X - Y) > 0 /\ X - Y >= 0
    BY <2>1
  <2> HIDE DEF A, B, X, Y
  <2>3. QED BY <1>4, <1>5, <2>1, <2>2
<1> HIDE DEF A, B, X, Y
<1>7. B * Y \in Nat /\ B * X \in Nat /\ A * X \in Nat
  BY <1>4, <1>5
<1>8. B * Y <= B * X /\ (X > Y => B * Y < B * X)
  BY <1>4, <1>5, <1>6
<1>9. B * X <= A * X /\ (A > B => B * X < A * X)
  BY <1>4, <1>5, <1>6
<1>10. B * Y < A * X
  BY <1>6, <1>7, <1>8, <1>9
<1>11. QED BY <1>1, <1>2, <1>7, <1>10

LEMMA MatchIsSupported ==
    ASSUME NEW object \in Objects, NEW walks, Walked(walks), NEW lawn \in Match(object, walks)
    PROVE  Supported(object, walks, lawn)
<1> DEFINE own == FitOf(object, walks, lawn)
<1>1. lawn \in LawnsOf(walks) /\ own.inside > 0
      /\ \A other \in LawnsOf(walks) : AtLeast(Score(own), Score(FitOf(object, walks, other)))
  BY DEF Match, Best
<1>2. IsFit(own)
  BY <1>1, FitIs
<1>3. ASSUME NEW other \in LawnsOf(walks), NEW f, f = FitOf(object, walks, other),
             f.inside * own.all - own.inside * f.all >= 0,
             own.off * f.known - f.off * own.known >= 0,
             (f.inside * own.all - own.inside * f.all) + (own.off * f.known - f.off * own.known) > 0
      PROVE  FALSE
  <2> HIDE DEF own
  <2>1. IsFit(f)
    BY <1>3, FitIs
  <2>2. AtLeast(Score(own), Score(f))
    BY <1>1, <1>3
  <2>3. (own.inside * 10 * own.known) * (f.all * (10 * f.known + f.off))
        >= (f.inside * 10 * f.known) * (own.all * (10 * own.known + own.off))
    BY <2>2 DEF AtLeast, Score
  <2>4. (own.inside * 10 * own.known) * (f.all * (10 * f.known + f.off))
        < (f.inside * 10 * f.known) * (own.all * (10 * own.known + own.off))
    BY <1>1, <1>2, <1>3, <2>1, BetterScoresMore DEF IsFit
  <2> DEFINE L == (own.inside * 10 * own.known) * (f.all * (10 * f.known + f.off))
             R == (f.inside * 10 * f.known) * (own.all * (10 * own.known + own.off))
  <2>5. L \in Int /\ R \in Int
    BY <1>2, <2>1 DEF IsFit
  <2>6. L >= R /\ L < R
    BY <2>3, <2>4
  <2> HIDE DEF L, R
  <2>7. QED BY <2>5, <2>6
<1>4. QED BY <1>1, <1>3 DEF Supported

(* What a step does to the rows.                                           *)
RowsKept ==
    ~torn =>
        /\ Len(rows') >= Len(rows)
        /\ \A i \in DOMAIN rows :
               /\ rows'[i].object = rows[i].object
               /\ rows'[i].lawn # rows[i].lawn =>
                      \E r \in Refreshes : Supported(rows[i].object, refresh[r].walks, rows'[i].lawn)

\* Every step keeps it.
LEMMA HeatmapsStep == HeatmapsInv /\ [HeatmapsNext]_heatmaps => HeatmapsInv' /\ RowsKept
<1>1. SUFFICES ASSUME HeatmapsInv, [HeatmapsNext]_heatmaps PROVE HeatmapsInv' /\ RowsKept
  OBVIOUS
<1>2. rows \in Seq(HeatRows)
  BY <1>1 DEF HeatmapsInv, HeatmapsTyped
<1>3. UNCHANGED rows => RowsKept
  BY <1>2 DEF RowsKept
<1>4. CASE UNCHANGED heatmaps
  <2>1. UNCHANGED <<rows, torn, bodies, shownRows, walked, refresh, brokeOff>>
    BY <1>4 DEF heatmaps
  <2>2. HeatmapsTyped'
    BY <1>1, <2>1 DEF HeatmapsInv, HeatmapsTyped
  <2>3. LoadIndex' = LoadIndex /\ \A r \in Refreshes : WillLoad(r)' = WillLoad(r)
    BY <2>1 DEF LoadIndex, WillLoad
  <2>4. QED BY <1>1, <1>3, <2>1, <2>2, <2>3 DEF HeatmapsInv
<1>5. ASSUME NEW r \in Refreshes, List(r) \/ Download(r) \/ ShowIndex(r) \/ StartMatching(r) \/ Matched(r)
      PROVE  HeatmapsInv' /\ RowsKept
  BY <1>1, <1>3, <1>5, ReadingStep
<1>6. ASSUME NEW r \in Refreshes, Downloaded(r)
      PROVE  HeatmapsInv' /\ RowsKept
  BY <1>1, <1>6, DownloadedStep DEF RowsKept
<1>7. ASSUME NEW r \in Refreshes, Tag(r)
      PROVE  HeatmapsInv' /\ RowsKept
  <2>1. Len(rows') = Len(rows) /\ Len(rows) \in Nat
    BY <1>1, <1>2, <1>7, TagStep
  <2>2. Walked(refresh[r].walks)
    BY <1>1 DEF HeatmapsInv, HeatmapsTyped, RefreshOK
  <2>3. ASSUME NEW i \in DOMAIN rows, rows'[i].lawn # rows[i].lawn
        PROVE  Supported(rows[i].object, refresh[r].walks, rows'[i].lawn)
    <3>1. rows'[i].lawn \in Match(rows[i].object, refresh[r].walks)
      BY <1>1, <1>7, <2>3, TagStep
    <3>2. rows[i].object \in Objects
      <4>1. rows[i] \in HeatRows
        BY <1>2
      <4>2. QED BY <4>1 DEF HeatRows
    <3>3. QED BY <2>2, <3>1, <3>2, MatchIsSupported
  <2>4. QED BY <1>1, <1>7, <2>1, <2>3, TagStep DEF RowsKept
<1>8. CASE Crash \/ \E walk \in Walks : EndSession(walk)
  BY <1>1, <1>3, <1>8, HeatmapsOutsideStep
<1>9. QED BY <1>1, <1>4, <1>5, <1>6, <1>7, <1>8 DEF HeatmapsNext

\* Every row has its body; when no refresh is under way, and none broke off,
\* what is shown is the index on the disk; and a row is lost only with the
\* index, and its lawn changed only to one that the samples a refresh had read
\* support (refresh_wifi_archive, archive, set_map_id, match_heatmap_to_session).
THEOREM HeatmapsAreKept == HeatmapsSpec => HeatmapsKept
<1>1. HeatmapsSpec => []HeatmapsInv
  BY InitHeatmaps, HeatmapsStep, PTL DEF HeatmapsSpec
<1>2. HeatmapsInv /\ [HeatmapsNext]_heatmaps =>
          [~torn =>
              /\ Len(rows') >= Len(rows)
              /\ \A i \in DOMAIN rows :
                  /\ rows'[i].object = rows[i].object
                  /\ rows'[i].lawn # rows[i].lawn =>
                         \E r \in Refreshes : Supported(rows[i].object, refresh[r].walks, rows'[i].lawn)]_heatmaps
  BY HeatmapsStep DEF RowsKept
<1>3. HeatmapsSpec => RowsStay
  BY <1>1, <1>2, PTL DEF HeatmapsSpec, RowsStay
<1>4. QED BY <1>1, <1>3, ShownWhenAtRest, PTL DEF HeatmapsKept
=============================================================================
