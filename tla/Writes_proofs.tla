---------------------------- MODULE Writes_proofs ----------------------------
(***************************************************************************)
(* Theorems about Writes: its state is typed, and a SETTINGS blob that is  *)
(* about to be sent is fresh, for any fields, values and number of         *)
(* overlapping coroutines.                                                 *)
(***************************************************************************)
EXTENDS Writes, SequenceTheorems, TLAPS

WireOf(kind) == IF kind = "settings" THEN [Settings -> Values]
                ELSE IF kind = "schedule" THEN Schedules ELSE [Parts -> Values]

(* What a coroutine has at each of its awaits.                             *)
JobOK(r) ==
    /\ r \in Coroutines
    /\ r.pc \in {"queued", "based"} => r.kind = "settings" /\ r.value \in Values
    /\ r.kind = "settings" => r.field \in Settings /\ r.old \in Values \cup {None}
    /\ r.kind = "cfg" => r.old \in Shown
    /\ r.pc = "based" => r.blob \in [Settings -> Values] \cup {None}
    /\ r.pc = "put" => r.kind \in Kinds /\ r.blob \in WireOf(r.kind)
    /\ r.pc = "answered" => r.kind \in Kinds
    /\ r.pc = "got" => r.blob \in States

JobsOK == \A j \in Jobs : JobOK(job[j])
LateOK == \A w \in late : w.blob \in WireOf(w.kind)
CloudStateRead == \A j \in Jobs : job[j].pc \in {"queued", "based", "stored"} => cs # None

(* Who is between its fetch and its write, or has not released, is the     *)
(* head of the queue.                                                      *)
Inside(r) == \/ r.kind = "settings" /\ r.pc \in {"based", "put"}
             \/ r.kind # "cfg" /\ r.pc = "answered"
LockHeld == \A j \in Jobs : Inside(job[j]) => Holds(j)

(* What was fetched is what the cloud has ...                              *)
BasesFresh == \A j \in Jobs :
    job[j].pc = "based" /\ ~job[j].raced /\ job[j].blob # None => job[j].blob = settings

IInv == /\ TypeOK /\ JobsOK /\ LateOK /\ CloudStateRead
        /\ LockHeld /\ BasesFresh /\ SettingsWriteIsFresh

(* ... and stays so while the lock is held: what a coroutine says of       *)
(* SETTINGS.                                                               *)
Fresh(r, s) ==
    /\ r.pc = "based" /\ ~r.raced /\ r.blob # None => r.blob = s
    /\ r.kind = "settings" /\ r.pc = "put" /\ ~r.raced =>
           \A f \in Settings \ {r.field} : r.blob[f] = s[f]

-----------------------------------------------------------------------------
(* A step of one coroutine: what must be shown of it.                      *)
LEMMA OneJob ==
    ASSUME IInv, NEW j \in Jobs, NEW r, JobOK(r), job' = [job EXCEPT ![j] = r]
    PROVE  /\ job' \in [Jobs -> Coroutines] /\ JobsOK'
           /\ job'[j] = r /\ \A k \in Jobs : k # j => job'[k] = job[k]
<1>1. job \in [Jobs -> Coroutines] /\ r \in Coroutines
  BY DEF IInv, TypeOK, JobOK
<1>2. /\ job' \in [Jobs -> Coroutines]
      /\ job'[j] = r /\ \A k \in Jobs : k # j => job'[k] = job[k]
  BY <1>1
<1>3. \A k \in Jobs : JobOK(job[k])
  BY DEF IInv, JobsOK
<1>4. \A k \in Jobs : JobOK(job'[k])
  BY <1>2, <1>3
<1>5. QED BY <1>2, <1>4 DEF JobsOK

(* It keeps the invariant when it takes the lock from nobody and leaves    *)
(* SETTINGS to those inside.                                               *)
LEMMA StepKeeps ==
    ASSUME IInv, NEW j \in Jobs, NEW r, JobOK(r), job' = [job EXCEPT ![j] = r],
           queue' \in Seq(Jobs), Inside(r) => Holds(j)',
           \A k \in Jobs : k # j /\ Holds(k) => Holds(k)',
           Fresh(r, settings'), settings' \in [Settings -> Values],
           settings' = settings \/ \A k \in Jobs : k # j => ~Holds(k),
           r.pc \in {"queued", "based", "stored"} => cs' # None, cs # None => cs' # None,
           schedule' \in Schedules, cfg' \in [Parts -> Values],
           late' \subseteq [kind : Kinds, blob : Wires], LateOK',
           cs' \in States \cup {None}, data' \in Shown, edits' \in 0..MaxEdits
    PROVE  IInv'
<1>1. /\ job' \in [Jobs -> Coroutines] /\ JobsOK'
      /\ job'[j] = r /\ \A k \in Jobs : k # j => job'[k] = job[k]
  BY OneJob
<1>2. TypeOK'
  BY <1>1 DEF IInv, TypeOK
<1>3. CloudStateRead'
  BY <1>1 DEF IInv, CloudStateRead
<1>4. LockHeld'
  BY <1>1 DEF IInv, LockHeld
<1>5. \A k \in Jobs : k # j /\ Inside(job[k]) => settings' = settings
  BY DEF IInv, LockHeld
<1>6. BasesFresh'
  <2>1. \A k \in Jobs : job[k].pc = "based" => Inside(job[k])
    BY DEF IInv, JobsOK, JobOK, Inside
  <2>2. QED BY <1>1, <1>5, <2>1 DEF IInv, BasesFresh, Fresh
<1>7. SettingsWriteIsFresh'
  BY <1>1, <1>5 DEF IInv, SettingsWriteIsFresh, Fresh, Inside
<1>8. QED BY <1>1, <1>2, <1>3, <1>4, <1>6, <1>7 DEF IInv

LEMMA FreeOK == JobOK(Free) /\ JobOK([Free EXCEPT !.pc = "refresh"])
BY DEF JobOK, Free, Coroutines, Kinds

LEMMA InitInv == Init => IInv
<1> SUFFICES ASSUME Init PROVE IInv
  OBVIOUS
<1>1. \A j \in Jobs : job[j] = Free
  BY DEF Init
<1>2. TypeOK
  <2>1. schedule \in Schedules /\ settings \in [Settings -> Values] /\ cfg \in [Parts -> Values]
    BY WritesAssumption DEF Init, Schedules
  <2>2. data \in Shown /\ queue \in Seq(Jobs) /\ job \in [Jobs -> Coroutines]
    BY FreeOK DEF Init, Shown, JobOK
  <2>3. QED BY <2>1, <2>2, WritesAssumption DEF Init, TypeOK
<1>3. JobsOK
  BY <1>1, FreeOK DEF JobsOK
<1>4. /\ LateOK /\ CloudStateRead /\ LockHeld /\ BasesFresh /\ SettingsWriteIsFresh
  BY <1>1 DEF Init, LateOK, CloudStateRead, LockHeld, Inside, BasesFresh,
     SettingsWriteIsFresh, Free
<1>5. QED BY <1>2, <1>3, <1>4 DEF IInv

-----------------------------------------------------------------------------
LEMMA JobFacts ==
    ASSUME IInv, NEW j \in Jobs
    PROVE  JobOK(job[j]) /\ job[j] \in Coroutines
BY DEF IInv, JobsOK, JobOK

(* A step of a coroutine that touches neither the cloud nor the lock.      *)
LEMMA LocalStep ==
    ASSUME IInv, NEW j \in Jobs, NEW r, JobOK(r), job' = [job EXCEPT ![j] = r],
           UNCHANGED <<settings, schedule, cfg, late, queue>>,
           Inside(r) => Holds(j), Fresh(r, settings),
           r.pc \in {"queued", "based", "stored"} => cs' # None, cs # None => cs' # None,
           cs' \in States \cup {None}, data' \in Shown, edits' \in 0..MaxEdits
    PROVE  IInv'
<1>1. \A k \in Jobs : Holds(k) => Holds(k)'
  BY DEF Holds
<1>2. LateOK'
  BY DEF IInv, LateOK
<1>3. /\ settings' \in [Settings -> Values] /\ schedule' \in Schedules
      /\ cfg' \in [Parts -> Values] /\ queue' \in Seq(Jobs)
      /\ late' \subseteq [kind : Kinds, blob : Wires]
  BY DEF IInv, TypeOK
<1>4. Fresh(r, settings') /\ settings' = settings
  OBVIOUS
<1>5. QED BY <1>1, <1>2, <1>3, <1>4, StepKeeps

(* A write that starts: what Start makes of its slot.                      *)
LEMMA StartOK ==
    ASSUME IInv, NEW j \in Jobs, NEW kind, NEW field, NEW value, NEW old, NEW blob, NEW pc,
           Start(j, kind, field, value, old, blob, pc)
    PROVE  /\ edits' \in 0..MaxEdits
           /\ job' = [job EXCEPT ![j] =
                 [pc |-> pc, kind |-> kind, field |-> field, value |-> value,
                  old |-> old, blob |-> blob, raced |-> FALSE, ok |-> TRUE]]
<1>1. edits' \in 0..MaxEdits
  BY WritesAssumption DEF IInv, TypeOK, Start
<1>2. QED BY <1>1 DEF Start

LEMMA QueueGrows ==
    ASSUME IInv, NEW j \in Jobs, queue' = Append(queue, j)
    PROVE  queue' \in Seq(Jobs) /\ \A k \in Jobs : Holds(k) => Holds(k)'
<1>1. queue \in Seq(Jobs)
  BY DEF IInv, TypeOK
<1>2. queue' \in Seq(Jobs) /\ Len(queue') = Len(queue) + 1
      /\ (queue # <<>> => queue'[1] = queue[1] /\ Len(queue) >= 1)
  BY <1>1
<1>3. QED BY <1>1, <1>2 DEF Holds

LEMMA ShowOK ==
    ASSUME IInv, NEW f \in Settings \cup Parts, NEW v \in Values \cup {None}, Show(f, v)
    PROVE  data' \in Shown
BY DEF IInv, TypeOK, Show, Shown

LEMMA BeginSettingsKeeps ==
    ASSUME IInv, NEW j \in Jobs, BeginSettings(j)
    PROVE  IInv'
<1>1. PICK f \in Settings, v \in Edits :
          /\ cs # None /\ Show(f, v)
          /\ Start(j, "settings", f, v, data[f], None, "queued")
          /\ queue' = Append(queue, j)
          /\ UNCHANGED <<settings, schedule, cfg, late, cs>>
  BY DEF BeginSettings
<1> DEFINE r == [pc |-> "queued", kind |-> "settings", field |-> f, value |-> v,
                 old |-> data[f], blob |-> None, raced |-> FALSE, ok |-> TRUE]
<1>2. job' = [job EXCEPT ![j] = r] /\ edits' \in 0..MaxEdits
  BY <1>1, StartOK
<1>3. v \in Values
  BY WritesAssumption
<1>4. JobOK(r)
  BY <1>3 DEF IInv, TypeOK, Shown, JobOK, Coroutines, Kinds
<1>5. ~Inside(r) /\ Fresh(r, settings') /\ cs' # None
  BY <1>1 DEF Inside, Fresh
<1>6. data' \in Shown
  BY <1>1, <1>3, ShowOK
<1>7. queue' \in Seq(Jobs) /\ \A k \in Jobs : Holds(k) => Holds(k)'
  BY <1>1, QueueGrows
<1>8. /\ settings' \in [Settings -> Values] /\ settings' = settings
      /\ schedule' \in Schedules /\ cfg' \in [Parts -> Values]
      /\ late' \subseteq [kind : Kinds, blob : Wires] /\ LateOK'
      /\ cs' \in States \cup {None}
  BY <1>1 DEF IInv, TypeOK, LateOK
<1> HIDE DEF r
<1>9. QED BY <1>2, <1>4, <1>5, <1>6, <1>7, <1>8, StepKeeps

LEMMA BeginScheduleKeeps ==
    ASSUME IInv, NEW j \in Jobs, BeginSchedule(j)
    PROVE  IInv'
<1>1. PICK s \in Slots, v \in Edits :
          /\ cs # None
          /\ Start(j, "schedule", s, None, None,
                   [version |-> cs.schedule.version + 1,
                    slots |-> [cs.schedule.slots EXCEPT ![s] = v]], "put")
          /\ queue' = Append(queue, j)
          /\ UNCHANGED <<settings, schedule, cfg, late, cs, data>>
  BY DEF BeginSchedule
<1> DEFINE blob == [version |-> cs.schedule.version + 1,
                    slots |-> [cs.schedule.slots EXCEPT ![s] = v]]
           r == [pc |-> "put", kind |-> "schedule", field |-> s, value |-> None,
                 old |-> None, blob |-> blob, raced |-> FALSE, ok |-> TRUE]
<1>2. job' = [job EXCEPT ![j] = r] /\ edits' \in 0..MaxEdits
  BY <1>1, StartOK
<1>3. blob \in Schedules
  <2>1. cs.schedule \in Schedules
    BY <1>1 DEF IInv, TypeOK, States
  <2>2. QED BY <2>1, WritesAssumption DEF Schedules
<1>4. JobOK(r)
  BY <1>3 DEF JobOK, Coroutines, Kinds, Wires, WireOf
<1>5. ~Inside(r) /\ Fresh(r, settings')
  BY DEF Inside, Fresh
<1>7. queue' \in Seq(Jobs) /\ \A k \in Jobs : Holds(k) => Holds(k)'
  BY <1>1, QueueGrows
<1>8. /\ settings' \in [Settings -> Values] /\ settings' = settings
      /\ schedule' \in Schedules /\ cfg' \in [Parts -> Values]
      /\ late' \subseteq [kind : Kinds, blob : Wires] /\ LateOK'
      /\ cs' \in States \cup {None} /\ data' \in Shown /\ cs' = cs
      /\ r.pc = "put"
  BY <1>1 DEF IInv, TypeOK, LateOK
<1> HIDE DEF r
<1>9. QED BY <1>2, <1>4, <1>5, <1>7, <1>8, StepKeeps

LEMMA BeginCfgKeeps ==
    ASSUME IInv, NEW j \in Jobs, BeginCfg(j)
    PROVE  IInv'
<1> DEFINE blob(p, v) == [q \in Parts |-> IF q = p THEN v
                                         ELSE IF data[q] = None THEN Default
                                         ELSE data[q]]
           r(p, v) == [pc |-> "put", kind |-> "cfg", field |-> p, value |-> None,
                       old |-> data, blob |-> blob(p, v), raced |-> FALSE, ok |-> TRUE]
<1>1. PICK p \in Parts, v \in Edits :
          /\ Start(j, "cfg", p, None, data, blob(p, v), "put") /\ Show(p, v)
          /\ UNCHANGED <<settings, schedule, cfg, late, cs, queue>>
  BY DEF BeginCfg
<1>2. job' = [job EXCEPT ![j] = r(p, v)] /\ edits' \in 0..MaxEdits
  BY <1>1, StartOK
<1>3. v \in Values /\ data \in Shown
  BY WritesAssumption DEF IInv, TypeOK
<1>4. blob(p, v) \in [Parts -> Values]
  BY <1>3, WritesAssumption DEF Shown
<1>5. JobOK(r(p, v))
  BY <1>3, <1>4 DEF JobOK, Coroutines, Kinds, Wires, WireOf
<1>6. ~Inside(r(p, v)) /\ Fresh(r(p, v), settings) /\ r(p, v).pc = "put"
  BY DEF Inside, Fresh
<1>7. data' \in Shown
  BY <1>1, <1>3, ShowOK
<1>8. cs' \in States \cup {None} /\ cs' = cs
  BY <1>1 DEF IInv, TypeOK
<1> HIDE DEF r
<1>9. QED BY <1>1, <1>2, <1>5, <1>6, <1>7, <1>8, LocalStep

LEMMA StartPollKeeps ==
    ASSUME IInv, NEW j \in Jobs, StartPoll(j)
    PROVE  IInv'
<1> DEFINE r == [Free EXCEPT !.pc = "refresh"]
<1>1. job' = [job EXCEPT ![j] = r] /\ JobOK(r)
  BY FreeOK DEF StartPoll
<1>2. ~Inside(r) /\ Fresh(r, settings) /\ r.pc = "refresh"
  BY DEF Inside, Fresh, Free
<1>3. /\ UNCHANGED <<settings, schedule, cfg, late, queue>> /\ cs' = cs
      /\ cs' \in States \cup {None} /\ data' \in Shown /\ edits' \in 0..MaxEdits
  BY DEF StartPoll, IInv, TypeOK
<1> HIDE DEF r
<1>4. QED BY <1>1, <1>2, <1>3, LocalStep

-----------------------------------------------------------------------------
LEMMA FetchFreshKeeps ==
    ASSUME IInv, NEW j \in Jobs, FetchFresh(j)
    PROVE  IInv'
<1>1. PICK base \in {settings, None} :
          job' = [job EXCEPT ![j] = [job[j] EXCEPT !.pc = "based", !.blob = base]]
  BY DEF FetchFresh
<1> DEFINE r == [job[j] EXCEPT !.pc = "based", !.blob = base]
<1>2. JobOK(job[j]) /\ job[j] \in Coroutines /\ job[j].pc = "queued"
  BY JobFacts DEF FetchFresh
<1>3. base \in [Settings -> Values] \cup {None}
  BY DEF IInv, TypeOK
<1>4. JobOK(r)
  BY <1>2, <1>3 DEF JobOK, Coroutines, Wires
<1>5. Fresh(r, settings) /\ Holds(j)
  BY <1>1, <1>2 DEF Fresh, Coroutines, FetchFresh
<1>6. cs # None
  BY <1>2 DEF IInv, CloudStateRead
<1>7. /\ UNCHANGED <<settings, schedule, cfg, late, queue>> /\ cs' = cs
      /\ cs' \in States \cup {None} /\ data' \in Shown /\ edits' \in 0..MaxEdits
  BY DEF FetchFresh, IInv, TypeOK
<1> HIDE DEF r
<1>8. QED BY <1>1, <1>4, <1>5, <1>6, <1>7, LocalStep DEF r

LEMMA FetchStateKeeps ==
    ASSUME IInv, NEW j \in Jobs, FetchState(j)
    PROVE  IInv'
<1> DEFINE state(miss) ==
       [settings |-> IF "settings" \in miss THEN None ELSE settings,
        cfg      |-> IF "cfg" \in miss THEN None ELSE cfg,
        schedule |-> IF "schedule" \in miss THEN NoSchedule ELSE schedule]
<1>1. PICK miss \in Missing :
          job' = [job EXCEPT ![j] = [job[j] EXCEPT !.pc = "got", !.blob = state(miss)]]
  BY DEF FetchState
<1> DEFINE r == [job[j] EXCEPT !.pc = "got", !.blob = state(miss)]
<1>2. JobOK(job[j]) /\ job[j] \in Coroutines
  BY JobFacts
<1>3. state(miss) \in States
  BY DEF IInv, TypeOK, States, Schedules, NoSchedule
<1> HIDE DEF state
<1>4. JobOK(r)
  BY <1>2, <1>3 DEF JobOK, Coroutines
<1>5. ~Inside(r) /\ Fresh(r, settings) /\ r.pc = "got"
  BY <1>2 DEF Inside, Fresh, Coroutines
<1>7. /\ UNCHANGED <<settings, schedule, cfg, late, queue>> /\ cs' = cs
      /\ cs' \in States \cup {None} /\ data' \in Shown /\ edits' \in 0..MaxEdits
  BY DEF FetchState, IInv, TypeOK
<1> HIDE DEF r
<1>8. QED BY <1>1, <1>4, <1>5, <1>7, LocalStep DEF r

LEMMA StoreStateKeeps ==
    ASSUME IInv, NEW j \in Jobs, StoreState(j)
    PROVE  IInv'
<1> DEFINE r == [job[j] EXCEPT !.pc = "stored", !.blob = None]
<1>2. JobOK(job[j]) /\ job[j] \in Coroutines /\ job[j].pc = "got"
  BY JobFacts DEF StoreState
<1>3. job[j].blob \in States /\ job[j].blob # None
  <2>1. job[j].blob \in States
    BY <1>2 DEF JobOK
  <2>2. QED BY <2>1, NoneIsNoState
<1>4. JobOK(r)
  BY <1>2 DEF JobOK, Coroutines
<1>5. ~Inside(r) /\ Fresh(r, settings) /\ r.pc = "stored"
  BY <1>2 DEF Inside, Fresh, Coroutines
<1>7. /\ UNCHANGED <<settings, schedule, cfg, late, queue>>
      /\ cs' \in States /\ cs' # None /\ data' \in Shown /\ edits' \in 0..MaxEdits
      /\ job' = [job EXCEPT ![j] = r]
  BY <1>3 DEF StoreState, IInv, TypeOK
<1> HIDE DEF r
<1>8. QED BY <1>4, <1>5, <1>7, LocalStep

(* The end of a coroutine.                                                 *)
LEMMA EndKeeps ==
    ASSUME IInv, NEW j \in Jobs, NEW d \in Shown, End(j, d),
           UNCHANGED <<settings, schedule, cfg, late, cs, queue, edits>>
    PROVE  IInv'
<1>1. job' = [job EXCEPT ![j] = Free] /\ JobOK(Free)
  BY FreeOK DEF End
<1>2. ~Inside(Free) /\ Fresh(Free, settings) /\ Free.pc = "free"
  BY DEF Inside, Fresh, Free
<1>3. data' \in Shown
  <2>1. CASE job[j].kind = "settings"
    <3>1. job[j].field \in Settings /\ job[j].old \in Values \cup {None}
      BY <2>1, JobFacts DEF JobOK
    <3>2. QED BY <3>1 DEF End, Shown
  <2>2. CASE job[j].kind # "settings"
    BY <2>2 DEF End
  <2>3. QED BY <2>1, <2>2
<1>4. cs' \in States \cup {None} /\ cs' = cs /\ edits' \in 0..MaxEdits
  BY DEF IInv, TypeOK
<1>5. QED BY <1>1, <1>2, <1>3, <1>4, LocalStep

LEMMA FetchStateFailsKeeps ==
    ASSUME IInv, NEW j \in Jobs, FetchStateFails(j)
    PROVE  IInv'
<1>1. data \in Shown
  BY DEF IInv, TypeOK
<1>2. QED BY <1>1, EndKeeps DEF FetchStateFails

LEMMA ApplyStateKeeps ==
    ASSUME IInv, NEW j \in Jobs, ApplyState(j)
    PROVE  IInv'
<1>1. cs \in States
  BY DEF IInv, TypeOK, CloudStateRead, ApplyState
<1>2. Mirror \in Shown
  BY <1>1, WritesAssumption DEF IInv, TypeOK, States, Shown, Mirror
<1>3. QED BY <1>2, EndKeeps DEF ApplyState

-----------------------------------------------------------------------------
(* The lock is released by its holder.                                     *)
LEMMA QueueShrinks ==
    ASSUME IInv, NEW j \in Jobs, Holds(j), queue' = Tail(queue)
    PROVE  queue' \in Seq(Jobs) /\ \A k \in Jobs : k # j => ~Holds(k)
<1>1. queue \in Seq(Jobs) /\ queue # <<>>
  BY DEF IInv, TypeOK, Holds
<1>2. queue' \in Seq(Jobs)
  BY <1>1
<1>3. QED BY <1>2 DEF Holds

LEMMA PutSettingsKeeps ==
    ASSUME IInv, NEW j \in Jobs, PutSettings(j)
    PROVE  IInv'
<1> DEFINE me    == job[j]
           fresh == me.blob # None
           base  == IF fresh THEN me.blob ELSE cs.settings
<1>1. JobOK(me) /\ me \in Coroutines /\ me.pc = "based" /\ me.kind = "settings"
  BY JobFacts DEF PutSettings, JobOK
<1>2. /\ me.field \in Settings /\ me.value \in Values /\ me.old \in Values \cup {None}
      /\ me.blob \in [Settings -> Values] \cup {None}
  BY <1>1 DEF JobOK
<1>3. cs \in States
  BY <1>1 DEF IInv, TypeOK, CloudStateRead
<1>4. base \in [Settings -> Values] \cup {None}
  BY <1>2, <1>3 DEF States
<1>5. cs' \in States
  BY <1>2, <1>3 DEF PutSettings, States
<1>6. /\ UNCHANGED <<settings, schedule, cfg, late, edits>> /\ Holds(j) /\ cs' # None
  BY <1>5, NoneIsNoState DEF PutSettings
<1>7. CASE base = None
  <2>1. /\ queue' = Tail(queue) /\ Show(me.field, me.old)
        /\ job' = [job EXCEPT ![j] = Free]
    BY <1>7 DEF PutSettings
  <2>2. ~Inside(Free) /\ Fresh(Free, settings') /\ JobOK(Free) /\ Free.pc = "free"
    BY FreeOK DEF Inside, Fresh, Free
  <2>3. data' \in Shown
    BY <2>1, <1>2, ShowOK
  <2>4. queue' \in Seq(Jobs) /\ \A k \in Jobs : k # j => ~Holds(k)
    BY <2>1, <1>6, QueueShrinks
  <2>5. /\ settings' \in [Settings -> Values] /\ settings' = settings
        /\ schedule' \in Schedules /\ cfg' \in [Parts -> Values]
        /\ late' \subseteq [kind : Kinds, blob : Wires] /\ LateOK' /\ edits' \in 0..MaxEdits
    BY <1>6 DEF IInv, TypeOK, LateOK
  <2>6. QED BY <2>1, <2>2, <2>3, <2>4, <2>5, <1>5, <1>6, StepKeeps
<1>8. CASE base # None
  <2> DEFINE blob == [base EXCEPT ![me.field] = me.value]
             r == [me EXCEPT !.pc = "put", !.raced = me.raced \/ ~fresh, !.value = None, !.blob = blob]
  <2>1. job' = [job EXCEPT ![j] = r] /\ UNCHANGED <<queue, data>>
    BY <1>8 DEF PutSettings
  <2>2. base \in [Settings -> Values] /\ blob \in [Settings -> Values]
    BY <1>2, <1>4, <1>8
  <2>3. \A f \in Settings \ {me.field} : blob[f] = base[f]
    BY <2>2
  <2>4. me.raced \/ ~fresh \/ base = settings
    BY <1>1 DEF IInv, BasesFresh
  <2>5. /\ r.pc = "put" /\ r.kind = "settings" /\ r.field = me.field /\ r.blob = blob
        /\ r.raced = (me.raced \/ ~fresh)
    BY <1>1 DEF Coroutines
  <2> HIDE DEF blob
  <2>6. JobOK(r)
    BY <1>1, <1>2, <2>2 DEF JobOK, Coroutines, Kinds, WireOf, Wires
  <2> HIDE DEF r
  <2>7. Fresh(r, settings)
    BY <2>3, <2>4, <2>5 DEF Fresh
  <2>8. data' \in Shown /\ edits' \in 0..MaxEdits
    BY <2>1, <1>6 DEF IInv, TypeOK
  <2>9. QED BY <2>1, <2>5, <2>6, <2>7, <2>8, <1>5, <1>6, LocalStep
<1>9. QED BY <1>7, <1>8

LEMMA PutKeeps ==
    ASSUME IInv, NEW j \in Jobs, Put(j)
    PROVE  IInv'
<1> DEFINE me    == job[j]
           r(ok) == [me EXCEPT !.pc = "answered", !.ok = ok, !.value = None,
                               !.blob = None, !.raced = FALSE]
<1>1. JobOK(me) /\ me \in Coroutines /\ me.pc = "put"
  BY JobFacts DEF Put
<1>2. /\ me.kind = "cfg" \/ Holds(j)
      /\ UNCHANGED <<cs, data, queue, edits>>
  BY DEF Put
<1>3. me.kind \in Kinds /\ me.blob \in WireOf(me.kind) /\ me.blob \in Wires
  BY <1>1 DEF JobOK, WireOf, Wires, Kinds
<1>4. PICK ok \in BOOLEAN : job' = [job EXCEPT ![j] = r(ok)]
  BY DEF Put
<1>6. r(ok).pc = "answered" /\ r(ok).kind = me.kind
  BY <1>1 DEF Coroutines
<1>5. JobOK(r(ok))
  <2>1. r(ok).field = me.field /\ r(ok).old = me.old /\ r(ok) \in Coroutines
    BY <1>1 DEF Coroutines
  <2>2. /\ me.kind = "settings" => me.field \in Settings /\ me.old \in Values \cup {None}
        /\ me.kind = "cfg" => me.old \in Shown
    BY <1>1 DEF JobOK
  <2> HIDE DEF r
  <2>3. QED BY <1>3, <1>6, <2>1, <2>2 DEF JobOK
<1>7. Store(me.kind, me.blob) \/ UNCHANGED <<settings, schedule, cfg>>
  BY DEF Put
<1>8. /\ settings' \in [Settings -> Values] /\ schedule' \in Schedules
      /\ cfg' \in [Parts -> Values]
  BY <1>3, <1>7 DEF IInv, TypeOK, Store, WireOf
<1>9. settings' = settings \/ Holds(j)
  BY <1>2, <1>7 DEF Store
<1>10. late' \subseteq late \cup {[kind |-> me.kind, blob |-> me.blob]}
  BY DEF Put
<1>11. late' \subseteq [kind : Kinds, blob : Wires] /\ LateOK'
  BY <1>3, <1>10 DEF IInv, TypeOK, LateOK
<1>12. /\ queue' \in Seq(Jobs) /\ \A k \in Jobs : Holds(k) => Holds(k)'
       /\ cs' = cs /\ cs' \in States \cup {None} /\ data' \in Shown /\ edits' \in 0..MaxEdits
  BY <1>2 DEF IInv, TypeOK, Holds
<1> HIDE DEF r
<1>13. (Inside(r(ok)) => Holds(j)') /\ Fresh(r(ok), settings')
  BY <1>2, <1>6, <1>12 DEF Inside, Fresh
<1>14. \A k \in Jobs : k # j /\ Holds(k) => ~Holds(j)
  BY DEF Holds
<1>15. QED BY <1>4, <1>5, <1>6, <1>8, <1>9, <1>11, <1>12, <1>13, <1>14, StepKeeps

LEMMA ResumeKeeps ==
    ASSUME IInv, NEW j \in Jobs, Resume(j)
    PROVE  IInv'
<1>1. JobOK(job[j]) /\ job[j] \in Coroutines /\ job[j].pc = "answered"
  BY JobFacts DEF Resume
<1>2. /\ UNCHANGED <<settings, schedule, cfg, late, cs, edits>>
  BY DEF Resume
<1>3. ~Inside(Free) /\ Fresh(Free, settings) /\ JobOK(Free) /\ Free.pc = "free"
  BY FreeOK DEF Inside, Fresh, Free
<1>4. /\ cs' \in States \cup {None} /\ cs' = cs /\ edits' \in 0..MaxEdits
      /\ settings' \in [Settings -> Values] /\ settings' = settings
      /\ schedule' \in Schedules /\ cfg' \in [Parts -> Values]
      /\ late' \subseteq [kind : Kinds, blob : Wires] /\ LateOK'
  BY <1>2 DEF IInv, TypeOK, LateOK
<1>5. CASE job[j].kind = "cfg"
  <2>1. /\ data' = IF job[j].ok THEN data ELSE job[j].old
        /\ job' = [job EXCEPT ![j] = Free] /\ queue' = queue
    BY <1>5 DEF Resume
  <2>2. data' \in Shown
    BY <2>1, <1>1, <1>5 DEF JobOK, IInv, TypeOK
  <2>3. QED BY <2>1, <2>2, <1>2, <1>3, <1>4, LocalStep
<1>6. CASE job[j].kind # "cfg"
  <2>1. queue' = Tail(queue) /\ data' = data
    BY <1>6 DEF Resume
  <2>2. PICK r \in {Free, Refreshing(j)} : job' = [job EXCEPT ![j] = r]
    BY <1>6 DEF Resume
  <2>3. JobOK(r) /\ ~Inside(r) /\ Fresh(r, settings) /\ r.pc \in {"free", "refresh"}
    <3>1. CASE r = Free
      BY <3>1, <1>3
    <3>2. CASE r = [Free EXCEPT !.pc = "refresh"]
      BY <3>2, FreeOK DEF Inside, Fresh, Free
    <3>3. CASE r = [job[j] EXCEPT !.pc = "refresh"]
      BY <3>3, <1>1 DEF JobOK, Coroutines, Inside, Fresh
    <3>4. QED BY <3>1, <3>2, <3>3 DEF Refreshing
  <2>4. Holds(j)
    BY <1>1, <1>6 DEF IInv, LockHeld, Inside
  <2>5. queue' \in Seq(Jobs) /\ \A k \in Jobs : k # j => ~Holds(k)
    BY <2>1, <2>4, QueueShrinks
  <2>6. data' \in Shown
    BY <2>1 DEF IInv, TypeOK
  <2>7. QED BY <2>2, <2>3, <2>5, <2>6, <1>2, <1>4, StepKeeps
<1>7. QED BY <1>5, <1>6

-----------------------------------------------------------------------------
(* A step of nobody's: whoever has fetched SETTINGS is raced when it       *)
(* writes them.                                                            *)
LEMMA OutsideKeeps ==
    ASSUME IInv, UNCHANGED <<cs, queue>>,
           job' = Race \/ (job' = job /\ settings' = settings),
           settings' \in [Settings -> Values], schedule' \in Schedules,
           cfg' \in [Parts -> Values], late' \subseteq [kind : Kinds, blob : Wires],
           LateOK', data' \in Shown, edits' \in 0..MaxEdits
    PROVE  IInv'
<1>1. CASE job' = job /\ settings' = settings
  BY <1>1 DEF IInv, TypeOK, JobsOK, CloudStateRead, LockHeld, Holds, BasesFresh,
     SettingsWriteIsFresh
<1>2. CASE job' = Race
  <2>1. \A k \in Jobs : JobOK(job[k]) /\ job[k] \in Coroutines
    BY JobFacts
  <2>2. \A k \in Jobs :
           job'[k] = [job[k] EXCEPT !.raced = job[k].raced \/
                        (job[k].kind = "settings" /\ job[k].pc \in {"based", "put"})]
    BY <1>2 DEF Race
  <2>3. \A k \in Jobs : JobOK(job'[k])
    <3> TAKE k \in Jobs
    <3>1. job[k].raced \in BOOLEAN
      BY <2>1 DEF Coroutines
    <3>2. PICK b \in BOOLEAN : job'[k] = [job[k] EXCEPT !.raced = b]
      BY <2>2, <3>1
    <3>3. QED BY <2>1, <3>2 DEF JobOK, Coroutines
  <2>4. job' \in [Jobs -> Coroutines]
    BY <1>2, <2>2, <2>3 DEF Race, JobOK
  <2>5. \A k \in Jobs :
           /\ job'[k].pc = job[k].pc /\ job'[k].kind = job[k].kind
           /\ job[k].kind = "settings" /\ job[k].pc \in {"based", "put"} => job'[k].raced
    BY <2>1, <2>2 DEF Coroutines
  <2>6. \A k \in Jobs : job[k].pc = "based" => job[k].kind = "settings"
    BY <2>1 DEF JobOK
  <2>7. BasesFresh' /\ SettingsWriteIsFresh'
    BY <2>5, <2>6 DEF BasesFresh, SettingsWriteIsFresh
  <2>8. CloudStateRead' /\ LockHeld'
    BY <2>5 DEF IInv, CloudStateRead, LockHeld, Inside, Holds
  <2>9. TypeOK' /\ JobsOK'
    BY <2>3, <2>4 DEF IInv, TypeOK, JobsOK
  <2>10. QED BY <2>7, <2>8, <2>9 DEF IInv
<1>3. QED BY <1>1, <1>2

LEMMA ArriveLateKeeps ==
    ASSUME IInv, ArriveLate
    PROVE  IInv'
<1>1. PICK w \in late : /\ Store(w.kind, w.blob) /\ late' = late \ {w}
                        /\ job' = IF w.kind = "settings" THEN Race ELSE job
  BY DEF ArriveLate
<1>2. w.kind \in Kinds /\ w.blob \in WireOf(w.kind)
  BY DEF IInv, TypeOK, LateOK
<1>3. /\ settings' \in [Settings -> Values] /\ schedule' \in Schedules
      /\ cfg' \in [Parts -> Values]
  BY <1>1, <1>2 DEF Store, WireOf, IInv, TypeOK
<1>4. job' = Race \/ (job' = job /\ settings' = settings)
  BY <1>1 DEF Store
<1>5. /\ late' \subseteq [kind : Kinds, blob : Wires] /\ LateOK'
      /\ data' \in Shown /\ edits' \in 0..MaxEdits
  BY <1>1 DEF ArriveLate, IInv, TypeOK, LateOK
<1>6. QED BY <1>3, <1>4, <1>5, OutsideKeeps DEF ArriveLate

LEMMA AppEditsKeeps ==
    ASSUME IInv, AppEdits
    PROVE  IInv'
<1>1. /\ settings' \in [Settings -> Values] /\ schedule' \in Schedules
      /\ cfg' \in [Parts -> Values]
  BY WritesAssumption DEF AppEdits, IInv, TypeOK, Schedules
<1>2. job' = Race \/ (job' = job /\ settings' = settings)
  BY DEF AppEdits
<1>3. edits' \in 0..MaxEdits
  BY WritesAssumption DEF AppEdits, IInv, TypeOK
<1>4. /\ late' \subseteq [kind : Kinds, blob : Wires] /\ LateOK' /\ data' \in Shown
  BY DEF AppEdits, IInv, TypeOK, LateOK
<1>5. QED BY <1>1, <1>2, <1>3, <1>4, OutsideKeeps DEF AppEdits

LEMMA PushKeeps ==
    ASSUME IInv, Push \/ UNCHANGED vars
    PROVE  IInv'
<1>1. data' \in Shown
  BY DEF Push, vars, IInv, TypeOK, Shown
<1>2. /\ settings' \in [Settings -> Values] /\ schedule' \in Schedules
      /\ cfg' \in [Parts -> Values] /\ edits' \in 0..MaxEdits
      /\ late' \subseteq [kind : Kinds, blob : Wires] /\ LateOK'
  BY DEF Push, vars, IInv, TypeOK, LateOK
<1>3. QED BY <1>1, <1>2, OutsideKeeps DEF Push, vars

-----------------------------------------------------------------------------
LEMMA Inductive == IInv /\ [Next]_vars => IInv'
<1> SUFFICES ASSUME IInv, [Next]_vars PROVE IInv'
  OBVIOUS
<1>1. ASSUME NEW j \in Jobs, BeginSettings(j) \/ BeginSchedule(j) \/ BeginCfg(j) \/ StartPoll(j)
      PROVE  IInv'
  BY <1>1, BeginSettingsKeeps, BeginScheduleKeeps, BeginCfgKeeps, StartPollKeeps
<1>2. ASSUME NEW j \in Jobs, Requests(j) PROVE IInv'
  BY <1>2, FetchFreshKeeps, PutKeeps, FetchStateKeeps, FetchStateFailsKeeps DEF Requests
<1>3. ASSUME NEW j \in Jobs, Loop(j) PROVE IInv'
  BY <1>3, PutSettingsKeeps, ResumeKeeps, StoreStateKeeps, ApplyStateKeeps DEF Loop
<1>4. CASE ArriveLate
  BY <1>4, ArriveLateKeeps
<1>5. CASE AppEdits
  BY <1>5, AppEditsKeeps
<1>6. CASE Push \/ UNCHANGED vars
  BY <1>6, PushKeeps
<1>7. QED BY <1>1, <1>2, <1>3, <1>4, <1>5, <1>6 DEF Next

LEMMA InvariantHolds == Spec => []IInv
BY InitInv, Inductive, PTL DEF Spec

(* The state is typed, for any constants.                                  *)
THEOREM TypeCorrect == Spec => []TypeOK
<1>1. IInv => TypeOK
  BY DEF IInv
<1>2. QED BY <1>1, InvariantHolds, PTL

(* A write under _chunked_write_lock sends what the cloud holds with its   *)
(* own field replaced: no other writer of the integration comes between    *)
(* its fetch and its request, however many wait.                           *)
THEOREM FreshWrites == Spec => []SettingsWriteIsFresh
<1>1. IInv => SettingsWriteIsFresh
  BY DEF IInv
<1>2. QED BY <1>1, InvariantHolds, PTL
=============================================================================
