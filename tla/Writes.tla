------------------------------- MODULE Writes -------------------------------
(***************************************************************************)
(* coordinator/_writes.py, _cloud_state.py: what the user edits is written *)
(* to the cloud, and what the cloud holds is read back into cloud_state    *)
(* and from there into MowerState.                                         *)
(*                                                                         *)
(* SETTINGS (a blob of fields) is read afresh and written as a whole under *)
(* _chunked_write_lock; SCHEDULE (a version and a list of slots) is built  *)
(* from cloud_state and written under the same lock; a CFG key (a list of  *)
(* parts, such as BAT) is built from MowerState and written without it.    *)
(* MowerState shows an edit before it is written, and a failed write       *)
(* reverts it.                                                             *)
(*                                                                         *)
(* A write or a refresh is a coroutine in a slot of Jobs.  It hands each   *)
(* request to the executor: the step that ends in the cloud is one action, *)
(* the coroutine's resumption on the loop another.  A write whose answer   *)
(* is lost (15 s) may have reached the cloud, or reach it later.           *)
(***************************************************************************)
EXTENDS Integers, Sequences

CONSTANTS
    None,
    Settings,    \* fields of SETTINGS
    Parts,       \* parts of one CFG key
    Slots,       \* slots of the schedule
    Values,
    Edits,       \* the values that are written (all, or fewer to bound a run)
    Default,     \* what a builder sends for a part that was never read
    Missing,     \* what a refresh may miss: sets of families (bound of a run)
    Jobs,        \* slots for coroutines (bound on how many overlap)
    MaxEdits     \* bound on the edits, in Home Assistant and in the app

ASSUME WritesAssumption ==
    /\ Default \in Values /\ None \notin Values /\ None \notin Jobs
    /\ Settings \cap Parts = {}
    /\ Missing \subseteq SUBSET {"settings", "cfg", "schedule"}
    /\ Edits \subseteq Values /\ MaxEdits \in Nat

VARIABLES
    settings,    \* the cloud's SETTINGS
    schedule,    \* the cloud's SCHEDULE
    cfg,         \* the mower's CFG key
    late,        \* writes given up that may still arrive
    cs,          \* cloud_state
    data,        \* MowerState: what is shown
    queue,       \* _chunked_write_lock: its holder, then those that wait
    job,         \* the coroutines
    edits        \* how many there were

vars == <<settings, schedule, cfg, late, cs, data, queue, job, edits>>

Schedules == [version : Nat, slots : [Slots -> Values \cup {None}]]
NoSchedule == [version |-> 0, slots |-> [s \in Slots |-> None]]
Shown == [Settings \cup Parts -> Values \cup {None}]

States == [settings : [Settings -> Values] \cup {None},
           cfg : [Parts -> Values] \cup {None}, schedule : Schedules]

ASSUME NoneIsNoState == None \notin States

(* What is sent: the whole of what holds the field.                        *)
Kinds == {"settings", "schedule", "cfg"}
Wires == [Settings -> Values] \cup [Parts -> Values] \cup Schedules

Coroutines ==
    [pc : {"free", "queued", "based", "put", "answered", "refresh", "got", "stored"},
     kind : Kinds \cup {"poll"}, field : Settings \cup Parts \cup Slots \cup {None},
     value : Values \cup {None}, old : Values \cup Shown \cup {None},
     blob : Wires \cup States \cup {None}, raced : BOOLEAN, ok : BOOLEAN]
Free   == [pc |-> "free", kind |-> "poll", field |-> None, value |-> None,
           old |-> None, blob |-> None, raced |-> FALSE, ok |-> TRUE]

TypeOK ==
    /\ settings \in [Settings -> Values] /\ schedule \in Schedules
    /\ cfg \in [Parts -> Values]
    /\ late \subseteq [kind : Kinds, blob : Wires]
    /\ cs \in States \cup {None} /\ data \in Shown
    /\ queue \in Seq(Jobs)
    /\ job \in [Jobs -> Coroutines]
    /\ edits \in 0..MaxEdits

Init ==
    /\ settings = [f \in Settings |-> Default] /\ cfg = [p \in Parts |-> Default]
    /\ schedule = [version |-> 1, slots |-> [s \in Slots |-> Default]]
    /\ late = {} /\ cs = None
    /\ data = [f \in Settings \cup Parts |-> None]
    /\ queue = <<>> /\ job = [j \in Jobs |-> Free]
    /\ edits = 0

-----------------------------------------------------------------------------
(* A write starts.                                                         *)
Start(j, kind, field, value, old, blob, pc) ==
    /\ job[j].pc = "free" /\ edits < MaxEdits
    /\ edits' = edits + 1
    /\ job' = [job EXCEPT ![j] = [pc |-> pc, kind |-> kind, field |-> field, value |-> value,
                                  old |-> old, blob |-> blob, raced |-> FALSE, ok |-> TRUE]]

Show(field, value) == data' = [data EXCEPT ![field] = value]

(* settings_optimistic_write, up to the lock; the entity exists since the  *)
(* first refresh.                                                          *)
BeginSettings(j) ==
    \E f \in Settings, v \in Edits :
        /\ cs # None
        /\ Start(j, "settings", f, v, data[f], None, "queued")
        /\ Show(f, v)
        /\ queue' = Append(queue, j)
        /\ UNCHANGED <<settings, schedule, cfg, late, cs>>

(* _handle_set_schedule_plans and write_schedule: one slot is replaced in  *)
(* the slots of cloud_state, and the version is its version plus one.      *)
BeginSchedule(j) ==
    \E s \in Slots, v \in Edits :
        /\ cs # None
        /\ Start(j, "schedule", s, None, None,
                 [version |-> cs.schedule.version + 1,
                  slots |-> [cs.schedule.slots EXCEPT ![s] = v]], "put")
        /\ queue' = Append(queue, j)
        /\ UNCHANGED <<settings, schedule, cfg, late, cs, data>>

(* The set-method of a CFG entity and write_setting, up to the request:    *)
(* the other parts are taken from MowerState, and the whole of it is kept  *)
(* for the revert.                                                         *)
BeginCfg(j) ==
    \E p \in Parts, v \in Edits :
        /\ Start(j, "cfg", p, None, data,
                 [q \in Parts |-> IF q = p THEN v
                                  ELSE IF data[q] = None THEN Default
                                  ELSE data[q]], "put")
        /\ Show(p, v)
        /\ UNCHANGED <<settings, schedule, cfg, late, cs, queue>>

(* The 2 min timer, a tripwire's refresh or the button.                    *)
StartPoll(j) ==
    /\ job[j].pc = "free"
    /\ job' = [job EXCEPT ![j] = [Free EXCEPT !.pc = "refresh"]]
    /\ UNCHANGED <<settings, schedule, cfg, late, cs, data, queue, edits>>

-----------------------------------------------------------------------------
(* The lock is held by the head of the queue.                              *)
Holds(j) == queue # <<>> /\ Head(queue) = j

(* Faulty: the blob is fetched before the lock is taken.                   *)
FetchUnlocked(j) ==
    /\ job[j].pc = "queued"
    /\ \E base \in {settings, None} :
           job' = [job EXCEPT ![j] = [@ EXCEPT !.pc = "based", !.blob = base]]
    /\ UNCHANGED <<settings, schedule, cfg, late, cs, data, queue, edits>>

(* write_settings holds the lock and fetches the blob, which may fail.     *)
FetchFresh(j) ==
    /\ job[j].pc = "queued" /\ Holds(j)
    /\ \E base \in {settings, None} :
           job' = [job EXCEPT ![j] = [@ EXCEPT !.pc = "based", !.blob = base]]
    /\ UNCHANGED <<settings, schedule, cfg, late, cs, data, queue, edits>>

(* write_settings resumes: it edits the blob, or cloud_state's when the    *)
(* fetch failed, and gives up when that has none.                          *)
PutSettings(j) ==
    LET me    == job[j]
        fresh == me.blob # None
        base  == IF fresh THEN me.blob ELSE cs.settings
    IN  /\ me.pc = "based" /\ Holds(j)
        /\ cs' = IF fresh THEN [cs EXCEPT !.settings = me.blob] ELSE cs
        /\ IF base = None
           THEN /\ queue' = Tail(queue) /\ Show(me.field, me.old)
                /\ job' = [job EXCEPT ![j] = Free]
           ELSE /\ job' = [job EXCEPT ![j] = [me EXCEPT
                              !.pc = "put", !.raced = me.raced \/ ~fresh, !.value = None,
                              !.blob = [base EXCEPT ![me.field] = me.value]]]
                /\ UNCHANGED <<queue, data>>
        /\ UNCHANGED <<settings, schedule, cfg, late, edits>>

(* A write arrives in the cloud.                                           *)
Store(kind, blob) ==
    /\ settings' = IF kind = "settings" THEN blob ELSE settings
    /\ schedule' = IF kind = "schedule" THEN blob ELSE schedule
    /\ cfg'      = IF kind = "cfg" THEN blob ELSE cfg

(* Somebody else than the holder of the lock has written SETTINGS: whoever *)
(* has fetched the blob is raced.                                          *)
Race == [k \in Jobs |-> [job[k] EXCEPT
            !.raced = @ \/ (job[k].kind = "settings" /\ job[k].pc \in {"based", "put"})]]

(* The request of the write of j: accepted; refused or undelivered; or its *)
(* answer is lost and it arrives now, later or never.                      *)
Put(j) ==
    LET me == job[j]
        Ends(ok) == job' = [job EXCEPT ![j] = [@ EXCEPT !.pc = "answered", !.ok = ok,
                               !.value = None, !.blob = None, !.raced = FALSE]]
    IN  /\ me.pc = "put" /\ (me.kind = "cfg" \/ Holds(j))
        /\ \/ Store(me.kind, me.blob) /\ (Ends(TRUE) \/ Ends(FALSE)) /\ UNCHANGED late
           \/ Ends(FALSE) /\ UNCHANGED <<settings, schedule, cfg>>
              /\ late' \in {late, late \cup {[kind |-> me.kind, blob |-> me.blob]}}
        /\ UNCHANGED <<cs, data, queue, edits>>

ArriveLate ==
    /\ \E w \in late :
           /\ Store(w.kind, w.blob) /\ late' = late \ {w}
           /\ job' = IF w.kind = "settings" THEN Race ELSE job
    /\ UNCHANGED <<cs, data, queue, edits>>

(* After the write the coroutine is a refresh, and one that failed still   *)
(* has its field to revert.                                                *)
Refreshing(j) == IF job[j].ok THEN [Free EXCEPT !.pc = "refresh"]
                 ELSE [job[j] EXCEPT !.pc = "refresh"]

(* Faulty: an exception keeps the lock.                                    *)
ResumeKeepsLock(j) ==
    /\ job[j].pc = "answered"
    /\ CASE job[j].kind = "cfg" ->
               /\ data' = IF job[j].ok THEN data ELSE job[j].old
               /\ job' = [job EXCEPT ![j] = Free] /\ UNCHANGED queue
         [] OTHER ->
               /\ UNCHANGED data
               /\ \/ job' = [job EXCEPT ![j] = Refreshing(j)] /\ queue' = Tail(queue)
                  \/ ~job[j].ok /\ job' = [job EXCEPT ![j] = Free] /\ UNCHANGED queue
    /\ UNCHANGED <<settings, schedule, cfg, late, cs, edits>>

(* The writer resumes.  A failed CFG write puts the whole MowerState back; *)
(* a writer under the lock releases it, and goes on to the refresh unless  *)
(* an exception of the client ends it (an answer that is no JSON).         *)
Resume(j) ==
    /\ job[j].pc = "answered"
    /\ CASE job[j].kind = "cfg" ->
               /\ data' = IF job[j].ok THEN data ELSE job[j].old
               /\ job' = [job EXCEPT ![j] = Free] /\ UNCHANGED queue
         [] OTHER ->
               /\ queue' = Tail(queue) /\ UNCHANGED data
               /\ \/ job' = [job EXCEPT ![j] = Refreshing(j)]
                  \/ ~job[j].ok /\ job' = [job EXCEPT ![j] = Free]
    /\ UNCHANGED <<settings, schedule, cfg, late, cs, edits>>

-----------------------------------------------------------------------------
(* The coroutine ends after its refresh: a failed settings write reverts   *)
(* its field.  d is MowerState at that point.                              *)
End(j, d) ==
    /\ data' = IF job[j].kind = "settings" /\ ~job[j].ok
               THEN [d EXCEPT ![job[j].field] = job[j].old] ELSE d
    /\ job' = [job EXCEPT ![j] = Free]

(* fetch_full_cloud_state answers: a family that is missing or unreadable  *)
(* is empty.                                                               *)
FetchState(j) ==
    /\ job[j].pc = "refresh"
    /\ \E miss \in Missing :
           job' = [job EXCEPT ![j] = [@ EXCEPT !.pc = "got", !.blob =
               [settings |-> IF "settings" \in miss THEN None ELSE settings,
                cfg      |-> IF "cfg" \in miss THEN None ELSE cfg,
                schedule |-> IF "schedule" \in miss THEN NoSchedule ELSE schedule]]]
    /\ UNCHANGED <<settings, schedule, cfg, late, cs, data, queue, edits>>

(* It fails, and _refresh_cloud_state returns.                             *)
FetchStateFails(j) ==
    /\ job[j].pc = "refresh"
    /\ End(j, data)
    /\ UNCHANGED <<settings, schedule, cfg, late, cs, queue, edits>>

(* Faulty: when nothing has changed the rest of the refresh is left out.   *)
StoreStateIfNew(j) ==
    /\ job[j].pc = "got"
    /\ cs' = job[j].blob
    /\ IF cs = job[j].blob THEN End(j, data)
       ELSE UNCHANGED data /\ job' = [job EXCEPT ![j] = [@ EXCEPT !.pc = "stored", !.blob = None]]
    /\ UNCHANGED <<settings, schedule, cfg, late, queue, edits>>

(* _refresh_cloud_state resumes: cloud_state is replaced, and the maps are *)
(* rendered with awaits.                                                   *)
StoreState(j) ==
    /\ job[j].pc = "got"
    /\ cs' = job[j].blob
    /\ job' = [job EXCEPT ![j] = [@ EXCEPT !.pc = "stored", !.blob = None]]
    /\ UNCHANGED <<settings, schedule, cfg, late, data, queue, edits>>

(* _apply_cloud_state_to_mower_state: what cloud_state now has is shown.   *)
Mirror ==
    [f \in Settings \cup Parts |->
        IF f \in Settings /\ cs.settings # None THEN cs.settings[f]
        ELSE IF f \in Parts /\ cs.cfg # None THEN cs.cfg[f]
        ELSE data[f]]

ApplyState(j) ==
    /\ job[j].pc = "stored"
    /\ End(j, Mirror)
    /\ UNCHANGED <<settings, schedule, cfg, late, cs, queue, edits>>

-----------------------------------------------------------------------------
(* The user edits in the app.                                              *)
AppEdits ==
    /\ edits < MaxEdits /\ edits' = edits + 1
    /\ \/ \E f \in Settings, v \in Edits :
              /\ settings' = [settings EXCEPT ![f] = v] /\ job' = Race
              /\ UNCHANGED <<schedule, cfg>>
       \/ \E p \in Parts, v \in Edits :
              /\ cfg' = [cfg EXCEPT ![p] = v]
              /\ UNCHANGED <<settings, schedule, job>>
       \/ \E s \in Slots, v \in Edits :
              /\ schedule' = [version |-> schedule.version + 1,
                              slots |-> [schedule.slots EXCEPT ![s] = v]]
              /\ UNCHANGED <<settings, cfg, job>>
    /\ UNCHANGED <<late, cs, data, queue>>

(* The mower pushes the key as it has it (s2p51).                          *)
Push ==
    /\ data' = [f \in Settings \cup Parts |-> IF f \in Parts THEN cfg[f] ELSE data[f]]
    /\ UNCHANGED <<settings, schedule, cfg, late, cs, queue, job, edits>>

Requests(j) == FetchFresh(j) \/ Put(j) \/ FetchState(j) \/ FetchStateFails(j)
Loop(j)     == PutSettings(j) \/ Resume(j) \/ StoreState(j) \/ ApplyState(j)
Next ==
    \/ \E j \in Jobs : \/ BeginSettings(j) \/ BeginSchedule(j) \/ BeginCfg(j)
                       \/ StartPoll(j) \/ Requests(j) \/ Loop(j)
    \/ ArriveLate \/ AppEdits \/ Push

(* Every request ends, as it has a time out, the loop resumes whoever it   *)
(* can, and the timer of the refresh fires.                                *)
Fairness ==
    /\ \A j \in Jobs : WF_vars(Requests(j)) /\ WF_vars(Loop(j))
    /\ WF_vars(\E j \in Jobs : StartPoll(j))

Spec == Init /\ [][Next]_vars /\ Fairness

-----------------------------------------------------------------------------
(* Properties.                                                             *)

(* "concurrent writes can't race against the same fresh fetch": what a     *)
(* writer of SETTINGS is about to send differs from what the cloud holds   *)
(* in its own field only, whatever other writers have done since its fetch,*)
(* unless the app or a request given up has come between, or the fetch     *)
(* failed.                                                                 *)
SettingsWriteIsFresh ==
    \A j \in Jobs :
        job[j].kind = "settings" /\ job[j].pc = "put" /\ ~job[j].raced =>
            \A f \in Settings \ {job[j].field} : job[j].blob[f] = settings[f]

(* The lock is free again and again, whatever becomes of the requests of   *)
(* its holders: no write waits for ever.                                   *)
LockIsFreed == []<>(queue = <<>>)

ShownAgrees ==
    \A f \in Settings \cup Parts :
        data[f] = IF f \in Settings THEN settings[f] ELSE cfg[f]

(* When from some time on the cloud's answers are complete, what is shown  *)
(* is in the end what the cloud holds: optimistic edits, reverts, late     *)
(* arrivals and overlapping refreshes leave nothing behind.                *)
Complete(j) ==
    FetchState(j) => job'[j].blob.settings # None /\ job'[j].blob.cfg # None
ViewConverges ==
    (<>[][\A j \in Jobs : Complete(j) /\ ~FetchStateFails(j)]_vars) => <>[]ShownAgrees

=============================================================================
