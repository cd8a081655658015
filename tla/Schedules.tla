------------------------------- MODULE Schedules -------------------------------
(***************************************************************************)
(* The mowing schedules: the bytes of their records, the chunks in which   *)
(* the cloud keeps their text, the service that replaces the plans of one  *)
(* slot, and the card that edits one plan.                                 *)
(*                                                                         *)
(* A blob is the sequence of its records, each the sequence of its bytes,  *)
(* and a mask of weekdays the set of them.  A write is one step: what may  *)
(* happen between its read and its end is in Writes.                       *)
(***************************************************************************)
EXTENDS Integers, Sequences, SequencesExt, FiniteSetsExt, PythonValues

CONSTANTS AppTexts,      \* schedules as the app writes them
          CardPlans,     \* what is entered in the card
          Letters,       \* what names are written with
          Amp, Escaped,  \* the letters "&", and "&amp;" that stands for it
          Calls,         \* what an automation asks the service for
          ChunkRecords,  \* the records that fill a chunk of 1024 characters
          MaxSaves       \* bound: writes of the app, the card and automations

Byte8 == 0 .. 255
\* The plans that SCHEMA_SET_SCHEDULE_PLANS and the card let through, and the
\* entries of a schedule's text.
Entered == [time : 0 .. 1439, days : (SUBSET (1 .. 7)) \ {{}}, action : 0 .. 2,
            zone : Int \cup {None}, extra : Seq(Byte8)]
Entries == [id : Int \cup {None}, mode : Int \cup {None}, name : Seq(Letters), blob : Seq(Seq(Byte8))]
Texts == [v : Int, entries : Seq(Entries)]

VARIABLES wire,      \* the chunks in the cloud, by their numbers
          schedule,  \* cloud_state.schedule, which the card shows
          modal,     \* the slot and plan the card edits, and that plan, or None
          saves

schedules == <<wire, schedule, modal, saves>>

(***************************************************************************)
(* schedule_decode.py.                                                     *)
(***************************************************************************)
ActionOf(rec) == rec[3] % 16
DayOf(rec) == rec[3] \div 16
TimeOf(rec) == rec[4] + 256 * (rec[5] % 16)

ZoneOf(rec) == IF ActionOf(rec) = 0 THEN None ELSE rec[7]
ExtraOf(rec) == IF ActionOf(rec) = 2 THEN <<rec[8]>> ELSE <<>>

\* _decode_one_record accepts it.
Readable(rec) ==
    /\ Len(rec) \in 7 .. 9 /\ rec[2] = Len(rec) /\ rec[1] = 170 /\ rec[Len(rec)] = 237
    /\ DayOf(rec) \in 1 .. 7 /\ ActionOf(rec) = Len(rec) - 7 /\ TimeOf(rec) \in 0 .. 1439

\* Faulty: as if the zone did not tell plans apart.
KeyOfTime(rec) == <<ActionOf(rec), TimeOf(rec)>>

\* Records that differ in nothing else are the days of one plan.
PlanKey(rec) == <<ActionOf(rec), TimeOf(rec), ZoneOf(rec), ExtraOf(rec)>>

\* The plan that a record begins.
PlanOn(days, rec) ==
    [time |-> TimeOf(rec), days |-> days, action |-> ActionOf(rec),
     zone |-> ZoneOf(rec), extra |-> ExtraOf(rec)]

\* _decode_blob: the plans by their first records; none if any record is malformed.
PlansOf(records) ==
    LET Same(i) == {k \in DOMAIN records : PlanKey(records[k]) = PlanKey(records[i])}
        firsts == {i \in DOMAIN records : \A k \in Same(i) : i <= k}
        Plan(i) == PlanOn({DayOf(records[k]) : k \in Same(i)}, records[i])
    IN  IF \E i \in DOMAIN records : ~Readable(records[i]) THEN <<>>
        ELSE [n \in 1 .. Cardinality(firsts) |-> Plan(NthOf(firsts, n))]

\* html.unescape, of the characters a name has.
Unescaped(name) == [i \in DOMAIN name |-> IF name[i] = Escaped THEN Amp ELSE name[i]]

\* parse_schedule_batch: an entry whose id is no number is skipped.
NoSchedule == [version |-> 0, slots |-> <<>>]
ParseSchedule(text) ==
    LET kept == Filtered(text.entries, {entry \in ToSet(text.entries) : entry.id # None})
        Slot(entry) == [id |-> entry.id, mode |-> Or(entry.mode, 0),
                        name |-> Unescaped(entry.name), plans |-> PlansOf(entry.blob)]
    IN  [version |-> text.v, slots |-> [i \in DOMAIN kept |-> Slot(kept[i])]]

(***************************************************************************)
(* schedule_encode.py.                                                     *)
(***************************************************************************)

\* encode_schedule_blob raises; times and days are in range by the service's schema.
Unwritable(plan) ==
    \/ plan.action # 0 /\ plan.zone = None
    \/ plan.action = 2 /\ Len(plan.extra) # 1

Record(day, plan) ==
    LET rest == CASE plan.action = 0 -> <<237>>
                  [] plan.action = 1 -> <<plan.zone % 256, 237>>
                  [] plan.action = 2 -> <<plan.zone % 256, plan.extra[1], 237>>
    IN  <<170, 7 + plan.action, 16 * day + plan.action, plan.time % 256,
          16 * plan.action + plan.time \div 256, 0>> \o rest

\* By day and time, and by the order of the plans: Python's sort is stable.
Earlier(plans, a, b) ==
    LET s == plans[a[2]].time
        t == plans[b[2]].time
    IN  a[1] < b[1] \/ (a[1] = b[1] /\ (s < t \/ (s = t /\ a[2] < b[2])))

\* A record for each day of each plan, in that order.
BlobOf(plans) ==
    LET mows == {mow \in (1 .. 7) \X DOMAIN plans : mow[1] \in plans[mow[2]].days}
        place == [mow \in mows |-> Cardinality({a \in mows : Earlier(plans, a, mow)}) + 1]
        At(n) == CHOOSE mow \in mows : place[mow] = n
    IN  [n \in 1 .. Cardinality(mows) |-> Record(At(n)[1], plans[At(n)[2]])]

\* build_schedule_set_value: a slot keeps its mode, and its name is escaped again.
TextOf(slots, version) ==
    LET Name(name) == [i \in DOMAIN name |-> IF name[i] = Amp THEN Escaped ELSE name[i]]
    IN  [v |-> version,
         entries |-> [i \in DOMAIN slots |-> [id |-> slots[i].id, mode |-> slots[i].mode,
                          name |-> Name(slots[i].name), blob |-> BlobOf(slots[i].plans)]]]

\* The app numbers its slots, escapes their names and sets no bit of a record that
\* the decoder does not read.
Lawful(text) ==
    \A i \in DOMAIN text.entries :
        LET entry == text.entries[i]
        IN  /\ \A k \in DOMAIN text.entries : entry.id # None /\ entry.id = text.entries[k].id => i = k
            /\ Amp \notin ToSet(entry.name)
            /\ \A rec \in ToSet(entry.blob) : Readable(rec) => rec = Record(DayOf(rec), PlanOn({}, rec))

ASSUME SchedulesAssumption ==
    /\ None \notin Int /\ {Amp, Escaped} \subseteq Letters /\ Amp # Escaped
    /\ ChunkRecords \in Nat \ {0} /\ MaxSaves \in Nat
    /\ AppTexts \subseteq Texts /\ \A text \in AppTexts : Lawful(text)
    /\ CardPlans \subseteq Entered
    /\ \A call \in Calls : call.id \in Int /\ call.plans \in Seq(Entered)

(***************************************************************************)
(* write_chunked_key and join_family_chunks.                               *)
(***************************************************************************)
ChunksOf(text) ==
    LET entries == text.entries
        records == SumFunctionOnSet([i \in DOMAIN entries |-> Len(entries[i].blob)], DOMAIN entries)
    IN  Max({1, (records + ChunkRecords - 1) \div ChunkRecords})

Cut(text) == [n \in 1 .. ChunksOf(text) |-> [text |-> text, part |-> n]]

\* The keys of a write replace those in the cloud; the others stay.
Overwritten(text) ==
    Cut(text) \o SubSeq(wire, ChunksOf(text) + 1, Len(wire))

\* The chunks in their order are one text, or no JSON.
Whole(chunks) == chunks # <<>> /\ chunks = Cut(chunks[1].text)
ReadSchedule(chunks) == IF Whole(chunks) THEN ParseSchedule(chunks[1].text) ELSE NoSchedule

(***************************************************************************)
(* The service.                                                            *)
(***************************************************************************)

\* Every slot of that id, or a new slot after the others.
Replaced(id, plans) ==
    LET slots == schedule.slots
        New(slot) == IF slot.id = id THEN [slot EXCEPT !.plans = plans] ELSE slot
        added == [id |-> id, name |-> <<>>, plans |-> plans, mode |-> IF plans = <<>> THEN 0 ELSE 1]
    IN  IF \E i \in DOMAIN slots : slots[i].id = id THEN [i \in DOMAIN slots |-> New(slots[i])]
        ELSE Append(slots, added)

\* The refresh that follows a write may fail, also when the write did not.
SetSchedulePlans(id, plans) ==
    IF \E i \in DOMAIN plans : Unwritable(plans[i]) THEN UNCHANGED <<wire, schedule>>
    ELSE /\ \/ wire' = Overwritten(TextOf(Replaced(id, plans), schedule.version + 1))
            \/ UNCHANGED wire
         /\ schedule' \in {schedule, ReadSchedule(wire')}

Saves == saves < MaxSaves /\ saves' = saves + 1

CallService(id, plans) == Saves /\ SetSchedulePlans(id, plans) /\ UNCHANGED modal

(***************************************************************************)
(* The card, which is told of neither the extra bytes nor the write's end. *)
(***************************************************************************)
PlansShown(s) ==
    LET plans == schedule.slots[s].plans
    IN  [i \in DOMAIN plans |-> [plans[i] EXCEPT !.extra = <<>>]]

\* The modal covers the card's other buttons.
OpenAddModal(s) ==
    /\ modal = None /\ modal' = [slot |-> s, at |-> None, plan |-> None]
    /\ UNCHANGED <<wire, schedule, saves>>

OpenEditModal(s, i) ==
    /\ modal = None /\ modal' = [slot |-> s, at |-> i, plan |-> PlansShown(s)[i]]
    /\ UNCHANGED <<wire, schedule, saves>>

CloseModal == modal # None /\ modal' = None /\ UNCHANGED <<wire, schedule, saves>>

\* Two plans on one day, less than PLAN_DURATION_MIN apart.
Overlap(p, q) == p.days \cap q.days # {} /\ p.time < q.time + 120 /\ q.time < p.time + 120

\* The save button: the plan takes the place of the one that is at that index now.
\* What was refused keeps the modal; a slot that is gone raises.
SavePlan(plan) ==
    /\ modal # None /\ modal.slot \in DOMAIN schedule.slots
    /\ LET plans == PlansShown(modal.slot)
       IN  /\ \A i \in DOMAIN plans : i = modal.at \/ ~Overlap(plan, plans[i])
           /\ plan.action # 0 => plan.zone # None
           /\ Saves /\ modal' = None
           /\ SetSchedulePlans(schedule.slots[modal.slot].id,
                IF modal.at = None THEN Append(plans, plan)
                ELSE [i \in DOMAIN plans |-> IF i = modal.at THEN plan ELSE plans[i]])

DeletePlan(s, i) ==
    /\ modal = None /\ Saves /\ UNCHANGED modal
    /\ SetSchedulePlans(schedule.slots[s].id, RemoveAt(PlansShown(s), i))

(***************************************************************************)
(* The rest of the world.                                                  *)
(***************************************************************************)
AppWrites(text) == Saves /\ wire' = Cut(text) /\ UNCHANGED <<schedule, modal>>

RefreshSchedule == schedule' = ReadSchedule(wire) /\ UNCHANGED <<wire, modal, saves>>

\* After a first refresh that found no schedule.
SchedulesInit == wire = <<>> /\ schedule = NoSchedule /\ modal = None /\ saves = 0

SchedulesNext ==
    \/ \E text \in AppTexts : AppWrites(text)
    \/ RefreshSchedule \/ CloseModal
    \/ \E s \in DOMAIN schedule.slots \cup {1} : OpenAddModal(s)
    \/ \E s \in DOMAIN schedule.slots :
          \E i \in DOMAIN schedule.slots[s].plans : OpenEditModal(s, i) \/ DeletePlan(s, i)
    \/ \E plan \in CardPlans : SavePlan(plan)
    \/ \E call \in Calls : CallService(call.id, call.plans)

SchedulesSpec == SchedulesInit /\ [][SchedulesNext]_schedules

(***************************************************************************)
(* Properties.                                                             *)
(***************************************************************************)

\* What the mower does on account of a record.
Mow(rec) == [day |-> DayOf(rec), time |-> TimeOf(rec), action |-> ActionOf(rec),
             zone |-> ZoneOf(rec)]
MowsOf(plan) == [day : plan.days, time : {plan.time}, action : {plan.action},
                 zone : {IF plan.action = 0 THEN None ELSE plan.zone}]

\* The view is what the cloud has, all of which can be read; an entry without a
\* mode would get mode 0 when it is written again.
Fresh == Whole(wire) /\ schedule = ReadSchedule(wire)
Legible == \A i \in DOMAIN wire[1].text.entries :
              LET entry == wire[1].text.entries[i]
              IN  entry.id # None /\ entry.mode # None /\ \A n \in DOMAIN entry.blob : Readable(entry.blob[n])

\* The plan that is edited is at its index still.
ModalIsTrue ==
    LET plans == PlansShown(modal.slot)
    IN  modal.at \in DOMAIN plans /\ plans[modal.at] = modal.plan

\* In slot s the mows of "gone" are replaced by those of "come", and what the cloud
\* has is that text, unless it takes fewer chunks.
Lands(s, gone, come) ==
    LET old == wire[1].text
        new == wire'[1].text
        MowsIn(entry) == {Mow(rec) : rec \in ToSet(entry.blob)}
    IN  /\ ChunksOf(new) >= Len(wire) => wire' = Cut(new)
        /\ new.v = old.v + 1 /\ Len(new.entries) = Len(old.entries)
        /\ MowsIn(new.entries[s]) = (MowsIn(old.entries[s]) \ gone) \cup come
        /\ \A i \in DOMAIN old.entries :
              LET a == old.entries[i]
                  b == new.entries[i]
              IN  /\ a.id = b.id /\ a.mode = b.mode /\ a.name = b.name
                  /\ i # s => ToSet(a.blob) = ToSet(b.blob)

\* An edit of one plan in the card, to one whose zone fits the record's byte, changes
\* the mows of that plan and no other, through the decoder's grouping of records by
\* plan, the card's copy of them, the service and the encoder: the other plans of the
\* slot and the records, modes and names of the other slots are what the app wrote.
PlanEditsLand ==
    [][Fresh /\ Legible /\ wire' # wire =>
        /\ \A plan \in CardPlans : plan.zone \in Byte8 \cup {None} /\ SavePlan(plan) =>
              IF modal.at = None THEN Lands(modal.slot, {}, MowsOf(plan))
              ELSE ModalIsTrue => Lands(modal.slot, MowsOf(modal.plan), MowsOf(plan))
        /\ \A s \in DOMAIN schedule.slots : \A i \in DOMAIN schedule.slots[s].plans :
              DeletePlan(s, i) => Lands(s, MowsOf(PlansShown(s)[i]), {})]_schedules
=============================================================================
