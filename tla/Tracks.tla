-------------------------------- MODULE Tracks --------------------------------
(***************************************************************************)
(* What a session records: the points of its track with their roles, and   *)
(* its samples, through the in_progress file, restarts and the merge with  *)
(* Home Assistant's recorder; and what the session card derives of them:   *)
(* legs, distances and how the time was spent.                             *)
(*                                                                         *)
(* A step of time is the half minute that separates two strokes            *)
(* (PEN_UP_GAP_S).  The lawn is a line, in metres.  The streams of samples *)
(* are alike; the error codes stand for those that the recorder holds, the *)
(* states (s2.1) for those of which it has nothing.  When a session begins *)
(* and ends is in SessionLifecycle.                                        *)
(***************************************************************************)
EXTENDS Integers, Sequences, PythonValues, SequencesExt, FiniteSetsExt

CONSTANTS Places,      \* positions of the mower
          MaxTime,     \* bound: half minutes
          MaxPushes    \* bound: points, samples and restarts

VARIABLES now,
          live,      \* LiveMapState, or None
          disk,      \* in_progress.json, or None
          told,      \* the samples that were pushed in the session
          entity,    \* the states of sensor.error_code that are recorded
          raw,       \* the session as it is archived, or None
          pushes

tracks == <<now, live, disk, told, entity, raw, pushes>>

Streams == {"state_samples", "error_samples"}
NoSamples == [s \in Streams |-> <<>>]
RAIN == 56
MOWING == 1
CHARGING == 6
Roles == {"mowing", "traversal"}

TrackPoints == [t : Nat, x : Int, area : Nat, role : Roles]
LiveMaps == [start : Nat, track : Seq(TrackPoints), samples : [Streams -> Seq(Nat \X Nat)]]

ASSUME TracksAssumption ==
    /\ Places \subseteq Int
    /\ MaxTime \in Nat /\ MaxPushes \in Nat
    /\ None \notin Nat /\ None \notin LiveMaps

(***************************************************************************)
(* LiveMapState.                                                           *)
(***************************************************************************)

LastArea(track) == IF track = <<>> THEN 0 ELSE Last(track).area

\* A mower that stands still adds no point.
AppendPoint(track, x, area) ==
    IF track # <<>> /\ Last(track).x = x /\ Last(track).t = now THEN track
    ELSE Append(track, [t |-> now, x |-> x, area |-> area,
                        role |-> IF area > LastArea(track) THEN "mowing" ELSE "traversal"])

\* Samples that repeat the last value are dropped.
AppendTelemetrySample(samples, v) ==
    IF samples # <<>> /\ Last(samples)[2] = v THEN samples ELSE Append(samples, <<now, v>>)

Pushed == pushes < MaxPushes /\ pushes' = pushes + 1

Point(x, mown) ==
    /\ live # None /\ Pushed
    /\ live' = [live EXCEPT !.track = AppendPoint(live.track, x, LastArea(live.track) + mown)]
    /\ UNCHANGED <<now, disk, told, entity, raw>>

\* One stream has at most one push in a half minute.
Due(s) == told[s] # <<>> => Last(told[s])[1] < now

Sample(s, v) ==
    /\ Due(s) /\ Pushed
    /\ entity' = IF s = "error_samples" /\ Last(entity)[2] # v THEN Append(entity, <<now, v>>) ELSE entity
    /\ IF live = None THEN UNCHANGED <<live, told>>
       ELSE /\ live' = [live EXCEPT !.samples[s] = AppendTelemetrySample(live.samples[s], v)]
            /\ told' = [told EXCEPT ![s] = Append(told[s], <<now, v>>)]
    /\ UNCHANGED <<now, disk, raw>>

Tick ==
    /\ now < MaxTime
    /\ now' = now + 1
    /\ UNCHANGED <<live, disk, told, entity, raw, pushes>>

Begin ==
    /\ live = None /\ raw = None
    /\ live' = [start |-> now, track |-> <<>>, samples |-> NoSamples]
    /\ told' = [NoSamples EXCEPT !["error_samples"] =
                    IF Last(entity)[2] = None THEN <<>> ELSE <<<<now, Last(entity)[2]>>>>]
    /\ UNCHANGED <<now, disk, entity, raw, pushes>>

\* _persist_in_progress, and the restore, which runs before MQTT connects, so
\* that the live map is empty and merge_in_progress_payloads takes the file.
Persist ==
    /\ live # None
    /\ disk' = live
    /\ UNCHANGED <<now, live, told, entity, raw, pushes>>

Reboot ==
    /\ now < MaxTime /\ Pushed
    /\ now' = now + 1
    /\ live' = disk
    /\ entity' = Append(entity, <<now', None>>)
    /\ UNCHANGED <<disk, told, raw>>

(***************************************************************************)
(* Finalize: the samples are merged with the recorder's, the roles are     *)
(* smoothed.                                                               *)
(***************************************************************************)

\* Sorted by time, those of equal time in the order they have.
ByTime(samples) ==
    LET Before(i, j) == samples[i][1] < samples[j][1] \/ (samples[i][1] = samples[j][1] /\ i < j)
        at(i) == Cardinality({j \in DOMAIN samples : Before(j, i)}) + 1
    IN  [k \in DOMAIN samples |-> samples[CHOOSE i \in DOMAIN samples : at(i) = k]]

MergeSamples(existing, additions) ==
    ByTime(existing \o Filtered(additions, ToSet(additions) \ ToSet(existing)))

\* The state at the start of the window, and those that follow in it; states
\* that are no number are skipped (_read_error_history_sync).
ReadHistory(start, end) ==
    LET before == {i \in DOMAIN entity : entity[i][1] <= start}
        first  == IF before = {} THEN <<>> ELSE <<<<start, entity[Max(before)][2]>>>>
        states == first \o Filtered(entity, {s \in ToSet(entity) : start < s[1] /\ s[1] <= end})
    IN  Filtered(states, {s \in ToSet(states) : s[2] # None})

\* A point whose role neither neighbour has takes theirs.
SmoothOnce(roles) ==
    [i \in DOMAIN roles |->
        IF i \in 2 .. Len(roles) - 1 /\ roles[i - 1] = roles[i + 1] THEN roles[i - 1] ELSE roles[i]]

ClassifyTrack(track) ==
    LET roles == SmoothOnce(SmoothOnce(SmoothOnce([i \in DOMAIN track |-> track[i].role])))
    IN  [i \in DOMAIN track |-> [track[i] EXCEPT !.role = roles[i]]]

Finish ==
    /\ live # None
    /\ raw' = [start |-> live.start, end |-> now, track |-> ClassifyTrack(live.track),
               samples |-> [live.samples EXCEPT !["error_samples"] =
                                MergeSamples(@, ReadHistory(live.start, now))]]
    /\ live' = None /\ disk' = None
    /\ UNCHANGED <<now, told, entity, pushes>>

TracksInit ==
    /\ now = 1 /\ live = None /\ disk = None /\ told = NoSamples /\ raw = None /\ pushes = 0
    /\ entity \in {<<<<0, v>>>> : v \in {None, 0, RAIN}}

Session == Begin \/ Tick \/ Persist \/ Reboot \/ Finish
Points == \E x \in Places, mown \in {0, 1} : Point(x, mown)
Samples == \/ \E v \in {0, RAIN} : Sample("error_samples", v)
           \/ \E v \in {MOWING, 2, CHARGING} : Sample("state_samples", v)

TracksNext == Session \/ Points \/ Samples

TracksSpec == TracksInit /\ [][TracksNext]_tracks

(***************************************************************************)
(* session_card.                                                           *)
(***************************************************************************)

\* A rain delay: from a code 56 that follows none to the next other code.
BuildRainIntervals(errors, start, end) ==
    LET in == {i \in DOMAIN errors : start <= errors[i][1] /\ errors[i][1] <= end}
        rain == {i \in in : errors[i][2] = RAIN}
        opens == {i \in rain : i - 1 \notin rain}
        Close(i) == Min({errors[j][1] : j \in {k \in in \ rain : k > i}} \cup {end})
    IN  {<<errors[i][1], Close(i)>> : i \in opens}

\* The state holds from each sample to the next; before the first it is -1.
BuildStateIntervals(states, start, end) ==
    LET seeds  == {i \in DOMAIN states : states[i][1] <= start}
        within == {i \in DOMAIN states : start < states[i][1] /\ states[i][1] <= end}
        Until(i) == Min({states[j][1] : j \in {k \in within : k > i}} \cup {end})
    IN  {<<start, Until(0), IF seeds = {} THEN -1 ELSE states[Max(seeds)][2]>>}
        \cup {<<states[i][1], Until(i), states[i][2]>> : i \in within}

Length(interval) == interval[2] - interval[1]
IntervalTotal(intervals) == SumFunctionOnSet([r \in intervals |-> Length(r)], intervals)

\* The delays that a state's interval meets, and how much of it each takes.
Met(s, rain) == {r \in rain : r[1] < s[2] /\ s[1] < r[2]}
Clips(s, rain) == [r \in rain |-> Min({s[2], r[2]}) - Max({s[1], r[1]})]

\* Faulty: a delay that reaches into the interval is taken out whole.
SecondsOutsideWhole(states, code, rain) ==
    LET kept == {s \in states : s[3] = code}
        left == [s \in kept |-> Max({0, Length(s) - IntervalTotal(Met(s, rain))})]
    IN  SumFunctionOnSet(left, kept)

\* The time in a state, without what falls into a rain delay.
SecondsOutside(states, code, rain) ==
    LET kept == {s \in states : s[3] = code}
        left == [s \in kept |->
                    Max({0, Length(s) - SumFunctionOnSet(Clips(s, rain), Met(s, rain))})]
    IN  SumFunctionOnSet(left, kept)

\* Minutes of mowing, charging, rain delay and the rest; no states, no minutes.
ComputeTimeBreakdown(samples, start, end) ==
    LET rain   == BuildRainIntervals(samples["error_samples"], start, end)
        states == BuildStateIntervals(samples["state_samples"], start, end)
        delay  == IntervalTotal(rain) \div 2
        mowing == SecondsOutside(states, MOWING, rain) \div 2
        charge == SecondsOutside(states, CHARGING, rain) \div 2
        rest   == (end - start) \div 2 - mowing - charge - delay
    IN  IF samples["state_samples"] = <<>> THEN [rain |-> delay]
        ELSE [rain |-> delay, mowing |-> mowing, charging |-> charge,
              other |-> Max({0, rest})]

PenUp(track, i) == track[i].t - track[i - 1].t > 1
Distance(track, i) == Max({track[i].x - track[i - 1].x, track[i - 1].x - track[i].x})

\* Faulty: a role that changes over a gap joins the legs across it.
LegsByRole(track) ==
    LET Flip(i)  == track[i].role # track[i - 1].role
        starts == {i \in DOMAIN track : i = 1 \/ PenUp(track, i) \/ Flip(i)}
        End(i) == Min({j - 1 : j \in {k \in starts : k > i}} \cup {Len(track)})
        first(i) == IF i > 1 /\ Flip(i) THEN i - 1 ELSE i
    IN  {[role |-> track[i].role, from |-> first(i), to |-> End(i)] : i \in starts}

\* The legs, as the first and the last of their points.  Legs of two roles
\* touch, those on either side of a gap do not; one point is no leg.
DeriveRenderLegs(track) ==
    LET Flip(i)  == track[i].role # track[i - 1].role
        starts == {i \in DOMAIN track : i = 1 \/ PenUp(track, i) \/ Flip(i)}
        End(i) == Min({j - 1 : j \in {k \in starts : k > i}} \cup {Len(track)})
        first(i) == IF i > 1 /\ ~PenUp(track, i) THEN i - 1 ELSE i
        legs == {[role |-> track[i].role, from |-> first(i), to |-> End(i)] : i \in starts}
    IN  {leg \in legs : leg.to > leg.from}

\* The way that ends in a point of each role; a gap is no way.
Way(track) == [i \in 2 .. Len(track) |-> Distance(track, i)]
ComputeTrackDistances(track) ==
    [role \in Roles |->
        SumFunctionOnSet(Way(track),
            {i \in 2 .. Len(track) : ~PenUp(track, i) /\ track[i].role = role})]

(***************************************************************************)
(* Properties.                                                             *)
(***************************************************************************)

\* The value of a stream in the half minute that begins at t.
ValueAt(samples, t) ==
    LET seen == {i \in DOMAIN samples : samples[i][1] <= t}
    IN  IF seen = {} THEN -1 ELSE samples[Max(seen)][2]

\* The minutes that the card shows are those that were pushed: rain delays also
\* when Home Assistant went down in or after one and the file had not seen it,
\* mowing and charging as the samples have them, no minute twice, and all of
\* the session ("mutually exclusive and sum to elapsed minutes exactly",
\* session_card.py).
TimesAreTold ==
    raw # None =>
        LET times == ComputeTimeBreakdown(raw.samples, raw.start, raw.end)
            all   == raw.start .. raw.end - 1
            rain  == {t \in all : ValueAt(told["error_samples"], t) = RAIN}
            In(code) == {t \in all \ rain : ValueAt(raw.samples["state_samples"], t) = code}
        IN  /\ times.rain = Cardinality(rain) \div 2
            /\ raw.samples["state_samples"] # <<>> =>
                /\ times.mowing = Cardinality(In(MOWING)) \div 2
                /\ times.charging = Cardinality(In(CHARGING)) \div 2
                /\ times.rain + times.mowing + times.charging + times.other
                        = (raw.end - raw.start) \div 2

\* The legs that are drawn are as long as the distances that are shown, for
\* each role, over gaps, restarts and the smoothing (derive_render_legs,
\* compute_track_distances); and until the smoothing a point is for mowing just
\* when the area grew since the point before, restarts or not.
LegsAddUp ==
    /\ raw # None =>
        LET legs == DeriveRenderLegs(raw.track)
            long == [leg \in legs |-> SumFunctionOnSet(Way(raw.track), leg.from + 1 .. leg.to)]
        IN  \A role \in Roles :
                SumFunctionOnSet(long, {leg \in legs : leg.role = role})
                    = ComputeTrackDistances(raw.track)[role]
    /\ live # None =>
        \A i \in DOMAIN live.track :
            live.track[i].role = "mowing" <=>
                live.track[i].area > (IF i = 1 THEN 0 ELSE live.track[i - 1].area)
=============================================================================
