------------------------------- MODULE ActiveMap -------------------------------
(***************************************************************************)
(* Which map the mower works on.  The mower alone knows its active map;    *)
(* the coordinator's _active_map_id is what the last MAPL answer said.     *)
(* Coroutines of the event loop switch the map and start mows on it        *)
(* (_ensure_active_map, dispatch_action), fetches of MAPL overlap and      *)
(* resume in any order, and the Dreame app switches maps too.              *)
(*                                                                         *)
(* A command is what RoutedAction promises less its repetitions: it        *)
(* reaches the mower or is lost, and its sender is not told which.         *)
(***************************************************************************)
EXTENDS Integers, PythonValues

CONSTANTS
    Pending,
    Maps,           \* the maps of the mower, from 0
    Kinds,          \* the kinds of mow that are started
    Calls,          \* coroutines that may send commands at once
    Fetches,        \* coroutines that may fetch MAPL at once
    MaxSwitches,    \* map switches in the Dreame app
    MaxStarts,      \* commands the user gives
    MaxFaults       \* commands and answers that are lost, and restarts

ASSUME MapsAssumption ==
    /\ Maps \subseteq Nat /\ Maps # {} /\ None \notin Maps /\ Pending \notin Maps
    /\ Kinds \subseteq {"all", "edge", "zone", "spot", "point"}
    /\ None \notin Calls
    /\ MaxSwitches \in Nat /\ MaxStarts \in Nat /\ MaxFaults \in Nat

VARIABLES
    mowerMap,   \* the map that is active on the mower
    job,        \* the mow in progress, None when idle
    belief,     \* _active_map_id
    fetch,      \* fetch[f]: None, Pending or the answer of a MAPL fetch
    optimistic, \* _optimistic_target_map_id of the active-map select
    timers,     \* fallback timers that will clear it
    call,       \* call[c]: a command coroutine
    switches, starts, faults     \* how much of the bounds is used

commandBounds == <<switches, starts, faults>>
activeMapVars == <<mowerMap, job, belief, fetch, optimistic, timers, call, commandBounds>>

\* A call that is clean knew the active map when it was asked for, was neither
\* lost nor refused, and nobody else switched the map since.
NoCall == [at |-> "idle"]
MowCalls == [at : {"switching", "switched", "starting"}, map : Maps, kind : Kinds, clean : BOOLEAN]
SelectCalls == [at : {"selecting", "selected"}, map : Maps, kind : {"all"}, clean : BOOLEAN]
CallStates == {NoCall} \cup MowCalls \cup SelectCalls
Mows == [map : Maps, asked : Maps, kind : Kinds, clean : BOOLEAN]

ActiveMapTypeOK ==
    /\ mowerMap \in Maps
    /\ job \in Mows \cup {None}
    /\ belief \in Maps \cup {None}
    /\ fetch \in [Fetches -> Maps \cup {None, Pending}]
    /\ optimistic \in Maps \cup {None}
    /\ timers \in Nat
    /\ call \in [Calls -> CallStates]
    /\ switches \in 0 .. MaxSwitches /\ starts \in 0 .. MaxStarts /\ faults \in 0 .. MaxFaults

(***************************************************************************)
(* The mower, the app and the network.                                     *)
(***************************************************************************)

\* Nobody but c switched the map while c was at it.
Disturb(calls, c) == [d \in Calls |-> IF d = c \/ calls[d].at = "idle" THEN calls[d]
                                      ELSE [calls[d] EXCEPT !.clean = FALSE]]

\* The app switches the map; the mower only takes it while idle.
AppSwitch ==
    /\ switches < MaxSwitches
    /\ job = None
    /\ \E m \in Maps \ {mowerMap} : mowerMap' = m
    /\ call' = Disturb(call, None)
    /\ switches' = switches + 1
    /\ UNCHANGED <<job, belief, fetch, optimistic, timers, starts, faults>>

Finish ==
    /\ job # None
    /\ job' = None
    /\ UNCHANGED <<mowerMap, belief, fetch, optimistic, timers, call, commandBounds>>

\* A SET_ACTIVE_MAP arrives: a mowing mower refuses it.  The answer is not
\* looked at by anyone.
ArriveSwitch(c) ==
    /\ call[c].at \in {"switching", "selecting"}
    /\ LET me   == call[c]
           done == [me EXCEPT !.at = IF me.at = "switching" THEN "switched" ELSE "selected"]
       IN  \/ /\ job = None
              /\ mowerMap' = me.map
              /\ call' = Disturb([call EXCEPT ![c] = done], c)
              /\ UNCHANGED faults
           \/ /\ job # None
              /\ call' = [call EXCEPT ![c] = [done EXCEPT !.clean = FALSE]]
              /\ UNCHANGED <<mowerMap, faults>>
           \/ /\ faults < MaxFaults
              /\ faults' = faults + 1
              /\ call' = [call EXCEPT ![c] = [done EXCEPT !.clean = FALSE]]
              /\ UNCHANGED <<mowerMap>>
    /\ UNCHANGED <<job, belief, fetch, optimistic, timers, switches, starts>>

\* A start arrives: an idle mower mows on its active map.
ArriveStart(c) ==
    /\ call[c].at = "starting"
    /\ \/ /\ job' = IF job # None THEN job
                    ELSE [map |-> mowerMap, asked |-> call[c].map, kind |-> call[c].kind,
                          clean |-> call[c].clean]
          /\ UNCHANGED faults
       \/ /\ faults < MaxFaults
          /\ faults' = faults + 1
          /\ UNCHANGED job
    /\ call' = [call EXCEPT ![c] = NoCall]
    /\ UNCHANGED <<mowerMap, belief, fetch, optimistic, timers, switches, starts>>

(***************************************************************************)
(* The belief about the map.                                               *)
(***************************************************************************)

\* _refresh_mapl, for a ping of the mower (s1p50), for the 2-minute timer or for
\* the select: pings carry nothing, so that they may come at any time.
RefreshMapl(f) ==
    /\ fetch[f] = None
    /\ fetch' = [fetch EXCEPT ![f] = Pending]
    /\ UNCHANGED <<mowerMap, job, belief, optimistic, timers, call, commandBounds>>

\* The cloud answers with the map that is active then, or not at all.
AnswerMapl(f) ==
    /\ fetch[f] = Pending
    /\ fetch' = [fetch EXCEPT ![f] = mowerMap]
    /\ UNCHANGED <<mowerMap, job, belief, optimistic, timers, call, commandBounds>>
LoseMapl(f) ==
    /\ fetch[f] = Pending
    /\ faults < MaxFaults
    /\ faults' = faults + 1
    /\ fetch' = [fetch EXCEPT ![f] = None]
    /\ UNCHANGED <<mowerMap, job, belief, optimistic, timers, call, switches, starts>>

\* _apply_mapl: a change of the active map tells the listeners, of which the
\* select clears the target that is confirmed.
ApplyMapl(f) ==
    /\ fetch[f] \in Maps
    /\ belief' = fetch[f]
    /\ optimistic' = IF belief' # belief /\ optimistic = belief' THEN None ELSE optimistic
    /\ fetch' = [fetch EXCEPT ![f] = None]
    /\ UNCHANGED <<mowerMap, job, timers, call, commandBounds>>

(***************************************************************************)
(* Commands.                                                               *)
(***************************************************************************)

CallFor(m, kind, at) == [at |-> at, map |-> m, kind |-> kind, clean |-> belief = mowerMap]

\* Faulty: the comparison with the active map the wrong way round.
EnsureActiveMapIfActive(m) == IF belief = None \/ belief # m THEN "starting" ELSE "switching"

\* _ensure_active_map sends SET_ACTIVE_MAP unless the map is believed active
\* or nothing is believed yet; the start follows.
EnsureActiveMap(m) == IF belief = None \/ belief = m THEN "starting" ELSE "switching"

\* The mowing-mode picker of map m starts a mow there.
StartMowing(c, m, kind) ==
    /\ call[c].at = "idle"
    /\ starts < MaxStarts
    /\ call' = [call EXCEPT ![c] = CallFor(m, kind, EnsureActiveMap(m))]
    /\ starts' = starts + 1
    /\ UNCHANGED <<mowerMap, job, belief, fetch, optimistic, timers, switches, faults>>

\* The switch is answered, or given up: the start is sent all the same.
AfterSwitch(c) ==
    /\ call[c].at = "switched"
    /\ call' = [call EXCEPT ![c].at = "starting"]
    /\ UNCHANGED <<mowerMap, job, belief, fetch, optimistic, timers, commandBounds>>

\* The active-map select shows its target at once and sends SET_ACTIVE_MAP.  It
\* is refused while the snapshot shows a mow, but the snapshot may lag behind.
\* A target that is believed active is only fetched again (RefreshMapl).
SelectMap(c, m) ==
    /\ call[c].at = "idle"
    /\ starts < MaxStarts
    /\ m # belief
    /\ optimistic' = m
    /\ call' = [call EXCEPT ![c] = CallFor(m, "all", "selecting")]
    /\ starts' = starts + 1
    /\ UNCHANGED <<mowerMap, job, belief, fetch, timers, switches, faults>>

\* Faulty: no timer for a target that the mower never confirms.
AfterSelectWaits(c) ==
    /\ call[c].at = "selected"
    /\ call' = [call EXCEPT ![c] = NoCall]
    /\ UNCHANGED <<mowerMap, job, belief, fetch, optimistic, timers, commandBounds>>

\* When the command has returned, a timer is set that clears the target.
AfterSelect(c) ==
    /\ call[c].at = "selected"
    /\ call' = [call EXCEPT ![c] = NoCall]
    /\ timers' = timers + 1
    /\ UNCHANGED <<mowerMap, job, belief, fetch, optimistic, commandBounds>>

\* Ten seconds later: any timer clears any target.
ClearOptimistic ==
    /\ timers > 0
    /\ timers' = timers - 1
    /\ optimistic' = None
    /\ UNCHANGED <<mowerMap, job, belief, fetch, call, commandBounds>>

ActiveMapInit ==
    /\ mowerMap \in Maps
    /\ job = None
    /\ belief = None
    /\ fetch = [f \in Fetches |-> None]
    /\ optimistic = None
    /\ timers = 0
    /\ call = [c \in Calls |-> NoCall]
    /\ switches = 0 /\ starts = 0 /\ faults = 0

\* Home Assistant restarts; the mower works on.
RestartAll ==
    /\ faults < MaxFaults
    /\ faults' = faults + 1
    /\ belief' = None
    /\ fetch' = [f \in Fetches |-> None]
    /\ optimistic' = None
    /\ timers' = 0
    /\ call' = [c \in Calls |-> NoCall]
    /\ UNCHANGED <<mowerMap, job, switches, starts>>

FetchStep(f) == RefreshMapl(f) \/ AnswerMapl(f) \/ ApplyMapl(f)
CallStep(c) == ArriveSwitch(c) \/ ArriveStart(c) \/ AfterSwitch(c) \/ AfterSelect(c)

Running ==
    \/ \E f \in Fetches : FetchStep(f) \/ LoseMapl(f)
    \/ \E c \in Calls : CallStep(c)
    \/ \E c \in Calls, m \in Maps : SelectMap(c, m) \/ \E k \in Kinds : StartMowing(c, m, k)
    \/ AppSwitch \/ Finish \/ ClearOptimistic

ActiveMapNext == Running \/ RestartAll

ActiveMapSpec == ActiveMapInit /\ [][ActiveMapNext]_activeMapVars

\* The 2-minute timer keeps fetching, answers come or are given up, coroutines
\* run on, and timers fire.
ActiveMapFairness ==
    /\ \A f \in Fetches : WF_activeMapVars(FetchStep(f))
    /\ \A c \in Calls : WF_activeMapVars(CallStep(c))
    /\ WF_activeMapVars(ClearOptimistic)

(***************************************************************************)
(* Properties.                                                             *)
(***************************************************************************)

\* A mow started by the picker of a map runs on that map, if the active map was
\* known when it was asked for, the switch was not lost or refused, and nobody
\* else switched in between.
MowsOnGivenMap == job # None /\ job.clean => job.map = job.asked

\* What the active-map select shows: its target while there is one.
ShownMap == IF optimistic # None THEN optimistic ELSE belief

\* Whatever is lost, refused, overtaken or selected twice, the select shows in
\* the end the map that is active on the mower.
ShownMapConverges == <>[](ShownMap = mowerMap)
=============================================================================
