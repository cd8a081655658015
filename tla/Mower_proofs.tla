----------------------------- MODULE Mower_proofs -----------------------------
(***************************************************************************)
(* Proofs about what connects the coordinator and the mower: the MQTT      *)
(* connection, the map that the mower works on, its settings and those of  *)
(* its maps, and what its frames tell.                                     *)
(***************************************************************************)
EXTENDS MqttLink, MapCommands, Controls, MapSettings, Frames, CloudMaps, Data_proofs

-----------------------------------------------------------------------------
(***************************************************************************)
(* The connection, for every number of set-ups, drops and keys.            *)
(* NoSubscriptionLost is not inductive: a connection that is up has to     *)
(* have its flag raised, so that a subscribe() that comes after            *)
(* _on_connect sees it.  LinkInv adds that, and what the other two         *)
(* invariants need of the set-up's progress.                               *)
(***************************************************************************)
LinkInv ==
    /\ TypeOK
    /\ NoSubscriptionLost
    /\ RestoredBeforePushes
    /\ UnloadedIsOff
    /\ \A c \in Coordinators :
          /\ conn[c] \in {"resubscribing", "up"} => connected[c]
          /\ callback[c] => c \in restored
    /\ entry = "connect" => cur \in restored
    /\ entry = "retry" => cur \in failed

\* A fresh run of Home Assistant has no connection at all.
LEMMA InitLink == Init => LinkInv
  BY BoundsAssumption
     DEF Init, LinkInv, TypeOK, NoSubscriptionLost, RestoredBeforePushes, UnloadedIsOff,
         Coordinators, AccountKeys, Entries, Connections

\* Set-up, unload and the key leave the connections of other coordinators alone.
LEMMA EntryStep ==
    ASSUME LinkInv,
           SetupEntry \/ InitCloud \/ RestoreInProgress \/ FirstRefresh \/ UnloadEntry \/ Rotate
    PROVE  LinkInv'
<1> USE BoundsAssumption
        DEF LinkInv, TypeOK, NoSubscriptionLost, RestoredBeforePushes, UnloadedIsOff,
            Coordinators, AccountKeys, Entries, Connections, link
<1>1. CASE SetupEntry        BY <1>1 DEF SetupEntry
<1>2. CASE InitCloud         BY <1>2 DEF InitCloud
<1>3. CASE RestoreInProgress BY <1>3 DEF RestoreInProgress
<1>4. CASE FirstRefresh      BY <1>4 DEF FirstRefresh
<1>5. CASE UnloadEntry       BY <1>5 DEF UnloadEntry
<1>6. CASE Rotate            BY <1>6 DEF Rotate
<1> QED BY <1>1, <1>2, <1>3, <1>4, <1>5, <1>6

\* _init_mqtt and disconnect() change the client of the entry's coordinator.
LEMMA ClientStep ==
    ASSUME LinkInv, Connect \/ Subscribe \/ Disconnect
    PROVE  LinkInv'
<1> USE BoundsAssumption
        DEF LinkInv, TypeOK, NoSubscriptionLost, RestoredBeforePushes, UnloadedIsOff,
            Coordinators, AccountKeys, Entries, Connections
<1>1. CASE Connect
  <2>1. TypeOK'
    <3>1. CASE UNCHANGED <<client, conn>>           BY <1>1, <3>1 DEF Connect
    <3>2. CASE /\ client' = [client EXCEPT ![cur] = TRUE]
               /\ conn' = [conn EXCEPT ![cur] = "connecting"]
          BY <1>1, <3>2 DEF Connect
    <3> QED BY <1>1, <3>1, <3>2 DEF Connect
  <2>2. NoSubscriptionLost'                         BY <1>1 DEF Connect
  <2>3. RestoredBeforePushes'                       BY <1>1 DEF Connect
  <2>4. UnloadedIsOff'                              BY <1>1 DEF Connect
  <2>5. ASSUME NEW c \in Coordinators
        PROVE  /\ conn'[c] \in {"resubscribing", "up"} => connected'[c]
               /\ callback'[c] => c \in restored'    BY <1>1 DEF Connect
  <2>6. entry' = "cache"                            BY <1>1 DEF Connect
  <2> QED BY <2>1, <2>2, <2>3, <2>4, <2>5, <2>6
<1>2. CASE Subscribe
  <2>1. CASE entry = "cache"     BY <1>2, <2>1 DEF Subscribe, Send
  <2>2. CASE entry = "subscribe"
    <3> DEFINE sent == Send(cur, client[cur] /\ connected[cur])
    <3>1. subscribed' = [subscribed EXCEPT ![cur] = sent]
          BY <1>2, <2>2 DEF Subscribe
    <3>2. sent \in BOOLEAN              BY DEF Send
    <3>3. conn[cur] \in {"resubscribing", "up"} => sent
                                        BY <2>2 DEF Send
    <3>4. TypeOK'                       BY <1>2, <2>2, <3>1, <3>2 DEF Subscribe
    <3>5. NoSubscriptionLost'           BY <1>2, <2>2, <3>1, <3>2, <3>3 DEF Subscribe
    <3> QED BY <1>2, <2>2, <3>1, <3>4, <3>5 DEF Subscribe
  <2> QED BY <1>2, <2>1, <2>2 DEF Subscribe
<1>3. CASE Disconnect BY <1>3 DEF Disconnect
<1> QED BY <1>1, <1>2, <1>3

\* paho's thread, and the network and the broker as it sees them.
LEMMA ThreadStep ==
    ASSUME LinkInv, NEW c \in Coordinators, PahoStep(c) \/ Drop(c) \/ OnMessage(c)
    PROVE  LinkInv'
<1> USE BoundsAssumption
        DEF LinkInv, TypeOK, NoSubscriptionLost, RestoredBeforePushes, UnloadedIsOff,
            Coordinators, AccountKeys, Entries, Connections, link
<1>1. CASE Connack(c)
  <2> PICK next \in {"accepted", "refused"} : conn' = [conn EXCEPT ![c] = next]
      BY <1>1 DEF Connack
  <2>1. TypeOK'                BY <1>1 DEF Connack
  <2> QED BY <1>1, <2>1 DEF Connack
<1>2. CASE OnConnect(c)
  <2>1. CASE conn[c] = "accepted"
    <3>1. /\ conn' = [conn EXCEPT ![c] = "resubscribing"]
          /\ connected' = [connected EXCEPT ![c] = TRUE]
          /\ UNCHANGED subscribed
          BY <1>2, <2>1 DEF OnConnect
    <3>2. TypeOK'                      BY <1>2, <2>1, <3>1 DEF OnConnect
    <3> QED BY <1>2, <2>1, <3>1, <3>2 DEF OnConnect
  <2>2. CASE conn[c] = "resubscribing"
    <3> DEFINE sent == Send(c, topic[c])
    <3>1. subscribed' = [subscribed EXCEPT ![c] = sent]
          BY <1>2, <2>2 DEF OnConnect
    <3>2. sent \in BOOLEAN /\ (topic[c] => sent)
          BY <2>2 DEF Send
    <3>3. TypeOK'                      BY <1>2, <2>2, <3>1, <3>2 DEF OnConnect
    <3>4. NoSubscriptionLost'          BY <1>2, <2>2, <3>1, <3>2 DEF OnConnect
    <3> QED BY <1>2, <2>2, <3>1, <3>3, <3>4 DEF OnConnect
  <2> QED BY <1>2, <2>1, <2>2 DEF OnConnect
<1>3. CASE OnRefused(c)   BY <1>3 DEF OnRefused
<1>4. CASE OnAuthError(c) BY <1>4 DEF OnAuthError
<1>5. CASE Drop(c)        BY <1>5 DEF Drop
<1>6. CASE OnMessage(c)   BY <1>6 DEF OnMessage
<1> QED BY <1>1, <1>2, <1>3, <1>4, <1>5, <1>6 DEF PahoStep

\* Every step keeps the invariant.
LEMMA NextLink == LinkInv /\ [Next]_vars => LinkInv'
<1> SUFFICES ASSUME LinkInv, [Next]_vars PROVE LinkInv'
    OBVIOUS
<1>1. CASE UNCHANGED vars
      BY <1>1 DEF vars, link, LinkInv, TypeOK, NoSubscriptionLost, RestoredBeforePushes,
                  UnloadedIsOff
<1>2. CASE Next BY <1>2, EntryStep, ClientStep, ThreadStep DEF Next, SetupStep
<1> QED BY <1>1, <1>2

\* The invariant holds in every behaviour.
THEOREM LinkInvHolds == Spec => []LinkInv
<1> QED BY InitLink, NextLink, PTL DEF Spec

\* The types, and that a client object and paho's thread come and go together.
THEOREM LinkTypeCorrect == Spec => []TypeOK
<1>1. LinkInv => TypeOK BY DEF LinkInv
<1> QED BY <1>1, LinkInvHolds, PTL

\* No subscription falls between subscribe() and _on_connect, whatever the order
\* of the executor's thread and paho's and however often the network drops.
THEOREM SubscriptionIsKept == Spec => []NoSubscriptionLost
<1>1. LinkInv => NoSubscriptionLost BY DEF LinkInv
<1> QED BY <1>1, LinkInvHolds, PTL

\* A push only reaches a coordinator that has read back its session.
THEOREM RestoreComesFirst == Spec => []RestoredBeforePushes
<1>1. LinkInv => RestoredBeforePushes BY DEF LinkInv
<1> QED BY <1>1, LinkInvHolds, PTL

\* An unloaded coordinator has no connection.
THEOREM UnloadDisconnects == Spec => []UnloadedIsOff
<1>1. LinkInv => UnloadedIsOff BY DEF LinkInv
<1> QED BY <1>1, LinkInvHolds, PTL

-----------------------------------------------------------------------------
(***************************************************************************)
(* The active map.  A call that is past its switch and clean is for the    *)
(* map the mower is on: whoever switches the map spoils the calls of all   *)
(* others, and a call that sends no switch is clean only if the map it     *)
(* believed active was.                                                    *)
(***************************************************************************)
CleanCalls == \A c \in Calls :
    call[c].at \in {"switched", "starting"} /\ call[c].clean => call[c].map = mowerMap

ActiveMapInv == ActiveMapTypeOK /\ CleanCalls /\ MowsOnGivenMap

(* Disturbed calls are calls, and only the one who disturbs stays clean.   *)
LEMMA DisturbedCalls ==
    ASSUME NEW calls \in [Calls -> CallStates], NEW c
    PROVE  /\ Disturb(calls, c) \in [Calls -> CallStates]
           /\ \A d \in Calls : d = c => Disturb(calls, c)[d] = calls[d]
           /\ \A d \in Calls : d # c => \/ Disturb(calls, c)[d].at = "idle"
                                        \/ ~Disturb(calls, c)[d].clean
<1> DEFINE spoilt(d) == [calls[d] EXCEPT !.clean = FALSE]
<1>1. ASSUME NEW d \in Calls, calls[d].at # "idle"
      PROVE  spoilt(d) \in CallStates /\ ~spoilt(d).clean
  <2>1. calls[d] \in MowCalls \/ calls[d] \in SelectCalls
    BY <1>1 DEF NoCall, CallStates
  <2>2. CASE calls[d] \in MowCalls
    BY <2>2 DEF MowCalls, CallStates
  <2>3. CASE calls[d] \in SelectCalls
    BY <2>3 DEF SelectCalls, CallStates
  <2>4. QED BY <2>1, <2>2, <2>3 DEF CallStates
<1> HIDE DEF spoilt
<1>2. \A d \in Calls : Disturb(calls, c)[d] = IF d = c \/ calls[d].at = "idle" THEN calls[d] ELSE spoilt(d)
  BY DEF Disturb, spoilt
<1>3. Disturb(calls, c) = [d \in Calls |-> Disturb(calls, c)[d]]
  BY DEF Disturb
<1>4. \A d \in Calls : Disturb(calls, c)[d] \in CallStates
  BY <1>1, <1>2
<1>5. QED BY <1>1, <1>2, <1>3, <1>4

(* Every command and every answer keeps the invariant.                     *)
LEMMA ActiveMapStep == ActiveMapInv /\ [ActiveMapNext]_activeMapVars => ActiveMapInv'
<1> SUFFICES ASSUME ActiveMapInv, [ActiveMapNext]_activeMapVars PROVE ActiveMapInv'
  OBVIOUS
<1> USE MapsAssumption
<1>t. ActiveMapTypeOK /\ CleanCalls /\ MowsOnGivenMap
  BY DEF ActiveMapInv
<1>c. ASSUME NEW c \in Calls
      PROVE  call[c] \in CallStates
  BY <1>t DEF CallStates, ActiveMapTypeOK
<1>1. ASSUME NEW c \in Calls, ArriveSwitch(c) PROVE ActiveMapInv'
  <2> DEFINE done == [call[c] EXCEPT !.at = IF call[c].at = "switching" THEN "switched" ELSE "selected"]
             lost == [done EXCEPT !.clean = FALSE]
  <2>1. /\ done \in MowCalls \cup SelectCalls /\ lost \in MowCalls \cup SelectCalls
        /\ done.map = call[c].map /\ done.map \in Maps /\ ~lost.clean
    <3>1. call[c] \in MowCalls \/ call[c] \in SelectCalls
      BY <1>1, <1>c DEF ArriveSwitch, NoCall, CallStates
    <3>2. CASE call[c] \in MowCalls
      BY <1>1, <3>2 DEF ArriveSwitch, MowCalls
    <3>3. CASE call[c] \in SelectCalls
      BY <1>1, <3>3 DEF ArriveSwitch, SelectCalls
    <3>4. QED BY <3>1, <3>2, <3>3
  <2> HIDE DEF done, lost
  <2>2. CASE /\ mowerMap' = call[c].map /\ UNCHANGED faults
             /\ call' = Disturb([call EXCEPT ![c] = done], c)
    <3> DEFINE next == [call EXCEPT ![c] = done]
    <3>1. /\ next \in [Calls -> CallStates] /\ next[c] = done
          /\ call' = Disturb(next, c)
      BY <1>t, <2>1, <2>2 DEF CallStates, ActiveMapTypeOK
    <3> HIDE DEF next
    <3>2. /\ call' \in [Calls -> CallStates]
          /\ call'[c] = done
          /\ \A d \in Calls : d # c => call'[d].at = "idle" \/ ~call'[d].clean
      BY <3>1, DisturbedCalls
    <3>3. CleanCalls'
      BY <3>2, <2>1, <2>2 DEF CleanCalls
    <3>4. ActiveMapTypeOK'
      BY <1>t, <1>1, <2>1, <2>2, <3>2 DEF CallStates, ActiveMapTypeOK, ArriveSwitch, commandBounds
    <3>5. QED BY <1>t, <1>1, <3>3, <3>4 DEF ActiveMapInv, MowsOnGivenMap, ArriveSwitch
  <2>3. CASE call' = [call EXCEPT ![c] = lost] /\ mowerMap' = mowerMap /\ faults' \in 0 .. MaxFaults
    <3>1. call' \in [Calls -> CallStates]
      BY <1>t, <2>1, <2>3 DEF CallStates, ActiveMapTypeOK
    <3>2. CleanCalls'
      BY <1>t, <2>1, <2>3 DEF CleanCalls, ActiveMapTypeOK
    <3>3. ActiveMapTypeOK'
      BY <1>t, <1>1, <2>3, <3>1 DEF CallStates, ActiveMapTypeOK, ArriveSwitch
    <3>4. QED BY <1>t, <1>1, <3>2, <3>3 DEF ActiveMapInv, MowsOnGivenMap, ArriveSwitch
  <2>4. QED BY <1>t, <1>1, <2>2, <2>3 DEF ArriveSwitch, ActiveMapTypeOK, done, lost
<1>2. ASSUME NEW c \in Calls, ArriveStart(c) PROVE ActiveMapInv'
  <2>1. call[c] \in MowCalls
    BY <1>2, <1>c DEF CallStates, ArriveStart, NoCall, SelectCalls
  <2>2. call' = [call EXCEPT ![c] = NoCall] /\ mowerMap' = mowerMap
    BY <1>2 DEF ArriveStart
  <2>3. CleanCalls'
    BY <1>t, <2>2 DEF CleanCalls, ActiveMapTypeOK, NoCall
  <2>4. job' \in Mows \cup {None} /\ MowsOnGivenMap'
    BY <1>t, <1>2, <2>1 DEF ArriveStart, ActiveMapTypeOK, MowCalls, Mows, MowsOnGivenMap, CleanCalls
  <2>5. ActiveMapTypeOK'
    BY <1>t, <1>2, <2>2, <2>4 DEF CallStates, ActiveMapTypeOK, ArriveStart
  <2>6. QED BY <2>3, <2>4, <2>5 DEF ActiveMapInv
<1>3. ASSUME NEW c \in Calls, AfterSwitch(c) PROVE ActiveMapInv'
  <2>1. /\ [call[c] EXCEPT !.at = "starting"] \in MowCalls
        /\ [call[c] EXCEPT !.at = "starting"].clean = call[c].clean
        /\ [call[c] EXCEPT !.at = "starting"].map = call[c].map
    BY <1>3, <1>c DEF CallStates, AfterSwitch, NoCall, MowCalls, SelectCalls
  <2>2. call' = [call EXCEPT ![c] = [call[c] EXCEPT !.at = "starting"]] /\ mowerMap' = mowerMap
    BY <1>3 DEF AfterSwitch
  <2>3. CleanCalls'
    BY <1>t, <1>3, <2>1, <2>2 DEF CleanCalls, ActiveMapTypeOK, AfterSwitch
  <2>4. ActiveMapTypeOK'
    BY <1>t, <1>3, <2>1, <2>2 DEF CallStates, ActiveMapTypeOK, AfterSwitch, commandBounds
  <2>5. QED BY <1>t, <1>3, <2>3, <2>4 DEF ActiveMapInv, MowsOnGivenMap, AfterSwitch
<1>4. ASSUME NEW c \in Calls, AfterSelect(c) PROVE ActiveMapInv'
  BY <1>t, <1>4 DEF AfterSelect, ActiveMapInv, ActiveMapTypeOK, CleanCalls, MowsOnGivenMap,
                    commandBounds, NoCall, CallStates
<1>5. ASSUME NEW c \in Calls, NEW m \in Maps, NEW k \in Kinds, StartMowing(c, m, k)
      PROVE  ActiveMapInv'
  <2> DEFINE me == CallFor(m, k, EnsureActiveMap(m))
  <2>1. /\ me \in MowCalls /\ me.map = m /\ me.at \in {"starting", "switching"}
        /\ me.at = "starting" /\ me.clean => m = mowerMap
    BY <1>t DEF CallFor, EnsureActiveMap, MowCalls, ActiveMapTypeOK
  <2> HIDE DEF me
  <2>2. call' = [call EXCEPT ![c] = me] /\ mowerMap' = mowerMap
    BY <1>5 DEF StartMowing, me
  <2>3. CleanCalls'
    BY <1>t, <2>1, <2>2 DEF CleanCalls, ActiveMapTypeOK
  <2>4. ActiveMapTypeOK'
    BY <1>t, <1>5, <2>1, <2>2 DEF CallStates, ActiveMapTypeOK, StartMowing
  <2>5. QED BY <1>t, <1>5, <2>3, <2>4 DEF ActiveMapInv, MowsOnGivenMap, StartMowing
<1>6. ASSUME NEW c \in Calls, NEW m \in Maps, SelectMap(c, m) PROVE ActiveMapInv'
  <2> DEFINE me == CallFor(m, "all", "selecting")
  <2>1. me \in SelectCalls /\ me.at = "selecting"
    BY DEF CallFor, SelectCalls
  <2> HIDE DEF me
  <2>2. call' = [call EXCEPT ![c] = me] /\ mowerMap' = mowerMap
    BY <1>6 DEF SelectMap, me
  <2>3. CleanCalls'
    BY <1>t, <2>1, <2>2 DEF CleanCalls, ActiveMapTypeOK
  <2>4. ActiveMapTypeOK'
    BY <1>t, <1>6, <2>1, <2>2 DEF CallStates, ActiveMapTypeOK, SelectMap
  <2>5. QED BY <1>t, <1>6, <2>3, <2>4 DEF ActiveMapInv, MowsOnGivenMap, SelectMap
<1>7. CASE AppSwitch
  <2>1. /\ call' \in [Calls -> CallStates]
        /\ \A d \in Calls : call'[d].at = "idle" \/ ~call'[d].clean
    <3>1. call' = Disturb(call, None) /\ call \in [Calls -> CallStates]
      BY <1>t, <1>7 DEF AppSwitch, ActiveMapTypeOK
    <3>2. QED BY <3>1, DisturbedCalls
  <2>2. CleanCalls'
    BY <2>1 DEF CleanCalls
  <2>3. ActiveMapTypeOK'
    BY <1>t, <1>7, <2>1 DEF CallStates, ActiveMapTypeOK, AppSwitch
  <2>4. QED BY <1>t, <1>7, <2>2, <2>3 DEF ActiveMapInv, MowsOnGivenMap, AppSwitch
<1>8. CASE RestartAll
  BY <1>t, <1>8 DEF RestartAll, ActiveMapInv, ActiveMapTypeOK, CleanCalls, MowsOnGivenMap, NoCall, CallStates
<1>9. ASSUME NEW f \in Fetches, FetchStep(f) \/ LoseMapl(f) PROVE ActiveMapInv'
  BY <1>t, <1>9 DEF FetchStep, RefreshMapl, AnswerMapl, ApplyMapl, LoseMapl, commandBounds,
                    ActiveMapInv, ActiveMapTypeOK, CleanCalls, MowsOnGivenMap
<1>10. CASE Finish \/ ClearOptimistic \/ UNCHANGED activeMapVars
  BY <1>t, <1>10 DEF Finish, ClearOptimistic, activeMapVars, commandBounds,
                     ActiveMapInv, ActiveMapTypeOK, CleanCalls, MowsOnGivenMap
<1>11. QED
  BY <1>1, <1>2, <1>3, <1>4, <1>5, <1>6, <1>7, <1>8, <1>9, <1>10
     DEF ActiveMapNext, Running, CallStep

(* The inductive invariant holds in every reachable state.                 *)
LEMMA ActiveMapInvHolds == ActiveMapSpec => []ActiveMapInv
<1>1. ActiveMapInit => ActiveMapInv
  BY MapsAssumption DEF ActiveMapInit, ActiveMapInv, ActiveMapTypeOK, CleanCalls, MowsOnGivenMap, NoCall, CallStates
<1>2. QED BY <1>1, ActiveMapStep, PTL DEF ActiveMapSpec

(* A command never holds anything but a map, a kind and a place to be at.  *)
THEOREM ActiveMapTyped == ActiveMapSpec => []ActiveMapTypeOK
BY ActiveMapInvHolds, PTL DEF ActiveMapInv

(* A mow runs on the map its picker was asked for, for any maps, calls and *)
(* fetches, unless what it knew was wrong, a command was lost or refused,  *)
(* or somebody else switched (_ensure_active_map, dispatch_action).        *)
THEOREM GivenMapIsMown == ActiveMapSpec => []MowsOnGivenMap
BY ActiveMapInvHolds, PTL DEF ActiveMapInv

-----------------------------------------------------------------------------
(***************************************************************************)
(* The pickers.  Of any maps they show zones of their own; and where maps  *)
(* that have zones have the same numbers, each finds what another has      *)
(* selected.  Then an update within an update is only made while nothing   *)
(* is selected, by the first picker with zones that is added, and every    *)
(* picker shows the selection or is still to be told of it.                *)
(***************************************************************************)

(* An update that begins is the innermost, and the others are as they were. *)
LEMMA Nested ==
    ASSUME NEW S, NEW u \in S, NEW s \in Seq(S)
    PROVE  /\ <<u>> \o s \in Seq(S) /\ <<u>> \o s # <<>> /\ Len(<<u>> \o s) = Len(s) + 1
           /\ (<<u>> \o s)[1] = u
           /\ \A i \in DOMAIN s : i + 1 \in DOMAIN (<<u>> \o s) /\ (<<u>> \o s)[i + 1] = s[i]
           /\ \A i \in DOMAIN (<<u>> \o s) : i = 1 \/ (i - 1 \in DOMAIN s /\ (<<u>> \o s)[i] = s[i - 1])
<1>1. <<u>> \in Seq(S) /\ Len(<<u>>) = 1 /\ <<u>>[1] = u
  OBVIOUS
<1> DEFINE t == <<u>> \o s
<1>2. t \in Seq(S) /\ Len(t) = Len(s) + 1
  BY <1>1
<1>3. \A i \in 1 .. Len(s) + 1 : t[i] = IF i <= 1 THEN <<u>>[i] ELSE s[i - 1]
  BY <1>1
<1>4. QED BY <1>1, <1>2, <1>3

(* When it ends, the others are as they were.                              *)
LEMMA Unnested ==
    ASSUME NEW S, NEW s \in Seq(S), s # <<>>
    PROVE  /\ Tail(s) \in Seq(S) /\ Len(Tail(s)) = Len(s) - 1 /\ Len(s) >= 1
           /\ Head(s) = s[1] /\ s[1] \in S
           /\ \A i \in DOMAIN Tail(s) : i + 1 \in DOMAIN s /\ Tail(s)[i] = s[i + 1]
           /\ \A i \in DOMAIN s : i # 1 => i - 1 \in DOMAIN Tail(s) /\ Tail(s)[i - 1] = s[i]
<1>1. Len(s) \in Nat /\ Len(s) >= 1
  OBVIOUS
<1>2. Tail(s) \in Seq(S) /\ Len(Tail(s)) = Len(s) - 1 /\ Head(s) = s[1] /\ s[1] \in S
  OBVIOUS
<1>3. \A i \in 1 .. Len(s) - 1 : Tail(s)[i] = s[i + 1]
  OBVIOUS
<1>4. QED BY <1>1, <1>2, <1>3

\* Updates that may be under way, and what they are about.
Consistent(us) ==
    /\ us \in Seq(Updates)
    /\ \A i \in DOMAIN us : us[i].by # None => us[i].shows \in ZonesOf(us[i].by)

PickersTyped == PickersTypeOK /\ Consistent(updates)

(* A picker with zones has a first one.                                    *)
LEMMA FirstZone ==
    ASSUME NEW m \in Maps
    PROVE  /\ ZonesOf(m) = {} \/ Head(ZoneIds[m]) \in ZonesOf(m)
           /\ ZonesOf(m) \subseteq AllZones /\ None \notin ZonesOf(m)
           /\ ZoneIds[m] # <<>> <=> ZonesOf(m) # {}
<1>1. ZoneIds[m] \in Seq(Nat \ {0}) /\ None \notin Nat
  BY PickersAssumption
<1>2. CASE ZoneIds[m] = <<>>
  BY <1>1, <1>2 DEF ZonesOf, AllZones
<1>3. CASE ZoneIds[m] # <<>>
  <2>1. Len(ZoneIds[m]) \in Nat /\ Len(ZoneIds[m]) >= 1 /\ DOMAIN ZoneIds[m] = 1 .. Len(ZoneIds[m])
    BY <1>1, <1>3
  <2>2. Head(ZoneIds[m]) = ZoneIds[m][1] /\ 1 \in DOMAIN ZoneIds[m]
    BY <2>1
  <2>3. \A i \in DOMAIN ZoneIds[m] : ZoneIds[m][i] \in Nat
    BY <1>1
  <2>4. QED BY <1>1, <1>3, <2>2, <2>3 DEF ZonesOf, AllZones
<1>4. QED BY <1>2, <1>3

(* The innermost update, told to one more.                                 *)
LEMMA OneTold ==
    ASSUME PickersTyped, ~Quiet, NEW m \in Maps
    PROVE  /\ Told(m) \in Seq(Updates) /\ Len(Told(m)) = Len(updates)
           /\ Len(updates) >= 1 /\ DOMAIN Told(m) = DOMAIN updates /\ 1 \in DOMAIN updates
           /\ Told(m)[1] = [updates[1] EXCEPT !.rest = @ \ {m}] /\ Head(updates) = updates[1]
           /\ \A i \in DOMAIN updates : i # 1 => Told(m)[i] = updates[i]
           /\ \A i \in DOMAIN updates : Told(m)[i].by = updates[i].by /\ Told(m)[i].shows = updates[i].shows
<1> DEFINE u == [updates[1] EXCEPT !.rest = @ \ {m}]
<1>1. updates \in Seq(Updates) /\ updates # <<>>
  BY DEF PickersTyped, PickersTypeOK, Quiet
<1>2. /\ Tail(updates) \in Seq(Updates) /\ Len(Tail(updates)) = Len(updates) - 1 /\ Len(updates) >= 1
      /\ Head(updates) = updates[1] /\ updates[1] \in Updates
      /\ \A i \in DOMAIN Tail(updates) : i + 1 \in DOMAIN updates /\ Tail(updates)[i] = updates[i + 1]
      /\ \A i \in DOMAIN updates : i # 1 => i - 1 \in DOMAIN Tail(updates) /\ Tail(updates)[i - 1] = updates[i]
  BY <1>1, Unnested
<1>3. u \in Updates /\ u.by = updates[1].by /\ u.shows = updates[1].shows
  BY <1>2 DEF Updates
<1>4. Told(m) = <<u>> \o Tail(updates)
  BY <1>2 DEF Told
<1> HIDE DEF u
<1>5. /\ Told(m) \in Seq(Updates) /\ Len(Told(m)) = Len(Tail(updates)) + 1 /\ Told(m)[1] = u
      /\ \A i \in DOMAIN Told(m) : i = 1 \/ (i - 1 \in DOMAIN Tail(updates) /\ Told(m)[i] = Tail(updates)[i - 1])
  BY <1>2, <1>3, <1>4, Nested
<1>6. /\ Len(updates) \in Nat /\ DOMAIN updates = 1 .. Len(updates) /\ DOMAIN Told(m) = 1 .. Len(Told(m))
      /\ Len(Told(m)) = Len(updates)
  BY <1>1, <1>2, <1>5
<1>7. \A i \in DOMAIN updates : i # 1 => Told(m)[i] = updates[i]
  BY <1>2, <1>5, <1>6
<1>8. \A i \in DOMAIN updates : Told(m)[i].by = updates[i].by /\ Told(m)[i].shows = updates[i].shows
  BY <1>3, <1>5, <1>7
<1>9. 1 \in DOMAIN updates
  BY <1>2, <1>6
<1>10. Told(m)[1] = [updates[1] EXCEPT !.rest = @ \ {m}]
  BY <1>5 DEF u
<1>11. QED BY <1>2, <1>5, <1>6, <1>7, <1>8, <1>9, <1>10

(* A selection begins an update, or finds no room for it.                  *)
LEMMA Selected ==
    ASSUME NEW told \in SUBSET Maps, NEW by \in Maps \cup {None}, NEW us, Consistent(us),
           NEW z \in AllZones, by # None => z \in ZonesOf(by), Select(z, told, by, us),
           selection \in AllZones \cup {None}, overflow \in BOOLEAN
    PROVE  Consistent(updates') /\ selection' \in AllZones \cup {None} /\ overflow' \in BOOLEAN
<1> DEFINE u == Telling(told, by, z)
<1>1. u \in Updates /\ u.by = by /\ u.shows = z
  BY DEF Telling, Updates
<1>2. us \in Seq(Updates)
  BY DEF Consistent
<1>3. CASE Len(us) >= MaxNested
  BY <1>3 DEF Select, Consistent
<1>4. CASE ~(Len(us) >= MaxNested)
  <2>1. updates' = <<u>> \o us /\ overflow' = overflow /\ selection' = z
    BY <1>4 DEF Select
  <2> HIDE DEF u
  <2>2. /\ updates' \in Seq(Updates) /\ updates'[1] = u
        /\ \A i \in DOMAIN updates' : i = 1 \/ (i - 1 \in DOMAIN us /\ updates'[i] = us[i - 1])
    BY <1>1, <1>2, <2>1, Nested
  <2>3. QED BY <1>1, <2>1, <2>2 DEF Consistent
<1>5. QED BY <1>3, <1>4

(* With room for it, the update tells all that are there.                  *)
LEMMA SelectionBegins ==
    ASSUME NEW told \in SUBSET Maps, NEW by \in Maps \cup {None}, NEW us \in Seq(Updates),
           NEW z \in AllZones, Select(z, told, by, us), Len(us) <= 1
    PROVE  /\ selection' = z /\ overflow' = overflow /\ Len(updates') = Len(us) + 1
           /\ updates'[1].rest = told /\ updates'[1].by = by /\ updates'[1].shows = z
           /\ 1 \in DOMAIN updates'
           /\ \A i \in DOMAIN updates' : i = 1 \/ (i - 1 \in DOMAIN us /\ updates'[i] = us[i - 1])
<1> DEFINE u == Telling(told, by, z)
<1>1. u \in Updates /\ u.by = by /\ u.shows = z /\ u.rest = told
  BY DEF Telling, Updates
<1>2. ~(Len(us) >= MaxNested) /\ Len(us) \in Nat
  BY PickersAssumption
<1>3. updates' = <<u>> \o us /\ overflow' = overflow /\ selection' = z
  BY <1>2 DEF Select
<1> HIDE DEF u
<1>4. /\ updates' \in Seq(Updates) /\ Len(updates') = Len(us) + 1 /\ updates'[1] = u
      /\ \A i \in DOMAIN updates' : i = 1 \/ (i - 1 \in DOMAIN us /\ updates'[i] = us[i - 1])
  BY <1>1, <1>3, Nested
<1>5. 1 \in DOMAIN updates'
  BY <1>2, <1>4
<1>6. QED BY <1>1, <1>3, <1>4, <1>5

(* Whatever the zones, pickers show zones of their own map.                *)
LEMMA PickersTypedStep == PickersTyped /\ [PickersNext]_pickersVars => PickersTyped'
<1> SUFFICES ASSUME PickersTyped, [PickersNext]_pickersVars PROVE PickersTyped'
  OBVIOUS
<1>t. /\ selection \in AllZones \cup {None} /\ showing \in [Maps -> AllZones \cup {None}]
      /\ \A m \in Maps : showing[m] \in ZonesOf(m) \cup {None}
      /\ listeners \in SUBSET Maps /\ overflow \in BOOLEAN /\ picks \in 0 .. MaxPicks
      /\ Consistent(updates) /\ updates \in Seq(Updates)
  BY DEF PickersTyped, PickersTypeOK
<1>n. Consistent(<<>>) /\ Len(<<>>) = 0 /\ \A told \in SUBSET Maps : Consistent(<<Telling(told, NoPicker, None)>>)
  BY DEF Consistent, Telling, Updates, NoPicker
<1>1. ASSUME NEW m \in Head(updates).rest, ~Quiet, Refresh(m), UNCHANGED <<listeners, picks>>
      PROVE  PickersTyped'
  <2>0. m \in Maps
    <3>1. updates # <<>>
      BY <1>1 DEF Quiet
    <3>2. Head(updates) \in Updates
      BY <1>t, <3>1
    <3>3. QED BY <1>1, <3>2 DEF Updates
  <2>1. Consistent(Told(m))
    <3>1. /\ Told(m) \in Seq(Updates) /\ DOMAIN Told(m) = DOMAIN updates
          /\ \A i \in DOMAIN updates : Told(m)[i].by = updates[i].by /\ Told(m)[i].shows = updates[i].shows
      BY <1>1, <2>0, OneTold
    <3>2. QED BY <1>t, <3>1 DEF Consistent
  <2>2. CASE selection \in ZonesOf(m) \/ ZonesOf(m) = {}
    BY <1>1, <1>t, <2>0, <2>1, <2>2, FirstZone DEF Refresh, PickersTyped, PickersTypeOK, Consistent
  <2>3. CASE ~(selection \in ZonesOf(m) \/ ZonesOf(m) = {})
    <3>1. Select(Head(ZoneIds[m]), listeners, m, Told(m)) /\ showing' = showing
      BY <1>1, <2>3 DEF Refresh
    <3>2. Head(ZoneIds[m]) \in ZonesOf(m) /\ Head(ZoneIds[m]) \in AllZones
      BY <2>0, <2>3, FirstZone
    <3>3. Consistent(updates') /\ selection' \in AllZones \cup {None} /\ overflow' \in BOOLEAN
      BY <1>t, <2>0, <2>1, <3>1, <3>2, Selected
    <3>4. QED BY <1>1, <1>t, <3>1, <3>3 DEF PickersTyped, PickersTypeOK, Consistent
  <2>4. QED BY <2>2, <2>3
<1>2. CASE EndUpdate
  <2>1. updates # <<>> /\ updates' = Tail(updates)
    BY <1>2 DEF EndUpdate, Quiet
  <2>2. Consistent(updates') /\ 1 \in DOMAIN updates /\ Head(updates) = updates[1] /\ updates[1] \in Updates
    <3>1. /\ Tail(updates) \in Seq(Updates) /\ Len(updates) >= 1
          /\ Head(updates) = updates[1] /\ updates[1] \in Updates
          /\ \A i \in DOMAIN Tail(updates) : i + 1 \in DOMAIN updates /\ Tail(updates)[i] = updates[i + 1]
      BY <1>t, <2>1, Unnested
    <3>2. 1 \in DOMAIN updates
      BY <1>t, <3>1
    <3>3. QED BY <1>t, <2>1, <3>1, <3>2 DEF Consistent
  <2>3. updates[1].by = None \/ (updates[1].by \in Maps /\ updates[1].shows \in ZonesOf(updates[1].by))
    BY <1>t, <2>2 DEF Consistent, Updates
  <2>4. showing' \in [Maps -> AllZones \cup {None}] /\ \A m \in Maps : showing'[m] \in ZonesOf(m) \cup {None}
    BY <1>2, <1>t, <2>2, <2>3, FirstZone DEF EndUpdate, NoPicker
  <2>5. QED BY <1>2, <1>t, <2>2, <2>4 DEF EndUpdate, PickersTyped, PickersTypeOK, Consistent
<1>3. ASSUME NEW m \in Maps, Add(m) PROVE PickersTyped'
  <2> DEFINE us == <<Telling({m}, NoPicker, None)>>
  <2>1. Consistent(us)
    BY <1>n
  <2> HIDE DEF us
  <2>2. listeners' \in SUBSET Maps /\ showing' = showing /\ picks' = picks
    BY <1>3, <1>t DEF Add
  <2>3. CASE selection = None /\ showing[m] # None
    <3>1. Select(showing[m], listeners', NoPicker, us)
      BY <1>3, <2>3 DEF Add, us
    <3>2. showing[m] \in AllZones
      BY <1>t, <2>3
    <3>3. Consistent(updates') /\ selection' \in AllZones \cup {None} /\ overflow' \in BOOLEAN
      BY <1>t, <2>1, <2>2, <3>1, <3>2, Selected DEF NoPicker
    <3>4. QED BY <1>t, <2>2, <3>3 DEF PickersTyped, PickersTypeOK, Consistent
  <2>4. CASE ~(selection = None /\ showing[m] # None)
    <3>1. updates' = us /\ selection' = selection /\ overflow' = overflow
      BY <1>3, <2>4 DEF Add, us
    <3>2. QED BY <1>t, <2>1, <2>2, <3>1 DEF PickersTyped, PickersTypeOK, Consistent
  <2>5. QED BY <2>3, <2>4
<1>4. ASSUME NEW m \in Maps, PickZone(m) PROVE PickersTyped'
  <2>1. PICK z \in ZonesOf(m) : Select(z, listeners, m, <<>>)
    BY <1>4 DEF PickZone
  <2>2. Consistent(updates') /\ selection' \in AllZones \cup {None} /\ overflow' \in BOOLEAN
    BY <1>t, <1>n, <2>1, FirstZone, Selected
  <2>3. picks' \in 0 .. MaxPicks
    BY <1>4, <1>t, PickersAssumption DEF PickZone
  <2>4. QED BY <1>4, <1>t, <2>2, <2>3 DEF PickZone, PickersTyped, PickersTypeOK, Consistent
<1>5. CASE Run
  <2>1. Consistent(updates')
    BY <1>5, <1>t, <1>n DEF Run
  <2>2. QED BY <1>5, <1>t, <2>1 DEF Run, PickersTyped, PickersTypeOK, Consistent
<1>6. CASE RestartPickers
  BY <1>6, <1>t DEF RestartPickers, PickersTyped, PickersTypeOK, Consistent
<1>7. CASE UNCHANGED pickersVars
  BY <1>7, <1>t DEF pickersVars, pickers, PickersTyped, PickersTypeOK, Consistent
<1>8. CASE TellListener
  BY <1>1, <1>8 DEF TellListener
<1>9. QED BY <1>2, <1>3, <1>4, <1>5, <1>6, <1>7, <1>8 DEF PickersNext

\* The zones have the same numbers on every map that has any.
SameNumbers == \A m, n \in Maps : ZonesOf(m) # {} /\ ZonesOf(n) # {} => ZonesOf(m) = ZonesOf(n)

\* A picker to which an update under way has yet to come.
Awaits(m) == \E i \in DOMAIN updates : m \in updates[i].rest

PickersInv ==
    /\ PickersTyped
    /\ SelectionSettles
    /\ Len(updates) <= IF selection = None THEN 1 ELSE 2
    /\ \A i \in DOMAIN updates : updates[i].by # None => selection # None /\ updates[i].shows = selection
    /\ \A m \in listeners :
          ZonesOf(m) = {} \/ (selection # None /\ showing[m] = selection) \/ Awaits(m)

(* What one map has selected, every picker with zones finds.               *)
LEMMA SelectionIsFound ==
    ASSUME SameNumbers, PickersTyped, NEW m \in Maps, ZonesOf(m) # {}, selection # None
    PROVE  selection \in ZonesOf(m)
<1>1. PICK n \in Maps : selection \in ZonesOf(n)
  BY DEF PickersTyped, PickersTypeOK, AllZones
<1>2. QED BY <1>1 DEF SameNumbers

(* Updates within updates are not needed once something is selected.       *)
LEMMA PickersStep == SameNumbers /\ PickersInv /\ [PickersNext]_pickersVars => PickersInv'
<1> SUFFICES ASSUME SameNumbers, PickersInv, [PickersNext]_pickersVars PROVE PickersInv'
  OBVIOUS
<1>p. PickersTyped /\ PickersTyped'
  BY PickersTypedStep DEF PickersInv
<1>t. /\ selection \in AllZones \cup {None} /\ showing \in [Maps -> AllZones \cup {None}]
      /\ \A m \in Maps : showing[m] \in ZonesOf(m) \cup {None}
      /\ listeners \in SUBSET Maps /\ overflow \in BOOLEAN /\ overflow = FALSE
      /\ Consistent(updates) /\ updates \in Seq(Updates) /\ Len(updates) \in Nat
      /\ DOMAIN updates = 1 .. Len(updates)
  BY <1>p DEF PickersTyped, PickersTypeOK, PickersInv, SelectionSettles
<1>i. /\ Len(updates) <= IF selection = None THEN 1 ELSE 2
      /\ \A i \in DOMAIN updates : updates[i].by # None => selection # None /\ updates[i].shows = selection
      /\ \A m \in listeners :
            ZonesOf(m) = {} \/ (selection # None /\ showing[m] = selection) \/ Awaits(m)
  BY DEF PickersInv
<1>m. MaxNested \in Nat /\ MaxNested >= 2
  BY PickersAssumption
<1>1. ASSUME NEW m \in Head(updates).rest, ~Quiet, Refresh(m), UNCHANGED <<listeners, picks>>
      PROVE  PickersInv'
  <2>0. m \in Maps
    <3>1. updates # <<>>
      BY <1>1 DEF Quiet
    <3>2. Head(updates) \in Updates
      BY <1>t, <3>1
    <3>3. QED BY <1>1, <3>2 DEF Updates
  <2>1. /\ Told(m) \in Seq(Updates) /\ Len(Told(m)) = Len(updates) /\ DOMAIN Told(m) = DOMAIN updates
        /\ 1 \in DOMAIN updates /\ Told(m)[1] = [updates[1] EXCEPT !.rest = @ \ {m}]
        /\ \A i \in DOMAIN updates : i # 1 => Told(m)[i] = updates[i]
        /\ \A i \in DOMAIN updates : Told(m)[i].by = updates[i].by /\ Told(m)[i].shows = updates[i].shows
    BY <1>1, <1>p, <2>0, OneTold
  <2>2. \A i \in DOMAIN updates, n \in Maps : n # m /\ n \in updates[i].rest => n \in Told(m)[i].rest
    <3>1. updates[1] \in Updates
      BY <1>t, <2>1
    <3>2. Told(m)[1].rest = updates[1].rest \ {m}
      BY <2>1, <3>1 DEF Updates
    <3>3. QED BY <2>1, <3>2
  <2>3. CASE selection \in ZonesOf(m) \/ ZonesOf(m) = {}
    <3>1. updates' = Told(m) /\ selection' = selection /\ overflow' = overflow
      BY <1>1, <2>3 DEF Refresh
    <3>2. \A n \in Maps \ {m} : showing'[n] = showing[n]
      BY <1>1, <1>t, <2>3 DEF Refresh
    <3>3. ZonesOf(m) = {} \/ (selection # None /\ showing'[m] = selection)
      BY <1>1, <1>t, <2>0, <2>3, FirstZone DEF Refresh
    <3>4. ASSUME NEW n \in listeners', n # m
          PROVE  ZonesOf(n) = {} \/ (selection' # None /\ showing'[n] = selection') \/ Awaits(n)'
      BY <1>1, <1>i, <1>t, <2>1, <2>2, <3>1, <3>2, <3>4 DEF Awaits
    <3>5. QED BY <1>1, <1>p, <1>i, <1>t, <2>1, <3>1, <3>3, <3>4 DEF PickersInv, SelectionSettles
  <2>4. CASE ~(selection \in ZonesOf(m) \/ ZonesOf(m) = {})
    <3> DEFINE z == Head(ZoneIds[m])
    <3>1. Select(z, listeners, m, Told(m)) /\ showing' = showing
      BY <1>1, <2>4 DEF Refresh
    <3>2. z \in ZonesOf(m) /\ z \in AllZones /\ z # None
      BY <2>0, <2>4, FirstZone
    <3> HIDE DEF z
    <3>3. selection = None /\ Len(updates) = 1
      <4>1. selection = None
        BY <1>p, <2>0, <2>4, SelectionIsFound
      <4>2. QED BY <1>i, <1>t, <2>1, <4>1
    <3>4. Len(Told(m)) = 1 /\ Len(Told(m)) <= 1 /\ Told(m) \in Seq(Updates) /\ DOMAIN Told(m) = {1} /\ Told(m)[1].by = updates[1].by
      BY <1>t, <2>1, <3>3
    <3>5. /\ selection' = z /\ overflow' = overflow /\ Len(updates') = Len(Told(m)) + 1
          /\ updates'[1].rest = listeners /\ updates'[1].by = m /\ updates'[1].shows = z
          /\ 1 \in DOMAIN updates'
          /\ \A i \in DOMAIN updates' : i = 1 \/ (i - 1 \in DOMAIN Told(m) /\ updates'[i] = Told(m)[i - 1])
      BY <1>t, <2>0, <3>1, <3>2, <3>4, SelectionBegins
    <3>6. \A n \in listeners' : Awaits(n)'
      BY <1>1, <3>5 DEF Awaits
    <3>7. \A i \in DOMAIN updates' : updates'[i].by # None => updates'[i].shows = z
      BY <1>i, <2>1, <3>3, <3>4, <3>5
    <3>8. Len(updates') <= 2
      BY <3>4, <3>5
    <3>9. QED BY <1>p, <1>t, <3>2, <3>5, <3>6, <3>7, <3>8 DEF PickersInv, SelectionSettles
  <2>5. QED BY <2>3, <2>4
<1>2. CASE EndUpdate
  <2>1. updates # <<>> /\ updates' = Tail(updates) /\ Head(updates).rest = {} /\ listeners' = listeners
        /\ selection' = selection /\ overflow' = overflow
    BY <1>2 DEF EndUpdate, Quiet
  <2>2. /\ Tail(updates) \in Seq(Updates) /\ Len(Tail(updates)) = Len(updates) - 1 /\ Len(updates) >= 1
        /\ Head(updates) = updates[1] /\ updates[1] \in Updates
        /\ \A i \in DOMAIN Tail(updates) : i + 1 \in DOMAIN updates /\ Tail(updates)[i] = updates[i + 1]
        /\ \A i \in DOMAIN updates : i # 1 => i - 1 \in DOMAIN Tail(updates) /\ Tail(updates)[i - 1] = updates[i]
    BY <1>t, <2>1, Unnested
  <2>3. \A m \in Maps : Awaits(m) => Awaits(m)'
    BY <1>t, <2>1, <2>2 DEF Awaits
  <2>4. 1 \in DOMAIN updates
    BY <1>t, <2>2
  <2>5. \A m \in Maps : showing'[m] = showing[m] \/ (selection # None /\ showing'[m] = selection)
    BY <1>2, <1>i, <1>t, <2>2, <2>4 DEF EndUpdate, NoPicker
  <2>6. Len(updates') <= IF selection' = None THEN 1 ELSE 2
    BY <1>i, <1>t, <2>1, <2>2
  <2>7. \A i \in DOMAIN updates' : updates'[i].by # None => selection' # None /\ updates'[i].shows = selection'
    BY <1>i, <2>1, <2>2
  <2>8. \A m \in listeners' : ZonesOf(m) = {} \/ (selection' # None /\ showing'[m] = selection') \/ Awaits(m)'
    BY <1>i, <1>t, <2>1, <2>3, <2>5
  <2>9. QED BY <1>p, <1>t, <2>1, <2>6, <2>7, <2>8 DEF PickersInv, SelectionSettles
<1>3. ASSUME NEW m \in Maps, Add(m) PROVE PickersInv'
  <2> DEFINE us == <<Telling({m}, NoPicker, None)>>
  <2>1. Consistent(us) /\ Len(us) = 1 /\ DOMAIN us = {1} /\ us[1].by = None /\ us[1].rest = {m}
    BY DEF Consistent, Telling, Updates, NoPicker
  <2> HIDE DEF us
  <2>2. listeners' = listeners \cup {m} /\ showing' = showing /\ updates = <<>>
    BY <1>3 DEF Add, Quiet
  <2>3. CASE selection = None /\ showing[m] # None
    <3>1. Select(showing[m], listeners', NoPicker, us)
      BY <1>3, <2>3 DEF Add, us
    <3>2. showing[m] \in AllZones /\ listeners' \in SUBSET Maps
      BY <1>t, <2>2, <2>3
    <3>3. us \in Seq(Updates) /\ Len(us) <= 1
      BY <2>1 DEF Consistent
    <3>4. /\ selection' = showing[m] /\ overflow' = overflow /\ Len(updates') = Len(us) + 1
          /\ updates'[1].rest = listeners' /\ updates'[1].by = NoPicker
          /\ 1 \in DOMAIN updates'
          /\ \A i \in DOMAIN updates' : i = 1 \/ (i - 1 \in DOMAIN us /\ updates'[i] = us[i - 1])
      BY <3>1, <3>2, <3>3, SelectionBegins DEF NoPicker
    <3>5. \A n \in listeners' : Awaits(n)'
      BY <3>4 DEF Awaits
    <3>6. \A i \in DOMAIN updates' : updates'[i].by = None
      BY <2>1, <3>4 DEF NoPicker
    <3>7. Len(updates') <= 2
      BY <2>1, <3>4
    <3>8. QED BY <1>p, <1>t, <2>3, <3>4, <3>5, <3>6, <3>7 DEF PickersInv, SelectionSettles
  <2>4. CASE ~(selection = None /\ showing[m] # None)
    <3>1. updates' = us /\ selection' = selection /\ overflow' = overflow
      BY <1>3, <2>4 DEF Add, us
    <3>2. Awaits(m)' /\ \A n \in Maps : ~Awaits(n)
      BY <2>1, <2>2, <3>1 DEF Awaits
    <3>3. \A i \in DOMAIN updates' : updates'[i].by = None
      BY <2>1, <3>1
    <3>4. Len(updates') <= 1
      <4>1. Len(updates') = 1
        BY <2>1, <3>1
      <4>2. QED BY <4>1
    <3>5. \A n \in listeners' : ZonesOf(n) = {} \/ (selection' # None /\ showing'[n] = selection') \/ Awaits(n)'
      BY <1>i, <1>t, <2>2, <3>1, <3>2
    <3>6. QED BY <1>p, <1>t, <3>1, <3>3, <3>4, <3>5 DEF PickersInv, SelectionSettles
  <2>5. QED BY <2>3, <2>4
<1>4. ASSUME NEW m \in Maps, PickZone(m) PROVE PickersInv'
  <2>1. PICK z \in ZonesOf(m) : Select(z, listeners, m, <<>>)
    BY <1>4 DEF PickZone
  <2>2. z \in AllZones /\ z # None /\ listeners' = listeners
    BY <1>4, <2>1, FirstZone DEF PickZone
  <2>3. <<>> \in Seq(Updates) /\ Len(<<>>) = 0 /\ Len(<<>>) <= 1 /\ DOMAIN <<>> = {}
    OBVIOUS
  <2>4. /\ selection' = z /\ overflow' = overflow /\ Len(updates') = Len(<<>>) + 1
        /\ updates'[1].rest = listeners /\ updates'[1].shows = z /\ 1 \in DOMAIN updates'
        /\ \A i \in DOMAIN updates' : i = 1 \/ (i - 1 \in DOMAIN <<>> /\ updates'[i] = <<>>[i - 1])
    BY <1>t, <2>1, <2>2, <2>3, SelectionBegins
  <2>5. \A n \in listeners' : Awaits(n)'
    BY <2>2, <2>4 DEF Awaits
  <2>6. \A i \in DOMAIN updates' : updates'[i].shows = z
    BY <2>3, <2>4
  <2>7. Len(updates') <= 2
    BY <2>3, <2>4
  <2>8. QED BY <1>p, <1>t, <2>2, <2>4, <2>5, <2>6, <2>7 DEF PickersInv, SelectionSettles
<1>5. CASE Run
  <2>1. updates = <<>> /\ selection' = selection /\ showing' = showing /\ listeners' = listeners
        /\ overflow' = overflow
    BY <1>5 DEF Run, Quiet
  <2>2. updates' = <<>> \/ updates' = <<Telling(listeners, NoPicker, None)>>
    BY <1>5 DEF Run
  <2>3. Len(updates') <= 1 /\ \A i \in DOMAIN updates' : updates'[i].by = None
    BY <2>2 DEF Telling, NoPicker
  <2>4. \A n \in Maps : ~Awaits(n)
    BY <2>1 DEF Awaits
  <2>5. QED BY <1>p, <1>i, <1>t, <2>1, <2>3, <2>4 DEF PickersInv, SelectionSettles
<1>6. CASE RestartPickers
  <2>1. updates' = <<>> /\ listeners' = {} /\ overflow' = overflow
    BY <1>6 DEF RestartPickers, Quiet
  <2>2. QED BY <1>p, <1>t, <2>1 DEF PickersInv, SelectionSettles
<1>7. CASE UNCHANGED pickersVars
  BY <1>7, <1>p, <1>i, <1>t DEF pickersVars, pickers, PickersInv, SelectionSettles, Awaits
<1>8. CASE TellListener
  BY <1>1, <1>8 DEF TellListener
<1>9. QED BY <1>2, <1>3, <1>4, <1>5, <1>6, <1>7, <1>8 DEF PickersNext

(* Before any picker is added.                                             *)
LEMMA PickersStart == PickersInit => PickersInv
<1> SUFFICES ASSUME PickersInit PROVE PickersInv
  OBVIOUS
<1>1. /\ selection = None /\ showing = [m \in Maps |-> None] /\ listeners = {}
      /\ updates = <<>> /\ overflow = FALSE /\ picks = 0
  BY DEF PickersInit
<1>2. Consistent(updates) /\ Len(updates) = 0 /\ DOMAIN updates = {}
  BY <1>1 DEF Consistent
<1>3. 0 \in 0 .. MaxPicks
  BY PickersAssumption
<1>4. PickersTypeOK
  BY <1>1, <1>2, <1>3 DEF PickersTypeOK, Consistent
<1>5. Len(updates) <= 1
  BY <1>2
<1>6. QED BY <1>1, <1>2, <1>4, <1>5 DEF PickersInv, PickersTyped, SelectionSettles

(* Pickers and maps of any number: a picker shows a zone of its own map.   *)
THEOREM PickersAreTyped == PickersSpec => []PickersTypeOK
<1>1. PickersInit => PickersTyped
  BY PickersStart DEF PickersInv
<1>2. QED BY <1>1, PickersTypedStep, PTL DEF PickersSpec, PickersTyped

LEMMA PickersInvHolds == SameNumbers => (PickersSpec => []PickersInv)
<1> SUFFICES ASSUME SameNumbers PROVE PickersSpec => []PickersInv
  OBVIOUS
<1>1. PickersInv /\ [PickersNext]_pickersVars => PickersInv'
  BY PickersStep
<1>2. QED BY <1>1, PickersStart, PTL DEF PickersSpec

(* Where the maps have the same numbers, or only one has zones, what the   *)
(* pickers show is what the next start mows, whatever is picked, switched  *)
(* or restarted in between (_refresh, async_added_to_hass).                *)
THEOREM PickersShowWhatIsMown == SameNumbers => (PickersSpec => []ShownIsMown)
<1>1. PickersInv => ShownIsMown
  <2> SUFFICES ASSUME PickersInv, Quiet, NEW m \in listeners, ZoneIds[m] # <<>>
               PROVE  selection # None /\ showing[m] = selection
    BY DEF ShownIsMown
  <2>1. m \in Maps /\ ~Awaits(m)
    BY DEF PickersInv, PickersTyped, PickersTypeOK, Quiet, Awaits
  <2>2. ZonesOf(m) # {}
    BY <2>1, FirstZone
  <2>3. QED BY <2>1, <2>2 DEF PickersInv
<1>2. QED BY <1>1, PickersInvHolds, PTL

(* And the updates within updates come to an end, where Python's stack     *)
(* holds two of them (_refresh).                                           *)
THEOREM SelectionsSettle == SameNumbers => (PickersSpec => []SelectionSettles)
<1>1. PickersInv => SelectionSettles
  BY DEF PickersInv
<1>2. QED BY <1>1, PickersInvHolds, PTL

(* The pickers change nothing of the maps and the commands: whatever is    *)
(* shown of ActiveMap, such as GivenMapIsMown, holds with them.            *)
THEOREM PickersRunActiveMap == PickersSpec => ActiveMapSpec
<1>1. PickersInit => ActiveMapInit
  BY DEF PickersInit
<1>2. [PickersNext]_pickersVars => [ActiveMapNext]_activeMapVars
  BY DEF PickersNext, pickersVars, Run, RestartPickers, TellListener, EndUpdate, PickZone, Add, ActiveMapNext
<1>3. QED BY <1>1, <1>2, PTL DEF PickersSpec, ActiveMapSpec

-----------------------------------------------------------------------------
(***************************************************************************)
(* The controls.  OtherPartsKept needs to know what a list may hold: an    *)
(* "or" in a builder puts a default in the place of a zero, so the mower   *)
(* has to have none there.  ReadsAreTrue needs it too: a push of a list    *)
(* does not name its key, and its shape and values have to tell.           *)
(***************************************************************************)

\* The keys, by name.
LEMMA KeyNames == Keys = {"CLS", "VOL", "FDP", "STUN", "AOP", "PROT", "LANG", "PRE", "WRP", "DND", "LOW",
                          "ATA", "CMS", "MSG_ALERT", "VOICE", "BAT", "LIT", "REC"}
BY DEF Keys, Layout

\* How long the list of a key is, and that every list of the table has its length.
Length(k) == CASE k \in {"CLS", "VOL", "FDP", "STUN", "AOP", "PROT"} -> 1
               [] k \in {"LANG", "PRE", "WRP"} -> 2
               [] k \in {"DND", "LOW", "ATA"} -> 3
               [] k \in {"CMS", "MSG_ALERT", "VOICE"} -> 4
               [] k = "BAT" -> 6 [] k = "LIT" -> 8 [] k = "REC" -> 9

LEMMA Lengths == \A k \in Keys : /\ DOMAIN Layout[k] = 1 .. Length(k)
                                 /\ Len(Layout[k]) = Length(k)
                                 /\ Length(k) \in 1 .. 9
<1>1. \A k \in Keys : Length(k) \in 1 .. 9
  BY KeyNames DEF Length
<1>2. \A k \in Keys : Len(Layout[k]) = Length(k)
  <2>1. \A k \in {"CLS", "VOL", "FDP", "STUN", "AOP", "PROT"} : Len(Layout[k]) = 1 /\ Length(k) = 1
    BY DEF Length, Layout
  <2>2. \A k \in {"LANG", "PRE", "WRP"} : Len(Layout[k]) = 2 /\ Length(k) = 2
    BY DEF Length, Layout
  <2>3. \A k \in {"DND", "LOW", "ATA"} : Len(Layout[k]) = 3 /\ Length(k) = 3
    BY DEF Length, Layout
  <2>4. \A k \in {"CMS", "MSG_ALERT", "VOICE"} : Len(Layout[k]) = 4 /\ Length(k) = 4
    BY DEF Length, Layout
  <2>5. /\ Len(Layout["BAT"]) = 6 /\ Length("BAT") = 6 /\ Len(Layout["LIT"]) = 8
        /\ Length("LIT") = 8 /\ Len(Layout["REC"]) = 9 /\ Length("REC") = 9
    BY DEF Length, Layout
  <2>6. QED BY KeyNames, <2>1, <2>2, <2>3, <2>4, <2>5
<1>3. \A k \in Keys : DOMAIN Layout[k] = 1 .. Len(Layout[k])
  BY KeyNames DEF Layout
<1>4. QED BY <1>1, <1>2, <1>3

\* The positions that are shown are positions of the list.
LEMMA PartsInList == \A k \in Keys : Parts(k) \subseteq 1 .. Length(k)
BY Lengths DEF Parts

\* Each position that is shown has a field of its own.
LEMMA NamesDiffer ==
    ASSUME NEW k \in Keys, NEW l \in Keys, NEW p \in Parts(k), NEW q \in Parts(l),
           Layout[k][p] = Layout[l][q]
    PROVE  k = l /\ p = q
BY KeyNames DEF Layout, Parts

\* None of them is the field of the language code.
LEMMA NoPartIsCode ==
    ASSUME NEW k \in Keys, NEW p \in Parts(k)
    PROVE  Layout[k][p] # "language_code"
BY KeyNames DEF Layout, Parts

\* They are fields of MowerState.
LEMMA PartsAreFields ==
    ASSUME NEW k \in Keys, NEW p \in Parts(k)
    PROVE  Layout[k][p] \in Fields /\ Layout[k][p] \in FieldsOf(k)
BY DEF Fields, FieldsOf

\* So is the language code.
LEMMA CodeIsField == "language_code" \in Fields
BY KeyNames DEF Fields, FieldsOf

\* What can be set.
LEMMA WhatIsSettable ==
    /\ \A k \in Keys : Settable(k) \subseteq 1 .. Length(k)
    /\ \A k \in Keys : Settable(k) \subseteq Parts(k)
    /\ Settable("CMS") = {} /\ Settable("DND") = {1} /\ Settable("LOW") = {1}
    /\ Settable("WRP") = {1, 2} /\ Settable("BAT") = {1, 2, 4}
<1>1. /\ Settable("CMS") = {} /\ Settable("DND") = {1} /\ Settable("LOW") = {1}
      /\ Settable("WRP") = {1, 2} /\ Settable("BAT") = {1, 2, 4}
  BY KeyNames DEF Settable, Switches, Numbers, SettingSelects
<1>2. \A k \in Keys : Settable(k) \subseteq Parts(k)
  BY KeyNames DEF Settable, Switches, Numbers, SettingSelects, Parts, Layout
<1>3. QED BY <1>1, <1>2, PartsInList

\* What a position holds: as in the app, or the times a write falls back
\* to.
Holds(k, p) == Domain(k, p) \cup (IF k \in {"DND", "LOW"} /\ p > 1 THEN {480, 1200} ELSE {})

\* A list the mower may have for a key.
IsList(k, v) == /\ v = [p \in 1 .. Length(k) |-> v[p]]
                /\ \A p \in 1 .. Length(k) : v[p] \in Holds(k, p)

\* Such a list is a sequence, of the length of its key.
LEMMA ListLength ==
    ASSUME NEW k \in Keys, NEW v, IsList(k, v)
    PROVE  Len(v) = Length(k) /\ DOMAIN v = 1 .. Length(k) /\ \E S : v \in Seq(S)
<1> DEFINE S == {v[p] : p \in 1 .. Length(k)}
<1>1. Length(k) \in Nat
  BY Lengths
<1>2. v \in [1 .. Length(k) -> S]
  BY DEF IsList
<1> HIDE DEF S
<1>3. v \in Seq(S)
  BY <1>1, <1>2, SeqDef
<1>4. Len(v) = Length(k)
  BY <1>1, <1>2, <1>3
<1>5. QED BY <1>2, <1>3, <1>4

\* The values by key.
LEMMA FlagsHeld ==
    \A k \in {"ATA", "MSG_ALERT", "VOICE"} : \A p \in 1 .. Length(k) : Holds(k, p) = {0, 1}
BY DEF Holds, Domain, Flags

\* The lists of two times.
LEMMA TimesHeld ==
    \A k \in {"DND", "LOW"} : /\ Holds(k, 1) = {0, 1}
                              /\ Holds(k, 2) = Minutes \cup {480, 1200}
                              /\ Holds(k, 3) = Minutes \cup {480, 1200}
BY DEF Holds, Domain, Flags

\* The others, as far as a default or a shape depends on them.
LEMMA OthersHeld ==
    /\ Holds("WRP", 1) = {0, 1} /\ Holds("WRP", 2) = {0, 6}
    /\ Holds("BAT", 1) = {10, 15} /\ Holds("BAT", 2) = {90, 95} /\ Holds("BAT", 3) = {1}
    /\ Holds("BAT", 4) = {0, 1}
    /\ Holds("BAT", 5) = Minutes \cup {0} /\ Holds("BAT", 6) = Minutes \cup {0}
    /\ Holds("CMS", 4) = {-1} /\ Holds("LANG", 1) = {0, 7} /\ Holds("LANG", 2) = {0, 7}
BY DEF Holds, Domain, Flags

\* Every position holds numbers, and there is one to hold.
LEMMA SomethingHeld ==
    \A k \in Keys : \A p \in 1 .. Length(k) : /\ Domain(k, p) # {} /\ Domain(k, p) \subseteq Holds(k, p)
                                              /\ Holds(k, p) \subseteq Int
<1> SUFFICES ASSUME NEW k \in Keys, NEW p \in 1 .. Length(k)
             PROVE  /\ Domain(k, p) # {} /\ Domain(k, p) \subseteq Holds(k, p)
                    /\ Holds(k, p) \subseteq Int
  OBVIOUS
<1>1. Domain(k, p) \subseteq Holds(k, p)
  BY DEF Holds
<1>2. p \in 1 .. 9 /\ Length(k) \in 1 .. 9 /\ Minutes \subseteq Int
  BY Lengths, ControlsAssumption
<1>3. CASE k \in {"DND", "LOW"}
  BY <1>2, <1>3, ControlsAssumption DEF Domain, Flags, Holds
<1>4. CASE k = "BAT"
  BY <1>2, <1>4, ControlsAssumption DEF Domain, Flags, Holds
<1>5. CASE k \notin {"DND", "LOW", "BAT"}
  BY <1>2, <1>5, ControlsAssumption DEF Domain, Flags, Holds
<1>6. QED BY <1>1, <1>3, <1>4, <1>5

\* Positions that are asked for are shown, and are there.
LEMMA AskedParts ==
    ASSUME NEW k \in Keys, NEW n \in 0 .. Length(k), NEW p \in Asked(k, n)
    PROVE  p \in Parts(k) /\ p <= n
<1>1. CASE k = "REC" /\ n < 9
  <2>1. n >= 2 /\ p \in {1, 2} \cup (IF n = 8 THEN {8} ELSE {})
    BY <1>1, Lengths DEF Asked, MinLength
  <2>2. {1, 2, 8} \subseteq Parts("REC")
    BY DEF Parts, Layout
  <2>3. QED BY <1>1, <2>1, <2>2
<1>2. CASE ~(k = "REC" /\ n < 9)
  BY <1>2 DEF Asked
<1>3. QED BY <1>1, <1>2

\* Of a list that was cut or garbled only what is right is taken.
LEMMA TakenIsRight ==
    ASSUME NEW k \in Keys, NEW w, IsList(k, w), NEW v \in Answers(w), NEW p \in CfgParts(k, v)
    PROVE  p \in Parts(k) /\ v[p] = w[p]
<1>1. Len(w) = Length(k) /\ DOMAIN w = 1 .. Length(k) /\ Length(k) \in 1 .. 9
  BY ListLength, Lengths
<1>2. PICK S : w \in Seq(S)
  BY ListLength
<1>3. p \in Asked(k, Len(v)) /\ \A q \in Asked(k, Len(v)) : v[q] = Junk => p < q
  <2>1. CfgParts(k, v) \subseteq {q \in Asked(k, Len(v)) : \A r \in {r \in Asked(k, Len(v)) : v[r] = Junk} : q < r}
    BY DEF CfgParts
  <2>2. QED BY <2>1
<1>4. CASE v \in {SubSeq(w, 1, n) : n \in 0 .. Len(w)}
  <2>1. PICK n \in 0 .. Length(k) : v = SubSeq(w, 1, n)
    BY <1>1, <1>4
  <2>2. \A i \in 1 .. n : w[i] \in S
    BY <1>1, <1>2, <2>1
  <2>3. n \in Int /\ 1 \in Int
    BY <1>1
  <2>4. /\ Len(v) = IF 1 <= n THEN n - 1 + 1 ELSE 0
        /\ \A i \in 1 .. n - 1 + 1 : v[i] = w[1 + i - 1]
    BY <2>1, <2>2, <2>3, SubSeqProperties
  <2>5. Len(v) = n /\ \A i \in 1 .. n : v[i] = w[i]
    BY <2>3, <2>1, <2>4, <1>1
  <2>6. p \in Parts(k) /\ p <= n
    BY <1>3, <2>1, <2>5, AskedParts
  <2>7. p \in 1 .. n
    BY <1>1, <2>3, <2>6, PartsInList
  <2>8. QED BY <2>5, <2>6, <2>7
<1>5. CASE v \in {[w EXCEPT ![q] = Junk] : q \in DOMAIN w}
  <2>1. PICK q \in 1 .. Length(k) : v = [w EXCEPT ![q] = Junk]
    BY <1>1, <1>5
  <2>2. v \in Seq(S \cup {Junk}) /\ DOMAIN v = DOMAIN w
    <3>1. w \in [1 .. Length(k) -> S \cup {Junk}]
      BY <1>1, <1>2
    <3>2. v \in [1 .. Length(k) -> S \cup {Junk}]
      BY <2>1, <3>1
    <3>3. QED BY <1>1, <3>2, SeqDef
  <2>3. Len(v) = Length(k)
    BY <1>1, <2>2
  <2>4. Length(k) \in 0 .. Length(k)
    BY <1>1
  <2>5. p \in Parts(k)
    BY <1>3, <2>3, <2>4, AskedParts
  <2>6. p # q
    <3>1. p \in 1 .. Length(k) /\ p \in Int
      BY <2>5, PartsInList, <1>1
    <3>2. v[q] = Junk
      BY <1>1, <2>1
    <3>3. QED BY <1>3, <3>1, <3>2
  <2>7. QED BY <1>1, <2>1, <2>5, <2>6, PartsInList
<1>6. QED BY <1>4, <1>5 DEF Answers

\* An update sets the fields it names.
LEMMA UpdateAt ==
    \A fields : \A f \in Fields :
        Update(fields)[f] = IF f \in DOMAIN fields THEN fields[f] ELSE state[f]
BY DEF Update

\* What is shown of a position depends on that position.
LEMMA ShownOfPart ==
    ASSUME NEW k, NEW v, NEW w, NEW p, v[p] = w[p]
    PROVE  Shown(k, v, p) = Shown(k, w, p)
BY DEF Shown

\* A fetch brings a field of its key what the mower has there, and no other field anything.
LEMMA FetchReads ==
    ASSUME key \in Keys, IsList(key, cfg[key]), NEW v \in Answers(cfg[key]), Fetch(v),
           NEW k \in Keys, NEW p \in Parts(k), Field(k, p)' # Field(k, p)
    PROVE  k = key /\ Field(k, p)' = Shown(k, cfg[k], p)
<1> DEFINE f == Layout[k][p]
           parts == CfgParts(key, v)
           given == {g \in FieldsOf(key) : \E q \in parts : Layout[key][q] = g}
                      \cup (IF key = "LANG" /\ parts # {} THEN {"language_code"} ELSE {})
           u == [g \in given |->
                   IF g = "language_code" THEN <<v[1], v[2]>>
                   ELSE Shown(key, v, CHOOSE q \in parts : Layout[key][q] = g)]
<1>1. state' = Update(u)
  BY DEF Fetch, CfgToStateUpdates
<1>2. f \in Fields /\ f # "language_code"
  BY PartsAreFields, NoPartIsCode
<1>3. DOMAIN u = given
  OBVIOUS
<1>4. state'[f] # state[f]
  BY DEF Field
<1>5. f \in given
  <2> HIDE DEF u, given, f
  <2>1. QED BY <1>1, <1>2, <1>3, <1>4, UpdateAt
<1>6. state'[f] = Shown(key, v, CHOOSE q \in parts : Layout[key][q] = f)
  <2>1. u[f] = Shown(key, v, CHOOSE q \in parts : Layout[key][q] = f)
    BY <1>2, <1>5
  <2> HIDE DEF u, given, f, parts
  <2>2. QED BY <1>1, <1>2, <1>3, <1>5, <2>1, UpdateAt
<1>7. PICK q \in parts : Layout[key][q] = f /\ q = CHOOSE r \in parts : Layout[key][r] = f
  <2>1. \E q \in parts : Layout[key][q] = f
    <3> HIDE DEF f, parts
    <3>1. QED BY <1>2, <1>5
  <2> HIDE DEF f, parts
  <2>2. QED BY <2>1
<1>8. q \in Parts(key) /\ v[q] = cfg[key][q]
  BY TakenIsRight
<1>9. k = key /\ p = q
  <2>1. Layout[key][q] = Layout[k][p]
    BY <1>7
  <2>2. QED BY <1>8, <2>1, NamesDiffer
<1>10. Shown(key, v, q) = Shown(key, cfg[key], q)
  BY <1>8, ShownOfPart
<1>11. state'[f] = Shown(key, v, q)
  BY <1>6, <1>7
<1>12. Field(k, p)' = state'[f]
  BY DEF Field
<1> HIDE DEF f, parts
<1>13. QED BY <1>9, <1>10, <1>11, <1>12

\* No time is midnight, which a builder takes for one that was never read (MCMidnight),
\* or the minute after it, which may be a flag as well.
MidnightApart == \A m \in Minutes : m > 1

\* The keys whose changes the mower pushes.
Announced == Keys \ {"VOL", "PRE"}

\* No shape of a push stands for another key.
LEMMA SettingIsKey ==
    ASSUME MidnightApart, NEW k \in Announced, NEW v, IsList(k, v)
    PROVE  /\ PushOf(k, v).value = v
           /\ SettingOf(PushOf(k, v)) \in Keys => SettingOf(PushOf(k, v)) = k
<1>1. Len(v) = Length(k) /\ k \in Keys
  BY ListLength DEF Announced
<1>2. PushOf(k, v).value = v
  BY DEF PushOf
<1>3. CASE k = "DND"
  <2>1. PushOf(k, v).shape = "start end value"
    BY <1>3 DEF PushOf
  <2>2. QED BY <1>2, <1>3, <2>1 DEF SettingOf
<1>4. CASE k = "LANG"
  <2>1. PushOf(k, v).shape = "text voice"
    BY <1>4 DEF PushOf
  <2>2. QED BY <1>2, <1>4, <2>1 DEF SettingOf
<1>5. CASE k \in {"CLS", "FDP", "STUN", "AOP", "PROT"}
  <2>1. PushOf(k, v).shape = "value"
    BY <1>5 DEF PushOf
  <2>2. SettingOf(PushOf(k, v)) = "ambiguous"
    BY <2>1 DEF SettingOf
  <2>3. "ambiguous" \notin Keys
    BY KeyNames
  <2>4. QED BY <1>2, <2>2, <2>3
<1>6. CASE k \in {"WRP", "LOW", "ATA", "CMS", "MSG_ALERT", "VOICE", "BAT", "LIT", "REC"}
  <2>1. PushOf(k, v).shape = "list"
    BY <1>6 DEF PushOf
  <2>2. SettingOf(PushOf(k, v)) =
            CASE Len(v) = 2 -> "WRP" [] Len(v) = 3 -> Three(v)
              [] Len(v) = 4 -> Four(v) [] Len(v) = 6 -> "BAT"
              [] Len(v) = 8 -> "LIT" [] Len(v) = 9 -> "REC"
              [] OTHER -> "unknown"
    BY <1>2, <2>1 DEF SettingOf
  <2>3. \A p \in 1 .. Length(k) : v[p] \in Holds(k, p)
    BY DEF IsList
  <2>4. DOMAIN v = 1 .. Length(k)
    BY <1>1, ListLength
  <2>5. CASE k \in {"WRP", "BAT", "LIT", "REC"}
    BY <1>1, <1>2, <2>2, <2>5 DEF Length
  <2>6. CASE k = "LOW"
    <3>1. Length(k) = 3
      BY <2>6 DEF Length
    <3>2. v[2] \in Minutes \cup {480, 1200}
      BY <2>3, <2>6, <3>1, TimesHeld
    <3>3. v[2] > 1
      <4>1. CASE v[2] \in Minutes
        BY <4>1 DEF MidnightApart
      <4>2. CASE v[2] \in {480, 1200}
        BY <4>2
      <4>3. QED BY <3>2, <4>1, <4>2
    <3>4. Three(v) = "LOW"
      BY <2>4, <3>1, <3>3 DEF Three
    <3>5. QED BY <1>1, <1>2, <2>2, <2>6, <3>1, <3>4
  <2>7. CASE k = "ATA"
    <3>1. Length(k) = 3
      BY <2>7 DEF Length
    <3>2. \A p \in DOMAIN v : v[p] \in {0, 1}
      BY <2>3, <2>4, <2>7, FlagsHeld
    <3>3. Three(v) = "ATA"
      BY <3>2 DEF Three
    <3>4. QED BY <1>1, <1>2, <2>2, <2>7, <3>1, <3>3
  <2>8. CASE k = "CMS"
    <3>1. Length(k) = 4
      BY <2>8 DEF Length
    <3>2. v[4] = -1
      BY <2>3, <2>8, <3>1, OthersHeld
    <3>3. Four(v) = "CMS"
      BY <2>4, <3>1, <3>2 DEF Four
    <3>4. QED BY <1>1, <1>2, <2>2, <2>8, <3>1, <3>3
  <2>9. CASE k \in {"MSG_ALERT", "VOICE"}
    <3>1. Length(k) = 4
      BY <2>9 DEF Length
    <3>2. \A p \in DOMAIN v : v[p] \in {0, 1}
      BY <2>3, <2>4, <2>9, FlagsHeld
    <3>3. Four(v) = "ambiguous"
      BY <3>2 DEF Four
    <3>4. "ambiguous" \notin Keys
      BY KeyNames
    <3>5. QED BY <1>1, <1>2, <2>2, <3>1, <3>3, <3>4
  <2>10. QED BY <1>6, <2>5, <2>6, <2>7, <2>8, <2>9
<1>7. QED BY <1>1, <1>3, <1>4, <1>5, <1>6, KeyNames DEF Announced

\* A push brings a field of its key what the mower told, and no other field anything.
LEMMA PushReads ==
    ASSUME MidnightApart, key \in Announced, NEW v, IsList(key, v), push = PushOf(key, v), Receive,
           NEW k \in Keys, NEW p \in Parts(k), Field(k, p)' # Field(k, p)
    PROVE  k = key /\ Field(k, p)' = Shown(k, v, p)
<1> DEFINE f == Layout[k][p]
           parts == PushParts(key, v)
           given == {Layout[key][q] : q \in parts}
           u == [g \in given |-> Shown(key, v, CHOOSE q \in Parts(key) : Layout[key][q] = g)]
<1>1. f \in Fields /\ key \in Keys
  BY PartsAreFields DEF Announced
<1>2. state'[f] # state[f] /\ Field(k, p)' = state'[f]
  BY DEF Field
<1>3. state' = Update(u)
  <2>1. state' # state
    BY <1>2
  <2>2. SettingOf(push) \in Keys
    BY <2>1 DEF Receive, ApplyS2p51
  <2>3. SettingOf(push) = key /\ push.value = v
    BY <2>2, SettingIsKey
  <2>4. QED BY <1>1, <2>3 DEF Receive, ApplyS2p51
<1>4. DOMAIN u = given
  OBVIOUS
<1>5. f \in given
  <2> HIDE DEF u, given, f
  <2>1. QED BY <1>1, <1>2, <1>3, <1>4, UpdateAt
<1>6. state'[f] = Shown(key, v, CHOOSE q \in Parts(key) : Layout[key][q] = f)
  <2>1. u[f] = Shown(key, v, CHOOSE q \in Parts(key) : Layout[key][q] = f)
    BY <1>5
  <2> HIDE DEF u, given, f
  <2>2. QED BY <1>1, <1>3, <1>4, <1>5, <2>1, UpdateAt
<1>7. \E q \in Parts(key) : Layout[key][q] = f
  <2>1. parts \subseteq Parts(key)
    BY DEF PushParts
  <2> HIDE DEF f, parts
  <2>2. QED BY <1>5, <2>1
<1>8. PICK q \in Parts(key) : Layout[key][q] = f /\ q = CHOOSE r \in Parts(key) : Layout[key][r] = f
  <2> HIDE DEF f
  <2>1. QED BY <1>7
<1>9. k = key /\ p = q
  BY <1>1, <1>8, NamesDiffer
<1> HIDE DEF f
<1>10. QED BY <1>2, <1>6, <1>8, <1>9

\* The mower's lists hold what they may, MowerState what it may have read,
\* and a push is one of a list.  (Of wear MowerState has the share.)
Known(k) == k # "CMS" => \A p \in Parts(k) : Field(k, p) \in Holds(k, p) \cup {None}

ControlsInv ==
    /\ key \in Keys
    /\ DOMAIN cfg = Keys /\ \A k \in Keys : IsList(k, cfg[k])
    /\ DOMAIN state = Fields /\ \A k \in Keys : Known(k)
    /\ push # None => key \in Announced /\ \E v : IsList(key, v) /\ push = PushOf(key, v)

\* MowerState knows nothing yet, and each list is one that the app may have left.
LEMMA ControlsInitially == ControlsInit => ControlsInv
<1> SUFFICES ASSUME ControlsInit PROVE ControlsInv
  OBVIOUS
<1>1. \A k \in Keys : IsList(k, cfg[k])
  <2> SUFFICES ASSUME NEW k \in Keys PROVE IsList(k, cfg[k])
    OBVIOUS
  <2>1. cfg[k] = [p \in 1 .. Length(k) |-> CHOOSE v \in Domain(k, p) : TRUE]
    BY Lengths DEF ControlsInit
  <2>2. \A p \in 1 .. Length(k) : (CHOOSE v \in Domain(k, p) : TRUE) \in Domain(k, p)
    BY SomethingHeld
  <2>3. QED BY <2>1, <2>2, SomethingHeld DEF IsList
<1>2. \A k \in Keys : Known(k)
  BY PartsAreFields DEF ControlsInit, Known, Field
<1>3. QED BY <1>1, <1>2 DEF ControlsInit, ControlsInv

\* A read brings MowerState only what a list may hold.
LEMMA StillKnown ==
    ASSUME ControlsInv, NEW v, IsList(key, v),
           \A k \in Keys : \A p \in Parts(k) :
               Field(k, p)' # Field(k, p) => k = key /\ Field(k, p)' = Shown(key, v, p)
    PROVE  \A k \in Keys : Known(k)'
<1> SUFFICES ASSUME NEW k \in Keys, k # "CMS", NEW p \in Parts(k)
             PROVE  Field(k, p)' \in Holds(k, p) \cup {None}
  BY DEF Known
<1>1. CASE Field(k, p)' = Field(k, p)
  BY <1>1 DEF ControlsInv, Known
<1>2. CASE Field(k, p)' # Field(k, p)
  <2>1. k = key /\ Field(k, p)' = Shown(key, v, p)
    BY <1>2
  <2>2. Shown(key, v, p) = v[p]
    BY <2>1 DEF Shown
  <2>3. v[p] \in Holds(key, p)
    BY <2>1, PartsInList DEF IsList
  <2>4. QED BY <2>1, <2>2, <2>3
<1>3. QED BY <1>1, <1>2

\* The lists that hold nothing but flags are shown whole.
LEMMA FlagLists ==
    \A k \in {"ATA", "MSG_ALERT", "VOICE"} :
        Parts(k) = 1 .. Length(k) /\ DOMAIN Layout[k] = 1 .. Length(k)
<1>1. Parts("ATA") = {1, 2, 3} /\ DOMAIN Layout["ATA"] = {1, 2, 3} /\ Length("ATA") = 3
  BY DEF Parts, Layout, Length
<1>2. /\ Parts("MSG_ALERT") = {1, 2, 3, 4} /\ DOMAIN Layout["MSG_ALERT"] = {1, 2, 3, 4}
      /\ Length("MSG_ALERT") = 4
  BY DEF Parts, Layout, Length
<1>3. Parts("VOICE") = {1, 2, 3, 4} /\ DOMAIN Layout["VOICE"] = {1, 2, 3, 4} /\ Length("VOICE") = 4
  BY DEF Parts, Layout, Length
<1>4. 1 .. 3 = {1, 2, 3} /\ 1 .. 4 = {1, 2, 3, 4}
  OBVIOUS
<1>5. QED BY <1>1, <1>2, <1>3, <1>4, Zenon

\* What an "or" makes of a position that is not read, or zero.
LEMMA OrHeld ==
    ASSUME NEW S, NEW x \in S \cup {None}, NEW d \in S
    PROVE  Or(x, d) \in S
BY DEF Or

\* An "or" keeps what is not zero.
LEMMA OrIsSame ==
    ASSUME NEW x \in Int, NEW d, x = 0 => d = 0
    PROVE  Or(x, d) = x
BY ControlsAssumption DEF Or

\* What a control writes is a list of its key, whatever has been read.
LEMMA WrittenIsList ==
    ASSUME ControlsInv, NEW p \in Settable(key), NEW v \in Domain(key, p)
    PROVE  IsList(key, Written(p, v))
<1>1. /\ key \in Keys /\ p \in 1 .. Length(key) /\ p \in Parts(key) /\ v \in Holds(key, p)
      /\ IsList(key, cfg[key]) /\ key # "CMS"
  BY WhatIsSettable, SomethingHeld DEF ControlsInv
<1>2. \A q \in Parts(key) : Field(key, q) \in Holds(key, q) \cup {None}
  BY <1>1 DEF ControlsInv, Known
<1>3. CASE key \in {"DND", "LOW"}
  <2>1. p = 1 /\ Parts(key) = {1, 2, 3} /\ Length(key) = 3
    BY <1>3, WhatIsSettable DEF Parts, Layout, Length
  <2>2. Or(Field(key, 2), 1200) \in Holds(key, 2) /\ Or(Field(key, 3), 480) \in Holds(key, 3)
    <3>1. /\ 1200 \in Holds(key, 2) /\ 480 \in Holds(key, 3)
          /\ Field(key, 2) \in Holds(key, 2) \cup {None}
          /\ Field(key, 3) \in Holds(key, 3) \cup {None}
      BY <1>2, <1>3, <2>1, TimesHeld
    <3>2. QED BY <3>1, OrHeld
  <2>3. Written(p, v) = <<v, Or(Field(key, 2), 1200), Or(Field(key, 3), 480)>>
    BY <1>3 DEF Written, BuildTimes
  <2> DEFINE a == Or(Field(key, 2), 1200)
             b == Or(Field(key, 3), 480)
  <2> HIDE DEF a, b
  <2>4. Written(p, v) = <<v, a, b>> /\ a \in Holds(key, 2) /\ b \in Holds(key, 3) /\ v \in Holds(key, 1)
    BY <1>1, <2>1, <2>2, <2>3 DEF a, b
  <2>5. QED BY <2>1, <2>4 DEF IsList
<1>4. CASE key = "WRP"
  <2>1. Parts(key) = {1, 2} /\ Length(key) = 2 /\ p \in {1, 2}
    BY <1>4, WhatIsSettable DEF Parts, Layout, Length
  <2>2. Or(Field("WRP", 1), 0) \in Holds(key, 1) /\ Or(Field("WRP", 2), 0) \in Holds(key, 2)
    BY <1>2, <1>4, <2>1, OthersHeld, OrHeld
  <2>3. Written(p, v) = IF p = 1 THEN <<v, Or(Field("WRP", 2), 0)>> ELSE <<Or(Field("WRP", 1), 0), v>>
    BY <1>4 DEF Written, BuildWrp
  <2> DEFINE a == Or(Field("WRP", 1), 0)
             b == Or(Field("WRP", 2), 0)
  <2> HIDE DEF a, b
  <2>4. /\ Written(p, v) = IF p = 1 THEN <<v, b>> ELSE <<a, v>>
        /\ a \in Holds(key, 1) /\ b \in Holds(key, 2)
    BY <2>2, <2>3 DEF a, b
  <2>5. CASE p = 1
    BY <1>1, <2>1, <2>4, <2>5 DEF IsList
  <2>6. CASE p = 2
    BY <1>1, <2>1, <2>4, <2>6 DEF IsList
  <2>7. QED BY <2>1, <2>5, <2>6
<1>5. CASE key = "BAT"
  <2>1. Parts(key) = {1, 2, 4, 5, 6} /\ Length(key) = 6
    BY <1>5 DEF Parts, Layout, Length
  <2>2. Written(p, v) = [q \in 1 .. 6 |-> IF q = p THEN v ELSE IF q = 3 THEN 1
                      ELSE Or(Field("BAT", q), <<15, 95, 1, 0, 0, 0>>[q])]
    BY <1>5 DEF Written, BuildBat
  <2>3. \A q \in {1, 2, 4, 5, 6} : Or(Field("BAT", q), <<15, 95, 1, 0, 0, 0>>[q]) \in Holds("BAT", q)
    <3>1. \A q \in {1, 2, 4, 5, 6} : <<15, 95, 1, 0, 0, 0>>[q] \in Holds("BAT", q)
      BY OthersHeld
    <3>2. QED BY <1>2, <1>5, <2>1, <3>1, OrHeld
  <2>4. 1 \in Holds("BAT", 3)
    BY OthersHeld
  <2> DEFINE w == [q \in 1 .. 6 |-> IF q = p THEN v ELSE IF q = 3 THEN 1
                      ELSE Or(Field("BAT", q), <<15, 95, 1, 0, 0, 0>>[q])]
  <2>5. \A q \in 1 .. 6 : w[q] \in Holds("BAT", q)
    BY <1>1, <1>5, <2>3, <2>4
  <2>6. w = [q \in 1 .. 6 |-> w[q]]
    OBVIOUS
  <2> HIDE DEF w
  <2>7. QED BY <1>5, <2>1, <2>2, <2>5, <2>6 DEF IsList, w
<1>6. CASE key \in {"ATA", "MSG_ALERT", "VOICE"}
  <2>1. Parts(key) = 1 .. Length(key) /\ DOMAIN Layout[key] = 1 .. Length(key)
    BY <1>6, FlagLists
  <2>2. Written(p, v) = [q \in 1 .. Length(key) |-> IF q = p THEN v ELSE Or(Field(key, q), 0)]
    BY <1>6, <2>1 DEF Written, BuildFlags
  <2>3. \A q \in 1 .. Length(key) : Or(Field(key, q), 0) \in Holds(key, q)
    BY <1>2, <1>6, <2>1, FlagsHeld, OrHeld
  <2>4. QED BY <1>1, <2>2, <2>3 DEF IsList
<1>7. CASE key \notin {"DND", "LOW", "WRP", "BAT", "ATA", "MSG_ALERT", "VOICE"}
  <2>1. Written(p, v) = [cfg[key] EXCEPT ![p] = v]
    BY <1>7 DEF Written
  <2>2. DOMAIN cfg[key] = 1 .. Length(key)
    BY <1>1 DEF IsList
  <2>3. QED BY <1>1, <2>1, <2>2 DEF IsList
<1>8. QED BY <1>3, <1>4, <1>5, <1>6, <1>7

\* The optimistic update: the field of the control, and maybe the code.
LEMMA OptimisticField ==
    ASSUME ControlsInv, NEW p \in Settable(key), NEW v, Set(p, v), NEW k \in Keys, NEW q \in Parts(k)
    PROVE  Field(k, q)' = IF k = key /\ q = p THEN v ELSE Field(k, q)
<1> DEFINE f == Layout[key][p]
           g == Layout[k][q]
<1>1. key \in Keys /\ p \in Parts(key) /\ DOMAIN state = Fields
  BY WhatIsSettable DEF ControlsInv
<1>2. f \in Fields /\ g \in Fields /\ g # "language_code"
  BY <1>1, PartsAreFields, NoPartIsCode
<1>3. g = f <=> k = key /\ q = p
  BY <1>1, NamesDiffer
<1>4. state' = [state EXCEPT ![f] = v] \/ \E code : state' = [state EXCEPT ![f] = v, !["language_code"] = code]
  BY DEF Set, FieldUpdates, OwnField
<1> HIDE DEF f, g
<1>5. state'[g] = IF g = f THEN v ELSE state[g]
  BY <1>1, <1>2, <1>4
<1>6. Field(k, q)' = state'[g] /\ Field(k, q) = state[g]
  BY DEF Field, g
<1>7. QED BY <1>3, <1>5, <1>6

\* So a control keeps the invariant.
LEMMA SetKeeps ==
    ASSUME ControlsInv, NEW p \in Settable(key), NEW v \in Domain(key, p), Set(p, v)
    PROVE  ControlsInv'
<1>1. key \in Keys /\ v \in Holds(key, p) /\ p \in Parts(key)
  BY WhatIsSettable, SomethingHeld DEF ControlsInv
<1>2. \A k \in Keys : IsList(k, cfg'[k]) /\ DOMAIN cfg' = Keys
  BY <1>1, WrittenIsList DEF Set, ControlsInv
<1>3. \A k \in Keys : Known(k)'
  <2> SUFFICES ASSUME NEW k \in Keys, k # "CMS", NEW q \in Parts(k)
               PROVE  Field(k, q)' \in Holds(k, q) \cup {None}
    BY DEF Known
  <2>1. Field(k, q) \in Holds(k, q) \cup {None}
    BY DEF ControlsInv, Known
  <2>2. QED BY <1>1, <2>1, OptimisticField
<1>4. DOMAIN state' = Fields
  BY DEF Set, FieldUpdates, OwnField, ControlsInv
<1>5. key' = key /\ push' = push
  BY DEF Set
<1>6. QED BY <1>1, <1>2, <1>3, <1>4, <1>5 DEF ControlsInv

\* A change in the app, and its push.
LEMMA AppEditKeeps ==
    ASSUME ControlsInv, NEW p \in DOMAIN cfg[key], NEW v \in Domain(key, p), AppEdit(p, v)
    PROVE  ControlsInv'
<1>1. key \in Keys /\ IsList(key, cfg[key]) /\ p \in 1 .. Length(key) /\ v \in Holds(key, p)
  BY SomethingHeld DEF ControlsInv, IsList
<1>2. IsList(key, cfg'[key])
  <2>1. DOMAIN cfg[key] = 1 .. Length(key) /\ cfg'[key] = [cfg[key] EXCEPT ![p] = v]
    BY <1>1 DEF AppEdit, ControlsInv, IsList
  <2>2. QED BY <1>1, <2>1 DEF IsList
<1>3. DOMAIN cfg' = Keys /\ \A k \in Keys : IsList(k, cfg'[k])
  <2>1. \A k \in Keys : k # key => cfg'[k] = cfg[k]
    BY DEF AppEdit, ControlsInv
  <2>2. QED BY <1>2, <2>1 DEF AppEdit, ControlsInv
<1>4. push' # None => key \in Announced /\ push' = PushOf(key, cfg'[key])
  BY <1>1 DEF AppEdit, Announced
<1>5. UNCHANGED <<key, state>>
  BY DEF AppEdit
<1>6. \A k \in Keys : Known(k)'
  BY <1>5 DEF Known, Field, ControlsInv
<1>7. QED BY <1>2, <1>3, <1>4, <1>5, <1>6 DEF ControlsInv

\* Every step keeps the invariant.
LEMMA ControlsStep ==
    MidnightApart /\ ControlsInv /\ [ControlsNext]_controls => ControlsInv'
<1> SUFFICES ASSUME MidnightApart, ControlsInv, [ControlsNext]_controls PROVE ControlsInv'
  OBVIOUS
<1>1. CASE UNCHANGED controls
  BY <1>1 DEF controls, ControlsInv, Known, Field
<1>2. ASSUME NEW v \in Answers(cfg[key]), Fetch(v) PROVE ControlsInv'
  <2>1. key \in Keys /\ IsList(key, cfg[key])
    BY DEF ControlsInv
  <2>2. \A k \in Keys : \A p \in Parts(k) :
           Field(k, p)' # Field(k, p) => k = key /\ Field(k, p)' = Shown(key, cfg[key], p)
    BY <1>2, <2>1, FetchReads
  <2>3. \A k \in Keys : Known(k)'
    BY <2>1, <2>2, StillKnown
  <2>4. DOMAIN state' = Fields /\ UNCHANGED <<key, cfg, push>>
    BY <1>2 DEF Fetch, Update
  <2>5. QED BY <2>3, <2>4 DEF ControlsInv
<1>3. CASE Receive
  <2>1. PICK v : key \in Announced /\ IsList(key, v) /\ push = PushOf(key, v)
    BY <1>3 DEF Receive, ControlsInv
  <2>2. \A k \in Keys : \A p \in Parts(k) :
           Field(k, p)' # Field(k, p) => k = key /\ Field(k, p)' = Shown(key, v, p)
    BY <1>3, <2>1, PushReads
  <2>3. \A k \in Keys : Known(k)'
    BY <2>1, <2>2, StillKnown
  <2>4. DOMAIN state' = Fields /\ UNCHANGED <<key, cfg>> /\ push' = None
    BY <1>3 DEF Receive, ApplyS2p51, Update, ControlsInv
  <2>5. QED BY <2>3, <2>4 DEF ControlsInv
<1>4. ASSUME NEW p \in Settable(key), NEW v \in Domain(key, p), Set(p, v) PROVE ControlsInv'
  BY <1>4, SetKeeps
<1>5. ASSUME NEW p \in DOMAIN cfg[key], NEW v \in Domain(key, p), AppEdit(p, v) PROVE ControlsInv'
  BY <1>5, AppEditKeeps
<1>6. QED BY <1>1, <1>2, <1>3, <1>4, <1>5 DEF ControlsNext

\* A write when Home Assistant shows what the mower has.
LEMMA WhatIsShown ==
    ASSUME ControlsInv, Agrees(key), NEW q \in Parts(key), key # "CMS"
    PROVE  Field(key, q) = cfg[key][q] /\ Field(key, q) \in Holds(key, q) /\ Field(key, q) \in Int
<1>1. key \in Keys /\ q \in 1 .. Length(key)
  BY PartsInList DEF ControlsInv
<1>2. Field(key, q) = cfg[key][q]
  BY DEF Agrees, Shown
<1>3. cfg[key][q] \in Holds(key, q)
  BY <1>1 DEF ControlsInv, IsList
<1>4. QED BY <1>1, <1>2, <1>3, SomethingHeld

\* The rebuilt list differs from the old one where it was meant to.
LEMMA WrittenKeeps ==
    ASSUME MidnightApart, ControlsInv, Agrees(key), NEW p \in Settable(key), NEW v \in Domain(key, p),
           NEW q \in 1 .. Length(key)
    PROVE  Written(p, v)[q] = IF q = p THEN v ELSE cfg[key][q]
<1>1. key \in Keys /\ key # "CMS" /\ p \in 1 .. Length(key) /\ DOMAIN cfg[key] = 1 .. Length(key)
  BY WhatIsSettable DEF ControlsInv, IsList
<1>2. \A r \in Parts(key) : /\ Field(key, r) = cfg[key][r] /\ Field(key, r) \in Holds(key, r)
                            /\ Field(key, r) \in Int
  BY <1>1, WhatIsShown
<1>3. CASE key \in {"DND", "LOW"}
  <2>1. p = 1 /\ Parts(key) = {1, 2, 3} /\ Length(key) = 3
    BY <1>3, WhatIsSettable DEF Parts, Layout, Length
  <2>2. Written(p, v) = <<v, Or(Field(key, 2), 1200), Or(Field(key, 3), 480)>>
    BY <1>3 DEF Written, BuildTimes
  <2>3. Field(key, 2) \in Minutes \cup {480, 1200} /\ Field(key, 3) \in Minutes \cup {480, 1200}
    BY <1>2, <1>3, <2>1, TimesHeld
  <2>4. Field(key, 2) # 0 /\ Field(key, 3) # 0
    BY <2>3 DEF MidnightApart
  <2>5. /\ Field(key, 2) \in Int /\ Field(key, 2) = cfg[key][2]
        /\ Field(key, 3) \in Int /\ Field(key, 3) = cfg[key][3]
    BY <1>2, <2>1
  <2>6. Or(Field(key, 2), 1200) = cfg[key][2] /\ Or(Field(key, 3), 480) = cfg[key][3]
    BY <2>4, <2>5, OrIsSame
  <2>7. QED BY <2>1, <2>2, <2>6
<1>4. CASE key = "WRP"
  <2>1. Parts(key) = {1, 2} /\ Length(key) = 2 /\ p \in {1, 2}
    BY <1>4, WhatIsSettable DEF Parts, Layout, Length
  <2>2. Written(p, v) = IF p = 1 THEN <<v, Or(Field(key, 2), 0)>> ELSE <<Or(Field(key, 1), 0), v>>
    BY <1>4 DEF Written, BuildWrp
  <2>3. Or(Field(key, 1), 0) = cfg[key][1] /\ Or(Field(key, 2), 0) = cfg[key][2]
    BY <1>2, <2>1, OrIsSame
  <2>4. QED BY <2>1, <2>2, <2>3
<1>5. CASE key = "BAT"
  <2>1. Parts(key) = {1, 2, 4, 5, 6} /\ Length(key) = 6
    BY <1>5 DEF Parts, Layout, Length
  <2>2. Written(p, v)[q] = IF q = p THEN v ELSE IF q = 3 THEN 1
                           ELSE Or(Field(key, q), <<15, 95, 1, 0, 0, 0>>[q])
    BY <1>5, <2>1 DEF Written, BuildBat
  <2>3. CASE q = 3
    <3>1. cfg[key][3] \in Holds("BAT", 3)
      BY <1>1, <1>5, <2>3 DEF ControlsInv, IsList
    <3>2. QED BY <2>2, <2>3, <3>1, OthersHeld
  <2>4. CASE q \in {1, 2, 4, 5, 6}
    <3>1. Field(key, q) \in Int /\ Field(key, q) = cfg[key][q] /\ Field(key, q) \in Holds("BAT", q)
      BY <1>2, <1>5, <2>1, <2>4
    <3>2. Field(key, q) = 0 => <<15, 95, 1, 0, 0, 0>>[q] = 0
      BY <2>4, <3>1, OthersHeld
    <3>3. Or(Field(key, q), <<15, 95, 1, 0, 0, 0>>[q]) = cfg[key][q]
      BY <3>1, <3>2, OrIsSame
    <3>4. QED BY <2>2, <2>4, <3>3
  <2>5. QED BY <2>1, <2>3, <2>4
<1>6. CASE key \in {"ATA", "MSG_ALERT", "VOICE"}
  <2>1. Parts(key) = 1 .. Length(key) /\ DOMAIN Layout[key] = 1 .. Length(key)
    BY <1>6, FlagLists
  <2>2. Written(p, v)[q] = IF q = p THEN v ELSE Or(Field(key, q), 0)
    BY <1>6, <2>1 DEF Written, BuildFlags
  <2>3. Or(Field(key, q), 0) = cfg[key][q]
    BY <1>2, <2>1, OrIsSame
  <2>4. QED BY <2>2, <2>3
<1>7. CASE key \notin {"DND", "LOW", "WRP", "BAT", "ATA", "MSG_ALERT", "VOICE"}
  BY <1>1, <1>7 DEF Written
<1>8. QED BY <1>3, <1>4, <1>5, <1>6, <1>7

\* A control changes its own position and shows what it has written.
LEMMA SetIsRight ==
    ASSUME MidnightApart, ControlsInv, Agrees(key), NEW p \in Settable(key), NEW v \in Domain(key, p),
           Set(p, v)
    PROVE  /\ \A q \in DOMAIN cfg[key] : cfg'[key][q] = IF q = p THEN v ELSE cfg[key][q]
           /\ Agrees(key)'
<1>1. /\ key \in Keys /\ key # "CMS" /\ p \in Parts(key) /\ p \in 1 .. Length(key)
      /\ IsList(key, cfg[key]) /\ DOMAIN cfg[key] = 1 .. Length(key) /\ key' = key
  BY WhatIsSettable DEF ControlsInv, IsList, Set
<1>2. cfg'[key] = Written(p, v)
  BY <1>1 DEF Set, ControlsInv
<1>3. \A q \in 1 .. Length(key) : cfg'[key][q] = IF q = p THEN v ELSE cfg[key][q]
  BY <1>2, WrittenKeeps
<1>4. \A q \in Parts(key) : Field(key, q)' = Shown(key, cfg[key], q)'
  <2> SUFFICES ASSUME NEW q \in Parts(key) PROVE Field(key, q)' = Shown(key, cfg[key], q)'
    OBVIOUS
  <2>1. Field(key, q)' = IF q = p THEN v ELSE Field(key, q)
    BY <1>1, OptimisticField
  <2>2. Field(key, q) = cfg[key][q] /\ q \in 1 .. Length(key)
    BY <1>1, WhatIsShown, PartsInList
  <2>3. Shown(key, cfg[key], q)' = cfg'[key][q]
    BY <1>1 DEF Shown
  <2>4. QED BY <1>3, <2>1, <2>2, <2>3
<1>5. ASSUME key = "LANG" PROVE state'["language_code"] = cfg'[key]
  <2>1. Parts(key) = {1, 2} /\ Length(key) = 2
    BY <1>5 DEF Parts, Layout, Length
  <2>2. /\ Field(key, 1) = cfg[key][1] /\ Field(key, 1) # None
        /\ Field(key, 2) = cfg[key][2] /\ Field(key, 2) # None
    BY <1>1, <2>1, WhatIsShown, ControlsAssumption
  <2>3. IsList(key, Written(p, v))
    BY WrittenIsList
  <2>4. cfg'[key] = <<cfg'[key][1], cfg'[key][2]>>
    BY <1>2, <2>1, <2>3 DEF IsList
  <2>5. /\ cfg'[key][1] = IF 1 = p THEN v ELSE Field(key, 1)
        /\ cfg'[key][2] = IF 2 = p THEN v ELSE Field(key, 2)
    BY <1>3, <2>1, <2>2
  <2>6. state'["language_code"] = <<IF 1 = p THEN v ELSE Field(key, 1), IF 2 = p THEN v ELSE Field(key, 2)>>
    <3>1. "language_code" \in DOMAIN state
      BY CodeIsField DEF ControlsInv
    <3>2. "language_code" \in DOMAIN OwnField(p, v)
      BY <3>1 DEF OwnField
    <3>3. QED BY <1>5, <2>2, <3>2 DEF Set, FieldUpdates
  <2>7. QED BY <2>4, <2>5, <2>6
<1>6. QED BY <1>1, <1>3, <1>4, <1>5 DEF Agrees

\* A control that knows what the mower has changes its own position and nothing
\* else, and its key is then shown as it is: for every key, every value and any
\* number of edits, as long as no time is midnight or a minute past (the builders
\* of switch_global.py, number.py and select_global.py).
THEOREM SafeToReconstruct ==
    ASSUME MidnightApart
    PROVE  ControlsSpec => OtherPartsKept
<1>1. ControlsInv /\ [ControlsNext]_controls =>
         [ edits' # edits /\ Agrees(key) =>
            \A p \in Settable(key) : \A v \in Domain(key, p) : Set(p, v) =>
                /\ \A q \in DOMAIN cfg[key] : cfg'[key][q] = IF q = p THEN v ELSE cfg[key][q]
                /\ Agrees(key)' ]_controls
  BY SetIsRight
<1>2. ControlsInv /\ [ControlsNext]_controls => ControlsInv'
  BY ControlsStep
<1>3. QED BY <1>1, <1>2, ControlsInitially, PTL DEF ControlsSpec, OtherPartsKept

\* A field changes with a fetch only to what the mower has, and with a push only
\* to what it told of that key: for every cut or garbled answer and every shape
\* of push, as long as no time is midnight or a minute past
\* (cfg_to_state_updates, _apply_s2p51_settings).
THEOREM ReadsAreOfMower ==
    ASSUME MidnightApart
    PROVE  ControlsSpec => ReadsAreTrue
<1>1. ASSUME ControlsInv, ControlsNext, reads' # reads, NEW k \in Keys, NEW p \in Parts(k),
             Field(k, p)' # Field(k, p)
      PROVE  Field(k, p)' = Shown(k, cfg[k], p)
  <2>1. PICK v \in Answers(cfg[key]) : Fetch(v)
    BY <1>1 DEF ControlsNext, Receive, Set, AppEdit
  <2>2. key \in Keys /\ IsList(key, cfg[key])
    BY <1>1 DEF ControlsInv
  <2>3. QED BY <1>1, <2>1, <2>2, FetchReads
<1>2. ASSUME ControlsInv, ControlsNext, push # None, push' = None, NEW k \in Keys, NEW p \in Parts(k),
             Field(k, p)' # Field(k, p)
      PROVE  k = key /\ Field(k, p)' = Shown(k, push.value, p)
  <2>1. Receive
    BY <1>2 DEF ControlsNext, Fetch, Set, AppEdit
  <2>2. PICK v : key \in Announced /\ IsList(key, v) /\ push = PushOf(key, v)
    BY <1>2 DEF ControlsInv
  <2>3. push.value = v
    BY <2>2, SettingIsKey
  <2>4. QED BY <1>2, <2>1, <2>2, <2>3, PushReads
<1>3. ControlsInv /\ [ControlsNext]_controls => [FetchIsTrue /\ PushIsTrue]_controls
  BY <1>1, <1>2 DEF FetchIsTrue, PushIsTrue
<1>4. ControlsInv /\ [ControlsNext]_controls => ControlsInv'
  BY ControlsStep
<1>5. QED BY <1>3, <1>4, ControlsInitially, PTL DEF ControlsSpec, ReadsAreTrue

-----------------------------------------------------------------------------
(***************************************************************************)
(* The settings of a map.  That a toggle changes its own bit only needs    *)
(* three bits in what it read, and that it read them from a map that is.   *)
(***************************************************************************)

\* The field that holds the three bits, and all the fields of a map.
AI == "obstacleAvoidanceAi"
Cells == MapFields \cup {AI}

\* The fields, by name.
LEMMA FieldNames ==
    /\ DOMAIN MapNumbers = {"mowingHeight", "cutterPosition", "cutterPositionHeight",
                            "edgeMowingNum", "obstacleAvoidanceHeight",
                            "obstacleAvoidanceDistance", "obstacleAvoidanceSensitivity"}
    /\ DOMAIN MapSelects = {"mowingDirection", "mowingDirectionMode", "edgeMowingWalkMode"}
    /\ AI \notin MapFields
<1>1. DOMAIN MapNumbers = {"mowingHeight", "cutterPosition", "cutterPositionHeight",
                            "edgeMowingNum", "obstacleAvoidanceHeight",
                            "obstacleAvoidanceDistance", "obstacleAvoidanceSensitivity"}
  BY DEF MapNumbers
<1>2. DOMAIN MapSelects = {"mowingDirection", "mowingDirectionMode", "edgeMowingWalkMode"}
  BY DEF MapSelects
<1>3. QED BY <1>1, <1>2 DEF MapFields, MapSwitches, AI

\* The numbers are integers.
LEMMA NumbersAreIntegers == \A f \in DOMAIN MapNumbers : MapNumbers[f] \subseteq Int
BY DEF MapNumbers

\* The options of a select are a list.
LEMMA SelectsAreLists ==
    \A f \in DOMAIN MapSelects : /\ Len(MapSelects[f]) \in Nat
                                 /\ DOMAIN MapSelects[f] = 1 .. Len(MapSelects[f])
<1>1. /\ MapSelects.mowingDirection = <<"0", "90", "180", "270">>
      /\ MapSelects.mowingDirectionMode = <<"Striped", "Crisscross", "Chequerboard">>
      /\ MapSelects.edgeMowingWalkMode = <<"walk_0", "walk_1">>
  BY DEF MapSelects
<1>2. QED BY <1>1, FieldNames

\* The place of an option.
LEMMA IndexIsPlace ==
    ASSUME NEW f \in DOMAIN MapSelects, NEW option \in ToSet(MapSelects[f])
    PROVE  /\ Index(f, option) \in 1 .. Len(MapSelects[f])
           /\ MapSelects[f][Index(f, option)] = option
<1>1. PICK i \in DOMAIN MapSelects[f] : MapSelects[f][i] = option
  BY DEF ToSet
<1>2. Index(f, option) \in DOMAIN MapSelects[f] /\ MapSelects[f][Index(f, option)] = option
  BY <1>1 DEF Index
<1>3. QED BY <1>2, SelectsAreLists

\* What is sent for an option is shown as that option.
LEMMA OptionsReturn ==
    ASSUME NEW f \in MapFields, NEW option \in Options(f)
    PROVE  Decode(f, Encode(f, option)) = option
<1>1. CASE f \in DOMAIN MapNumbers
  <2>1. f \notin MapSwitches /\ f # "mowingDirection" /\ option \in Int
    BY <1>1, FieldNames, NumbersAreIntegers DEF Options, MapSwitches
  <2>2. Encode(f, option) = option
    BY <1>1, <2>1 DEF Encode
  <2>3. QED BY <1>1, <2>1, <2>2, MapSettingsAssumption DEF Decode
<1>2. CASE f \in MapSwitches
  <2>1. f \notin DOMAIN MapNumbers /\ f # "mowingDirection" /\ option \in BOOLEAN
    BY <1>2, FieldNames DEF MapSwitches, Options
  <2>2. CASE option = TRUE
    <3>1. Encode(f, option) = 1
      BY <1>2, <2>1, <2>2 DEF Encode
    <3>2. Decode(f, 1) = (1 # 0)
      BY <1>2, <2>1, MapSettingsAssumption DEF Decode
    <3>3. (1 # 0) = TRUE
      OBVIOUS
    <3>4. QED BY <2>2, <3>1, <3>2, <3>3
  <2>3. CASE option = FALSE
    <3>1. Encode(f, option) = 0
      BY <1>2, <2>1, <2>3 DEF Encode
    <3>2. QED BY <1>2, <2>1, <2>3, <3>1, MapSettingsAssumption DEF Decode
  <2>4. QED BY <2>1, <2>2, <2>3
<1>3. CASE f \in DOMAIN MapSelects
  <2>1. f \notin DOMAIN MapNumbers /\ f \notin MapSwitches
    BY <1>3, FieldNames DEF MapSwitches
  <2>2. option \in ToSet(MapSelects[f])
    BY <2>1 DEF Options
  <2> DEFINE n == Len(MapSelects[f])
             i == Index(f, option)
  <2>3. n \in Nat /\ i \in 1 .. n /\ MapSelects[f][i] = option
    BY <1>3, <2>2, IndexIsPlace, SelectsAreLists
  <2>4. Encode(f, option) = IF f = "mowingDirection" THEN (i - 1) * 90 ELSE i - 1
    BY <2>1 DEF Encode
  <2>5. \A v : v # None => Decode(f, v) =
            LET place == IF f = "mowingDirection" THEN v \div 90 ELSE v
            IN  IF place \in 0 .. n - 1 THEN MapSelects[f][place + 1]
                ELSE IF f = "mowingDirection" /\ place \in -n .. -1 THEN MapSelects[f][n + place + 1]
                ELSE None
    BY <2>1 DEF Decode
  <2> HIDE DEF i, n
  <2>6. (i - 1) * 90 \in Int /\ i - 1 \in 0 .. n - 1 /\ ((i - 1) * 90) \div 90 = i - 1 /\ (i - 1) + 1 = i
    BY <2>3
  <2>7. QED BY <2>3, <2>4, <2>5, <2>6, MapSettingsAssumption
<1>4. QED BY <1>1, <1>2, <1>3 DEF MapFields

\* Three bits, by the numbers that have them.
LEMMA BitsOf ==
    ASSUME NEW v \in 0 .. 7
    PROVE  /\ Has(v, 1) <=> v \in {1, 3, 5, 7}
           /\ Has(v, 2) <=> v \in {2, 3, 6, 7}
           /\ Has(v, 4) <=> v \in {4, 5, 6, 7}
<1>1. v \in {0, 1, 2, 3, 4, 5, 6, 7}
  OBVIOUS
<1>2. Has(v, 1) <=> v \in {1, 3, 5, 7}
  BY <1>1 DEF Has
<1>3. Has(v, 2) <=> v \in {2, 3, 6, 7}
  BY <1>1 DEF Has
<1>4. Has(v, 4) <=> v \in {4, 5, 6, 7}
  BY <1>1 DEF Has
<1>5. QED BY <1>2, <1>3, <1>4

\* A bit is set, and the others stay.
LEMMA BitUp ==
    ASSUME NEW v \in 0 .. 7, NEW bit \in AiBits
    PROVE  /\ With(v, bit, TRUE) \in 0 .. 7
           /\ \A other \in AiBits :
                 Has(With(v, bit, TRUE), other) <=> other = bit \/ Has(v, other)
<1>1. With(v, bit, TRUE) = IF Has(v, bit) THEN v ELSE v + bit
  <2>1. Has(v, bit) \in BOOLEAN
    BY DEF Has
  <2>2. CASE Has(v, bit)
    BY Zenon, <2>1, <2>2 DEF With
  <2>3. CASE ~Has(v, bit)
    BY Zenon, <2>1, <2>3 DEF With
  <2>4. QED BY <2>2, <2>3
<1>2. CASE bit = 1
  <2>1. PICK w : w = With(v, bit, TRUE)
    OBVIOUS
  <2>2. w = IF Has(v, 1) THEN v ELSE v + 1
    BY Zenon, <1>1, <1>2, <2>1
  <2>3. w \in {0, 1, 2, 3, 4, 5, 6, 7}
    BY <2>2, BitsOf
  <2>4. \A other \in {1, 2, 4} : Has(w, other) <=> other = 1 \/ Has(v, other)
    BY <2>2, <2>3, BitsOf
  <2>5. w \in 0 .. 7
    BY <2>3
  <2>6. QED BY Zenon, <1>2, <2>1, <2>4, <2>5 DEF AiBits
<1>3. CASE bit = 2
  <2>1. PICK w : w = With(v, bit, TRUE)
    OBVIOUS
  <2>2. w = IF Has(v, 2) THEN v ELSE v + 2
    BY Zenon, <1>1, <1>3, <2>1
  <2>3. w \in {0, 1, 2, 3, 4, 5, 6, 7}
    BY <2>2, BitsOf
  <2>4. \A other \in {1, 2, 4} : Has(w, other) <=> other = 2 \/ Has(v, other)
    BY <2>2, <2>3, BitsOf
  <2>5. w \in 0 .. 7
    BY <2>3
  <2>6. QED BY Zenon, <1>3, <2>1, <2>4, <2>5 DEF AiBits
<1>4. CASE bit = 4
  <2>1. PICK w : w = With(v, bit, TRUE)
    OBVIOUS
  <2>2. w = IF Has(v, 4) THEN v ELSE v + 4
    BY Zenon, <1>1, <1>4, <2>1
  <2>3. w \in {0, 1, 2, 3, 4, 5, 6, 7}
    BY <2>2, BitsOf
  <2>4. \A other \in {1, 2, 4} : Has(w, other) <=> other = 4 \/ Has(v, other)
    BY <2>2, <2>3, BitsOf
  <2>5. w \in 0 .. 7
    BY <2>3
  <2>6. QED BY Zenon, <1>4, <2>1, <2>4, <2>5 DEF AiBits
<1>5. QED BY <1>2, <1>3, <1>4 DEF AiBits

\* A bit is cleared, and the others stay.
LEMMA BitDown ==
    ASSUME NEW v \in 0 .. 7, NEW bit \in AiBits
    PROVE  /\ With(v, bit, FALSE) \in 0 .. 7
           /\ \A other \in AiBits :
                 Has(With(v, bit, FALSE), other) <=> other # bit /\ Has(v, other)
<1>1. With(v, bit, FALSE) = IF Has(v, bit) THEN v - bit ELSE v
  <2>1. Has(v, bit) \in BOOLEAN
    BY DEF Has
  <2>2. CASE Has(v, bit)
    BY Zenon, <2>1, <2>2 DEF With
  <2>3. CASE ~Has(v, bit)
    BY Zenon, <2>1, <2>3 DEF With
  <2>4. QED BY <2>2, <2>3
<1>2. CASE bit = 1
  <2>1. PICK w : w = With(v, bit, FALSE)
    OBVIOUS
  <2>2. w = IF Has(v, 1) THEN v - 1 ELSE v
    BY Zenon, <1>1, <1>2, <2>1
  <2>3. w \in {0, 1, 2, 3, 4, 5, 6, 7}
    BY <2>2, BitsOf
  <2>4. \A other \in {1, 2, 4} : Has(w, other) <=> other # 1 /\ Has(v, other)
    BY <2>2, <2>3, BitsOf
  <2>5. w \in 0 .. 7
    BY <2>3
  <2>6. QED BY Zenon, <1>2, <2>1, <2>4, <2>5 DEF AiBits
<1>3. CASE bit = 2
  <2>1. PICK w : w = With(v, bit, FALSE)
    OBVIOUS
  <2>2. w = IF Has(v, 2) THEN v - 2 ELSE v
    BY Zenon, <1>1, <1>3, <2>1
  <2>3. w \in {0, 1, 2, 3, 4, 5, 6, 7}
    BY <2>2, BitsOf
  <2>4. \A other \in {1, 2, 4} : Has(w, other) <=> other # 2 /\ Has(v, other)
    BY <2>2, <2>3, BitsOf
  <2>5. w \in 0 .. 7
    BY <2>3
  <2>6. QED BY Zenon, <1>3, <2>1, <2>4, <2>5 DEF AiBits
<1>4. CASE bit = 4
  <2>1. PICK w : w = With(v, bit, FALSE)
    OBVIOUS
  <2>2. w = IF Has(v, 4) THEN v - 4 ELSE v
    BY Zenon, <1>1, <1>4, <2>1
  <2>3. w \in {0, 1, 2, 3, 4, 5, 6, 7}
    BY <2>2, BitsOf
  <2>4. \A other \in {1, 2, 4} : Has(w, other) <=> other # 4 /\ Has(v, other)
    BY <2>2, <2>3, BitsOf
  <2>5. w \in 0 .. 7
    BY <2>3
  <2>6. QED BY Zenon, <1>4, <2>1, <2>4, <2>5 DEF AiBits
<1>5. QED BY <1>2, <1>3, <1>4 DEF AiBits

\* What a toggle writes differs in its own bit.
LEMMA OneBitChanges ==
    ASSUME NEW v \in 0 .. 7, NEW bit \in AiBits, NEW on \in BOOLEAN
    PROVE  /\ With(v, bit, on) \in 0 .. 7
           /\ \A other \in AiBits :
                 Has(With(v, bit, on), other) <=> IF other = bit THEN on ELSE Has(v, other)
<1>1. CASE on = TRUE
  BY <1>1, BitUp
<1>2. CASE on = FALSE
  BY <1>2, BitDown
<1>3. QED BY <1>1, <1>2

\* The bits are three in the blob and, once read, in cloud_state; and what a
\* coroutine is about to write is one bit away from what it read.
Bits(b, more) == /\ DOMAIN b = MapIds
                 /\ \A m \in MapIds : /\ DOMAIN b[m] = Cells
                                    /\ b[m][AI] \in 0 .. 7 \cup more

OneBitAway(w) == /\ w.map \in MapIds /\ w.bit \in AiBits /\ w.on \in BOOLEAN
                 /\ w.old \in 0 .. 7 /\ w.value = With(w.old, w.bit, w.on)

BitsInv == /\ Bits(blob, {}) /\ Bits(shown, {None})
           /\ DOMAIN toggle = Toggles
           /\ \A t \in Toggles : toggle[t] # None => OneBitAway(toggle[t])

\* Nothing is read yet, and no toggle is under way.
LEMMA BitsInitially == MapSettingsInit => BitsInv
<1> SUFFICES ASSUME MapSettingsInit PROVE BitsInv
  OBVIOUS
<1>1. AI \notin DOMAIN MapNumbers
  BY FieldNames DEF MapFields
<1>2. Bits(blob, {})
  BY <1>1 DEF MapSettingsInit, Bits, Cells, AI
<1>3. Bits(shown, {None})
  BY <1>2 DEF MapSettingsInit, Bits, Cells
<1>4. QED BY <1>2, <1>3 DEF MapSettingsInit, BitsInv

\* Setting one field of one map keeps the shape of the blob.
LEMMA CellIsSet ==
    ASSUME Bits(blob, {}), NEW m \in MapIds, NEW f \in Cells, NEW v,
           f = AI => v \in 0 .. 7, blob' = [blob EXCEPT ![m][f] = v]
    PROVE  Bits(blob', {})
BY DEF Bits

\* Every step keeps the invariant.
LEMMA BitsStep == BitsInv /\ [MapSettingsNext]_mapSettings => BitsInv'
<1> SUFFICES ASSUME BitsInv, [MapSettingsNext]_mapSettings PROVE BitsInv'
  OBVIOUS
<1>1. CASE UNCHANGED mapSettings
  BY <1>1 DEF mapSettings, BitsInv, Bits
<1>2. ASSUME Bits(blob', {}), Refreshed PROVE Bits(shown', {None})
  BY <1>2 DEF Bits, Refreshed
<1>3. CASE RefreshCloudState
  BY <1>2, <1>3 DEF RefreshCloudState, BitsInv, Bits
<1>4. ASSUME NEW m \in MapIds, NEW f \in MapFields, NEW option \in Options(f), Choose(m, f, option)
      PROVE  BitsInv'
  <2>1. Bits(blob', {})
    BY <1>4, CellIsSet, FieldNames DEF Choose, BitsInv, Cells
  <2>2. QED BY <1>2, <1>4, <2>1 DEF Choose, BitsInv
<1>5. ASSUME NEW t \in Toggles, NEW m \in MapIds, NEW bit \in AiBits, NEW on \in BOOLEAN,
             Toggle(t, m, bit, on)
      PROVE  BitsInv'
  <2>1. UNCHANGED <<blob, shown>>
    BY <1>5 DEF Toggle
  <2>2. PICK w : /\ toggle' = [toggle EXCEPT ![t] = w]
                 /\ w = [map |-> m, bit |-> bit, on |-> on, old |-> shown[m][AI],
                         value |-> With(shown[m][AI], bit, on)]
                 /\ shown[m][AI] # None
    BY <1>5 DEF Toggle, AI
  <2>3. OneBitAway(w)
    BY <2>2 DEF BitsInv, Bits, OneBitAway
  <2>4. QED BY <2>1, <2>2, <2>3 DEF BitsInv, Bits
<1>6. ASSUME NEW t \in Toggles, ToggleLands(t)
      PROVE  BitsInv'
  <2>1. OneBitAway(toggle[t]) /\ toggle[t].value \in 0 .. 7
    BY <1>6, OneBitChanges DEF ToggleLands, BitsInv, OneBitAway
  <2>2. blob' = [blob EXCEPT ![toggle[t].map][AI] = toggle[t].value]
    BY <1>6 DEF ToggleLands, AI
  <2>3. Bits(blob', {})
    BY <2>1, <2>2, CellIsSet DEF BitsInv, OneBitAway, Cells
  <2>4. toggle' = [toggle EXCEPT ![t] = None] /\ Refreshed
    BY <1>6 DEF ToggleLands
  <2>5. QED BY <1>2, <2>3, <2>4 DEF BitsInv
<1>7. ASSUME NEW m \in MapIds, NEW f \in Cells, NEW v, f = AI => v \in 0 .. 7, AppSets(m, f, v)
      PROVE  BitsInv'
  <2>1. Bits(blob', {}) /\ UNCHANGED <<shown, toggle>>
    BY <1>7, CellIsSet DEF AppSets, BitsInv
  <2>2. QED BY <2>1 DEF BitsInv, Bits
<1>8. ASSUME NEW m \in MapIds, NEW f \in MapFields, NEW v \in Values(f), AppSets(m, f, v)
      PROVE  BitsInv'
  BY <1>7, <1>8, FieldNames DEF Cells
<1>9. ASSUME NEW m \in MapIds, NEW v \in 0 .. 7, AppSets(m, "obstacleAvoidanceAi", v)
      PROVE  BitsInv'
  BY <1>7, <1>9 DEF Cells, AI
<1>10. ASSUME NEW m \in MapIds, SwitchMap(m) PROVE BitsInv'
  BY <1>10 DEF SwitchMap, BitsInv, Bits
<1>11. QED BY <1>1, <1>3, <1>4, <1>5, <1>6, <1>8, <1>9, <1>10 DEF MapSettingsNext

\* The option shown is the one chosen.
LEMMA OptionIsShown ==
    ASSUME BitsInv, NEW m \in MapIds, NEW f \in MapFields, NEW option \in Options(f),
           Choose(m, f, option)
    PROVE  Decode(f, shown'[m][f]) = option
<1>1. blob'[m][f] = Encode(f, option)
  BY DEF Choose, BitsInv, Bits, Cells
<1>2. shown' = blob'
  BY DEF Choose, Refreshed
<1>3. QED BY <1>1, <1>2, OptionsReturn

\* The bit that is toggled, and no other.
LEMMA BitIsShown ==
    ASSUME BitsInv, NEW t \in Toggles, ToggleLands(t),
           toggle[t].old = blob[toggle[t].map].obstacleAvoidanceAi, NEW bit \in AiBits
    PROVE  Has(shown'[toggle[t].map].obstacleAvoidanceAi, bit)
             = IF bit = toggle[t].bit THEN toggle[t].on
               ELSE Has(blob[toggle[t].map].obstacleAvoidanceAi, bit)
<1> DEFINE w == toggle[t]
           was == blob[w.map].obstacleAvoidanceAi
           is == shown'[w.map].obstacleAvoidanceAi
<1>1. OneBitAway(w) /\ w.old = was
  BY DEF ToggleLands, BitsInv
<1>2. is = w.value
  <2>1. shown' = [blob EXCEPT ![w.map].obstacleAvoidanceAi = w.value]
    BY DEF ToggleLands, Refreshed
  <2>2. DOMAIN blob = MapIds /\ w.map \in MapIds /\ DOMAIN blob[w.map] = Cells
    BY <1>1 DEF OneBitAway, BitsInv, Bits
  <2> HIDE DEF w
  <2>3. QED BY <2>1, <2>2 DEF Cells, AI
<1>3. /\ w.old \in 0 .. 7 /\ w.bit \in AiBits /\ w.on \in BOOLEAN
      /\ w.value = With(w.old, w.bit, w.on)
  BY <1>1 DEF OneBitAway
<1> HIDE DEF w, was, is
<1>4. Has(is, bit) <=> IF bit = w.bit THEN w.on ELSE Has(was, bit)
  BY <1>1, <1>2, <1>3, OneBitChanges
<1>5. Has(is, bit) \in BOOLEAN /\ Has(was, bit) \in BOOLEAN /\ w.on \in BOOLEAN
  BY <1>3 DEF Has
<1>6. Has(is, bit) = IF bit = w.bit THEN w.on ELSE Has(was, bit)
  BY <1>4, <1>5
<1>7. QED BY <1>6 DEF w, was, is

\* What is chosen is what is shown when the write has ended, for any maps, any
\* number of toggles under way and whatever the app changes meanwhile (_toggle,
\* async_select_option, async_set_native_value).
THEOREM ChosenReturns == MapSettingsSpec => ChosenIsShown
<1>1. BitsInv /\ [MapSettingsNext]_mapSettings =>
        [ /\ changes' # changes =>
              \A m \in MapIds, f \in MapFields : \A option \in Options(f) :
                  blob'[m][f] = Encode(f, option) /\ Choose(m, f, option) =>
                      Decode(f, shown'[m][f]) = option
          /\ \A t \in Toggles :
              ToggleLands(t) /\ toggle[t].old = blob[toggle[t].map].obstacleAvoidanceAi =>
                  \A bit \in AiBits :
                      Has(shown'[toggle[t].map].obstacleAvoidanceAi, bit)
                        = IF bit = toggle[t].bit THEN toggle[t].on
                          ELSE Has(blob[toggle[t].map].obstacleAvoidanceAi, bit) ]_mapSettings
  BY OptionIsShown, BitIsShown
<1>2. QED BY <1>1, BitsInitially, BitsStep, PTL DEF MapSettingsSpec, ChosenIsShown

-----------------------------------------------------------------------------
(***************************************************************************)
(* The frames.  They are sequences of bytes, of which the parser takes     *)
(* some at fixed places: first what it finds there, then what becomes of it.*)
(***************************************************************************)

\* The powers that the fields of a frame are cut with.
LEMMA Powers == /\ 256 ^ 0 = 1 /\ 256 ^ 1 = 256 /\ 256 ^ 2 = 65536
                /\ 2 ^ 20 = 1048576 /\ 2 ^ (20 - 1) = 524288 /\ 2 ^ 8 = 256 /\ 2 ^ (8 - 1) = 128
BY SMT

\* Three bytes give back a number of 24 bits, two its low 16 bits.
LEMMA BytesOf ==
    ASSUME NEW n \in Unsigned24
    PROVE  /\ Byte(n, 0) \in Nat /\ Byte(n, 1) \in Nat /\ Byte(n, 2) \in Nat
           /\ Byte(n, 0) + 256 * Byte(n, 1) + 65536 * Byte(n, 2) = n
           /\ Byte(n, 0) + 256 * Byte(n, 1) = (n % 65536)
<1> n \in Nat /\ n < 16777216
  BY DEF Unsigned24
<1>1. Byte(n, 0) = (n \div 1) % 256 /\ Byte(n, 1) = (n \div 256) % 256 /\ Byte(n, 2) = (n \div 65536) % 256
  BY Powers, SMT DEF Byte
<1>2. n \div 1 = n
  BY SMT
<1>3. /\ Byte(n, 0) = (n % 256) /\ Byte(n, 0) \in Nat /\ Byte(n, 1) \in Nat /\ Byte(n, 2) \in Nat
  BY <1>1, <1>2, SMT
<1>4. n \div 65536 < 256 /\ n \div 65536 \in Nat
  BY SMT
<1>5. Byte(n, 2) = n \div 65536
  BY <1>1, <1>4, SMT
<1>6. (n % 256) + 256 * ((n \div 256) % 256) = (n % 65536)
  BY SMT
<1>7. Byte(n, 0) + 256 * Byte(n, 1) = (n % 65536)
  BY <1>1, <1>3, <1>6, SMT
<1>8. (n % 65536) + 65536 * (n \div 65536) = n
  BY SMT
<1>9. QED BY <1>3, <1>5, <1>7, <1>8, SMT

\* The two's complement of 20 bits gives back the number.
LEMMA SignedBack ==
    ASSUME NEW n \in Signed20
    PROVE  Unsigned20(n) \in Nat /\ Unsigned20(n) < 1048576 /\ Signed(Unsigned20(n), 20) = n
<1>1. Signed(Unsigned20(n), 20) = IF Unsigned20(n) >= 524288 THEN Unsigned20(n) - 1048576 ELSE Unsigned20(n)
  BY Powers, SMT DEF Signed
<1>2. QED BY <1>1, SMT DEF Unsigned20, Signed20

\* Five bytes give back a pose, though its numbers share the third.
LEMMA PoseBack ==
    ASSUME NEW p \in [x : Signed20, y : Signed20], NEW data,
           \A i \in 1 .. 5 : data[i + 1] = PoseBytes(p)[i]
    PROVE  DecodePose(data) = p
<1> DEFINE x == Unsigned20(p.x)
           y == Unsigned20(p.y)
<1>1. /\ x \in Nat /\ x < 1048576 /\ y \in Nat /\ y < 1048576
      /\ Signed(x, 20) = p.x /\ Signed(y, 20) = p.y
  BY SignedBack, SMT
<1>2. PoseBytes(p) = <<Byte(x, 0), Byte(x, 1), Byte(x, 2) + 16 * (y % 16), (y \div 16) % 256, y \div 4096>>
  BY DEF PoseBytes
<1> HIDE DEF x, y
<1>3. /\ At(data, 1) = Byte(x, 0) /\ At(data, 2) = Byte(x, 1) /\ At(data, 3) = Byte(x, 2) + 16 * (y % 16)
      /\ At(data, 4) = (y \div 16) % 256 /\ At(data, 5) = y \div 4096
  BY <1>2, SMT DEF At
<1>4. /\ Byte(x, 0) \in Int /\ Byte(x, 1) \in Int /\ Byte(x, 2) \in Nat /\ Byte(x, 2) < 16
      /\ Byte(x, 2) * 65536 + Byte(x, 1) * 256 + Byte(x, 0) = x
  <2>1. x \in Unsigned24
    BY <1>1, SMT DEF Unsigned24
  <2>2. /\ Byte(x, 0) \in Nat /\ Byte(x, 1) \in Nat /\ Byte(x, 2) \in Nat
        /\ Byte(x, 0) + 256 * Byte(x, 1) + 65536 * Byte(x, 2) = x
    BY <1>1, <2>1, BytesOf
  <2>3. QED BY <1>1, <2>2, SMT
<1>5. /\ (Byte(x, 2) + 16 * (y % 16)) % 16 = Byte(x, 2)
      /\ (Byte(x, 2) + 16 * (y % 16)) \div 16 = (y % 16)
  BY <1>1, <1>4, SMT
<1>6. (y \div 4096) * 4096 + ((y \div 16) % 256) * 16 + (y % 16) = y
  BY <1>1, SMT
<1>7. DecodePose(data) = [x |-> Signed(x, 20), y |-> Signed(y, 20)]
  BY <1>3, <1>4, <1>5, <1>6, SMT DEF DecodePose
<1>8. QED BY <1>1, <1>7, SMT

\* Bytes appended to bytes.
LEMMA Appended ==
    \A s, t \in Seq(Int) :
        /\ s \o t \in Seq(Int) /\ Len(s \o t) = Len(s) + Len(t)
        /\ \A i \in 1 .. Len(s) : (s \o t)[i] = s[i]
        /\ \A i \in 1 .. Len(t) : (s \o t)[Len(s) + i] = t[i]
<1> SUFFICES ASSUME NEW s \in Seq(Int), NEW t \in Seq(Int)
             PROVE  /\ s \o t \in Seq(Int) /\ Len(s \o t) = Len(s) + Len(t)
                    /\ \A i \in 1 .. Len(s) : (s \o t)[i] = s[i]
                    /\ \A i \in 1 .. Len(t) : (s \o t)[Len(s) + i] = t[i]
  OBVIOUS
<1>1. QED BY ConcatProperties

\* n bytes; and the first n bytes of t, in s after its first k.
IsBytes(s, n) == s \in Seq(Int) /\ Len(s) = n
HasAt(s, k, t, n) == \A i \in 1 .. n : s[k + i] = t[i]

\* Bytes keep their places when more are appended.
LEMMA Joined ==
    ASSUME NEW s, NEW t, NEW k \in Nat, NEW l \in Nat, IsBytes(s, k), IsBytes(t, l)
    PROVE  /\ IsBytes(s \o t, k + l)
           /\ HasAt(s \o t, 0, s, k) /\ HasAt(s \o t, k, t, l)
           /\ \A i \in 1 .. k : (s \o t)[i] = s[i]
<1>1. s \in Seq(Int) /\ t \in Seq(Int) /\ Len(s) = k /\ Len(t) = l
  BY DEF IsBytes
<1>2. \A i \in 1 .. k : 0 + i = i
  OBVIOUS
<1>3. /\ s \o t \in Seq(Int) /\ Len(s \o t) = k + l
      /\ \A i \in 1 .. k : (s \o t)[i] = s[i]
      /\ \A i \in 1 .. l : (s \o t)[k + i] = t[i]
  BY <1>1, Appended
<1> DEFINE u == s \o t
<1> HIDE DEF u
<1>4. IsBytes(u, k + l)
  BY <1>3 DEF IsBytes, u
<1>5. HasAt(u, 0, s, k)
  BY <1>2, <1>3 DEF HasAt, u
<1>6. HasAt(u, k, t, l)
  BY <1>3 DEF HasAt, u
<1>7. QED BY <1>3, <1>4, <1>5, <1>6 DEF u

\* A pose takes five bytes.
LEMMA PoseFits ==
    ASSUME NEW p \in [x : Signed20, y : Signed20]
    PROVE  IsBytes(PoseBytes(p), 5)
<1> DEFINE x == Unsigned20(p.x)
           y == Unsigned20(p.y)
<1>1. x \in Nat /\ x < 1048576 /\ y \in Nat /\ y < 1048576
  BY SignedBack, SMT
<1>2. PoseBytes(p) = <<Byte(x, 0), Byte(x, 1), Byte(x, 2) + 16 * (y % 16), (y \div 16) % 256, y \div 4096>>
  BY DEF PoseBytes
<1> HIDE DEF x, y
<1>3. Byte(x, 0) \in Int /\ Byte(x, 1) \in Int /\ Byte(x, 2) \in Int
  <2>1. x \in Unsigned24
    BY <1>1, SMT DEF Unsigned24
  <2>2. QED BY <2>1, BytesOf
<1>4. 16 * (y % 16) \in Int /\ (y \div 16) % 256 \in Int /\ y \div 4096 \in Int
  BY <1>1, SMT
<1>5. PoseBytes(p) \in Seq(Int) /\ Len(PoseBytes(p)) = 5
  BY <1>2, <1>3, <1>4
<1>6. QED BY <1>5 DEF IsBytes

\* So many zeros take so many bytes.
LEMMA ZerosFit ==
    ASSUME NEW n \in Nat PROVE IsBytes(Zeros(n), n)
BY DEF Zeros, IsBytes

\* The delimiter takes one.
LEMMA DelimiterFits == IsBytes(<<FRAME_DELIMITER>>, 1) /\ <<FRAME_DELIMITER>>[1] = FRAME_DELIMITER
BY DEF IsBytes, FRAME_DELIMITER

\* A frame has its body between two delimiters.
LEMMA DelimitedAt ==
    ASSUME NEW b, NEW n \in Nat, IsBytes(b, n)
    PROVE  /\ IsBytes(Delimited(b), n + 2) /\ Len(Delimited(b)) = n + 2
           /\ Delimited(b)[1] = FRAME_DELIMITER /\ Delimited(b)[n + 2] = FRAME_DELIMITER
           /\ HasAt(Delimited(b), 1, b, n)
<1> DEFINE d == <<FRAME_DELIMITER>>
           c == d \o b
           e == c \o d
<1>1. IsBytes(d, 1) /\ d[1] = FRAME_DELIMITER
  BY DelimiterFits
<1>2. Delimited(b) = e
  BY DEF Delimited
<1> HIDE DEF d
<1>3. /\ IsBytes(c, 1 + n) /\ HasAt(c, 1, b, n)
      /\ \A i \in 1 .. 1 : c[i] = d[i]
  BY <1>1, Joined
<1> HIDE DEF c
<1>4. 1 + n \in Nat /\ 1 \in Nat /\ (1 + n) + 1 = n + 2
  OBVIOUS
<1>5. IsBytes(e, (1 + n) + 1) /\ HasAt(e, 1 + n, d, 1) /\ \A i \in 1 .. 1 + n : e[i] = c[i]
  BY <1>1, <1>3, <1>4, Joined
<1> HIDE DEF e
<1>6. e[1] = FRAME_DELIMITER
  BY <1>1, <1>3, <1>5
<1>7. e[n + 2] = FRAME_DELIMITER
  BY <1>1, <1>5 DEF HasAt
<1>8. HasAt(e, 1, b, n)
  BY <1>3, <1>5 DEF HasAt
<1>9. IsBytes(e, n + 2) /\ Len(e) = n + 2
  BY <1>4, <1>5 DEF IsBytes
<1>10. QED BY <1>2, <1>6, <1>7, <1>8, <1>9

\* A pose, an area and a total that the frames can tell.
IsMower(m) ==
    /\ m.pose \in [x : Signed20, y : Signed20]
    /\ m.area \in Unsigned24 /\ m.total \in Unsigned24

\* Where the fields of a full frame are.
LEMMA BodyAt ==
    ASSUME NEW p, NEW z, NEW t, NEW a, IsBytes(p, 5), IsBytes(z, 20), IsBytes(t, 3), IsBytes(a, 3),
           NEW d, d = p \o z \o t \o a
    PROVE  IsBytes(d, 31) /\ HasAt(d, 0, p, 5) /\ HasAt(d, 25, t, 3) /\ HasAt(d, 28, a, 3)
<1> DEFINE b == p \o z
           c == b \o t
<1>1. 5 + 20 = 25 /\ 25 + 3 = 28 /\ 28 + 3 = 31
  OBVIOUS
<1>2. 3 \in Nat /\ 5 \in Nat /\ 20 \in Nat /\ 25 \in Nat /\ 28 \in Nat
  OBVIOUS
<1>3. IsBytes(b, 25) /\ \A i \in 1 .. 5 : b[i] = p[i]
  <2>1. IsBytes(b, 5 + 20) /\ \A i \in 1 .. 5 : b[i] = p[i]
    BY <1>2, Joined, Zenon
  <2>2. QED BY <1>1, <2>1
<1>4. d = c \o a
  OBVIOUS
<1> HIDE DEF b
<1>5. IsBytes(c, 28) /\ HasAt(c, 25, t, 3) /\ \A i \in 1 .. 25 : c[i] = b[i]
  <2>1. IsBytes(c, 25 + 3) /\ HasAt(c, 25, t, 3) /\ \A i \in 1 .. 25 : c[i] = b[i]
    BY <1>2, <1>3, Joined, Zenon
  <2>2. QED BY <1>1, <2>1
<1> HIDE DEF c
<1>6. IsBytes(d, 31) /\ HasAt(d, 28, a, 3) /\ \A i \in 1 .. 28 : d[i] = c[i]
  <2>1. /\ IsBytes(c \o a, 28 + 3) /\ HasAt(c \o a, 28, a, 3)
        /\ \A i \in 1 .. 28 : (c \o a)[i] = c[i]
    BY <1>2, <1>5, Joined, Zenon
  <2>2. QED BY <1>1, <1>4, <2>1, Zenon
<1>7. HasAt(d, 0, p, 5)
  <2>1. \A i \in 1 .. 5 : i \in 1 .. 25 /\ i \in 1 .. 28 /\ 0 + i = i
    OBVIOUS
  <2>2. \A i \in 1 .. 5 : d[i] = p[i]
    BY <1>3, <1>5, <1>6, <2>1, Zenon
  <2>3. QED BY <2>1, <2>2, Zenon DEF HasAt
<1>8. HasAt(d, 25, t, 3)
  <2>1. \A i \in 1 .. 3 : 25 + i \in 1 .. 28
    OBVIOUS
  <2>2. QED BY <1>5, <1>6, <2>1, Zenon DEF HasAt
<1>9. QED BY <1>6, <1>7, <1>8

\* A full frame is well formed and gives back what it was packed from, of the area 16 bits.
LEMMA FullAt ==
    ASSUME NEW m, IsMower(m)
    PROVE  /\ IsBytes(Full(m), 33) /\ WellFormed(Full(m), {8, 10, 33}) /\ Len(Full(m)) = 33
           /\ DecodePose(Full(m)) = m.pose
           /\ Uint24(Full(m), 26) = m.total /\ Uint16(Full(m), 29) = (m.area % 65536)
<1> DEFINE p == PoseBytes(m.pose)
           z == Zeros(20)
           t == <<Byte(m.total, 0), Byte(m.total, 1), Byte(m.total, 2)>>
           a == <<Byte(m.area, 0), Byte(m.area, 1), Byte(m.area, 2)>>
           d == p \o z \o t \o a
           f == Full(m)
<1>1. IsBytes(p, 5)
  BY PoseFits DEF IsMower
<1>2. IsBytes(z, 20)
  BY ZerosFit
<1>3. /\ Byte(m.total, 0) \in Nat /\ Byte(m.total, 1) \in Nat /\ Byte(m.total, 2) \in Nat
      /\ Byte(m.total, 0) + 256 * Byte(m.total, 1) + 65536 * Byte(m.total, 2) = m.total
  BY BytesOf DEF IsMower
<1>4. /\ Byte(m.area, 0) \in Nat /\ Byte(m.area, 1) \in Nat /\ Byte(m.area, 2) \in Nat
      /\ Byte(m.area, 0) + 256 * Byte(m.area, 1) = (m.area % 65536)
  BY BytesOf DEF IsMower
<1>5. IsBytes(t, 3)
  BY <1>3 DEF IsBytes
<1>6. IsBytes(a, 3)
  BY <1>4 DEF IsBytes
<1>7. f = Delimited(d)
  BY DEF Full
<1> HIDE DEF p, z, d, f
<1>8. d = p \o z \o t \o a
  BY DEF d
<1> HIDE DEF t, a
<1>9. IsBytes(d, 31) /\ HasAt(d, 0, p, 5) /\ HasAt(d, 25, t, 3) /\ HasAt(d, 28, a, 3)
  BY <1>1, <1>2, <1>5, <1>6, <1>8, BodyAt, Zenon
<1>10. IsBytes(f, 33) /\ Len(f) = 33 /\ f[1] = FRAME_DELIMITER /\ f[33] = FRAME_DELIMITER /\ HasAt(f, 1, d, 31)
  <2>1. 31 \in Nat /\ 31 + 2 = 33
    OBVIOUS
  <2>2. IsBytes(f, 31 + 2) /\ Len(f) = 31 + 2 /\ f[1] = FRAME_DELIMITER /\ f[31 + 2] = FRAME_DELIMITER /\ HasAt(f, 1, d, 31)
    BY <1>7, <1>9, <2>1, DelimitedAt, Zenon
  <2>3. QED BY <2>1, <2>2
<1>11. DecodePose(f) = m.pose
  <2>1. \A i \in 1 .. 5 : f[1 + i] = d[i]
    BY <1>10 DEF HasAt
  <2>2. \A i \in 1 .. 5 : d[0 + i] = p[i]
    BY <1>9 DEF HasAt
  <2>3. \A i \in 1 .. 5 : f[i + 1] = p[i]
    BY <2>1, <2>2
  <2>4. QED BY <2>3, PoseBack DEF p, IsMower
<1>12. f[27] = t[1] /\ f[28] = t[2] /\ f[29] = t[3] /\ f[30] = a[1] /\ f[31] = a[2]
  <2>1. d[26] = t[1] /\ d[27] = t[2] /\ d[28] = t[3]
    <3>1. d[25 + 1] = t[1] /\ d[25 + 2] = t[2] /\ d[25 + 3] = t[3]
      BY <1>9 DEF HasAt
    <3>2. QED BY <3>1
  <2>2. d[29] = a[1] /\ d[30] = a[2]
    <3>1. d[28 + 1] = a[1] /\ d[28 + 2] = a[2]
      BY <1>9 DEF HasAt
    <3>2. QED BY <3>1
  <2>3. f[27] = d[26] /\ f[28] = d[27] /\ f[29] = d[28] /\ f[30] = d[29] /\ f[31] = d[30]
    <3>1. f[1 + 26] = d[26] /\ f[1 + 27] = d[27] /\ f[1 + 28] = d[28] /\ f[1 + 29] = d[29] /\ f[1 + 30] = d[30]
      BY <1>10 DEF HasAt
    <3>2. QED BY <3>1
  <2>4. QED BY <2>1, <2>2, <2>3
<1>13. t[1] = Byte(m.total, 0) /\ t[2] = Byte(m.total, 1) /\ t[3] = Byte(m.total, 2)
  BY DEF t
<1>14. a[1] = Byte(m.area, 0) /\ a[2] = Byte(m.area, 1)
  BY DEF a
<1>15. Uint24(f, 26) = m.total
  <2>1. Uint24(f, 26) = f[27] + 256 * f[28] + 65536 * f[29]
    BY SMT DEF Uint24, At
  <2>2. Uint24(f, 26) = Byte(m.total, 0) + 256 * Byte(m.total, 1) + 65536 * Byte(m.total, 2)
    BY <1>12, <1>13, <2>1, SMT
  <2>3. QED BY <1>3, <2>2, SMT
<1>16. Uint16(f, 29) = (m.area % 65536)
  <2>1. Uint16(f, 29) = f[30] + 256 * f[31]
    BY SMT DEF Uint16, At
  <2>2. Uint16(f, 29) = Byte(m.area, 0) + 256 * Byte(m.area, 1)
    BY <1>12, <1>14, <2>1, SMT
  <2>3. QED BY <1>4, <2>2, SMT
<1>17. QED BY <1>10, <1>11, <1>15, <1>16 DEF WellFormed, f

\* A short frame is well formed and gives back the pose.
LEMMA ShortAt ==
    ASSUME NEW m, IsMower(m), NEW n \in {8, 10}
    PROVE  /\ WellFormed(Short(m, n), {8, 10, 33}) /\ Len(Short(m, n)) # 33
           /\ DecodePose(Short(m, n)) = m.pose
<1> DEFINE p == PoseBytes(m.pose)
           z == Zeros(n - 7)
           b == p \o z
           f == Short(m, n)
<1>1. 5 \in Nat /\ n - 7 \in Nat /\ 5 + (n - 7) = n - 2 /\ n - 2 \in Nat /\ (n - 2) + 2 = n /\ 5 <= n - 2
  OBVIOUS
<1>2. IsBytes(p, 5)
  BY PoseFits DEF IsMower
<1>3. IsBytes(z, n - 7)
  BY <1>1, ZerosFit
<1>4. f = Delimited(b)
  BY DEF Short
<1> HIDE DEF p, z, f
<1>5. IsBytes(b, n - 2) /\ \A i \in 1 .. 5 : b[i] = p[i]
  <2>1. IsBytes(b, 5 + (n - 7)) /\ \A i \in 1 .. 5 : b[i] = p[i]
    BY <1>1, <1>2, <1>3, Joined, ZenonT(60)
  <2>2. QED BY <1>1, <2>1
<1> HIDE DEF b
<1>6. Len(f) = n /\ f[1] = FRAME_DELIMITER /\ f[n] = FRAME_DELIMITER /\ HasAt(f, 1, b, n - 2)
  <2>1. /\ Len(f) = (n - 2) + 2 /\ f[1] = FRAME_DELIMITER /\ f[(n - 2) + 2] = FRAME_DELIMITER
        /\ HasAt(f, 1, b, n - 2)
    BY <1>1, <1>4, <1>5, DelimitedAt, Zenon
  <2>2. QED BY <1>1, <2>1
<1>7. \A i \in 1 .. 5 : f[i + 1] = p[i]
  <2>1. \A i \in 1 .. 5 : f[1 + i] = b[i]
    BY <1>1, <1>6 DEF HasAt
  <2>2. QED BY <1>5, <2>1
<1>8. DecodePose(f) = m.pose
  BY <1>7, PoseBack DEF p, IsMower
<1>9. QED BY <1>6, <1>8 DEF WellFormed, f

\* The flags and the signal strength a heartbeat can tell.
IsFlags(m) ==
    /\ m = [drop_tilt |-> m.drop_tilt, bumper |-> m.bumper, lift |-> m.lift,
            emergency_stop |-> m.emergency_stop, battery_temp_low |-> m.battery_temp_low,
            safety_alert_active |-> m.safety_alert_active, wifi_rssi_dbm |-> m.wifi_rssi_dbm]
    /\ m.drop_tilt \in BOOLEAN /\ m.bumper \in BOOLEAN /\ m.lift \in BOOLEAN
    /\ m.emergency_stop \in BOOLEAN /\ m.battery_temp_low \in BOOLEAN /\ m.safety_alert_active \in BOOLEAN
    /\ m.wifi_rssi_dbm \in Int /\ -128 <= m.wifi_rssi_dbm /\ m.wifi_rssi_dbm < 128

\* Those of every heartbeat of the model are such.
LEMMA FlagsUpAre ==
    ASSUME NEW flag, NEW dbm \in Int, -128 <= dbm, dbm < 128
    PROVE  IsFlags(FlagsUp(flag, dbm))
BY DEF FlagsUp, IsFlags, HeartbeatFlags

\* A bit is read whatever the bits beside it.
LEMMA MaskedBits ==
    /\ \A a, b \in BOOLEAN :
          LET n == 252 + (IF a THEN 2 ELSE 0) + (IF b THEN 1 ELSE 0)
          IN  Masked(n, 2) = a /\ Masked(n, 1) = b
    /\ \A a \in BOOLEAN : /\ Masked(253 + (IF a THEN 2 ELSE 0), 2) = a
                          /\ Masked(127 + (IF a THEN 128 ELSE 0), 128) = a
                          /\ Masked(247 + (IF a THEN 8 ELSE 0), 8) = a
                          /\ Masked(IF a THEN 2 ELSE 0, 2) = a
<1>1. /\ Masked(255, 2) /\ Masked(254, 2) /\ ~Masked(253, 2) /\ ~Masked(252, 2)
      /\ Masked(255, 1) /\ ~Masked(254, 1) /\ Masked(253, 1) /\ ~Masked(252, 1)
  BY SMT DEF Masked
<1>2. /\ Masked(255, 128) /\ ~Masked(127, 128) /\ Masked(255, 8) /\ ~Masked(247, 8)
      /\ Masked(2, 2) /\ ~Masked(0, 2)
  BY SMT DEF Masked
<1>3. /\ 252 + 2 + 1 = 255 /\ 252 + 2 + 0 = 254 /\ 252 + 0 + 1 = 253 /\ 252 + 0 + 0 = 252
      /\ 253 + 2 = 255 /\ 253 + 0 = 253 /\ 127 + 128 = 255 /\ 127 + 0 = 127
      /\ 247 + 8 = 255 /\ 247 + 0 = 247
  OBVIOUS
<1>4. \A n, mask : \A x \in BOOLEAN : (Masked(n, mask) <=> x) => Masked(n, mask) = x
  BY DEF Masked
<1>5. ASSUME NEW a \in BOOLEAN, NEW b \in BOOLEAN,
             NEW n, n = 252 + (IF a THEN 2 ELSE 0) + (IF b THEN 1 ELSE 0)
      PROVE  Masked(n, 2) = a /\ Masked(n, 1) = b
  <2>1. (Masked(n, 2) <=> a) /\ (Masked(n, 1) <=> b)
    BY <1>1, <1>3, <1>5
  <2>2. QED BY <1>4, <2>1
<1>6. ASSUME NEW a \in BOOLEAN, NEW n, NEW mask,
             \/ n = 253 + (IF a THEN 2 ELSE 0) /\ mask = 2
             \/ n = 127 + (IF a THEN 128 ELSE 0) /\ mask = 128
             \/ n = 247 + (IF a THEN 8 ELSE 0) /\ mask = 8
             \/ n = (IF a THEN 2 ELSE 0) /\ mask = 2
      PROVE  Masked(n, mask) = a
  <2>1. Masked(n, mask) <=> a
    BY <1>1, <1>2, <1>3, <1>6
  <2>2. QED BY <1>4, <2>1
<1>7. \A a, b \in BOOLEAN :
          LET n == 252 + (IF a THEN 2 ELSE 0) + (IF b THEN 1 ELSE 0)
          IN  Masked(n, 2) = a /\ Masked(n, 1) = b
  BY <1>5
<1>8. \A a \in BOOLEAN : /\ Masked(253 + (IF a THEN 2 ELSE 0), 2) = a
                         /\ Masked(127 + (IF a THEN 128 ELSE 0), 128) = a
                         /\ Masked(247 + (IF a THEN 8 ELSE 0), 8) = a
                         /\ Masked(IF a THEN 2 ELSE 0, 2) = a
  BY <1>6
<1>9. QED BY <1>7, <1>8

\* The two's complement of 8 bits gives back the signal strength.
LEMMA SignalBack ==
    ASSUME NEW n \in Int, -128 <= n, n < 128
    PROVE  Signed(n % 256, 8) = n /\ n % 256 \in Nat
<1>1. Signed(n % 256, 8) = IF (n % 256) >= 128 THEN (n % 256) - 256 ELSE n % 256
  BY Powers, SMT DEF Signed
<1>2. QED BY <1>1, SMT

\* The body of a heartbeat.
LEMMA HeartbeatBody ==
    ASSUME NEW a, NEW b, NEW c, NEW e, NEW g, IsBytes(a, 6), IsBytes(b, 3), IsBytes(c, 1), IsBytes(e, 6),
           IsBytes(g, 2), NEW d, d = a \o b \o c \o e \o g
    PROVE  IsBytes(d, 18) /\ HasAt(d, 0, a, 6) /\ HasAt(d, 9, c, 1) /\ HasAt(d, 16, g, 2)
<1> DEFINE t == a \o b
           u == t \o c
           v == u \o e
<1>1. 6 + 3 = 9 /\ 9 + 1 = 10 /\ 10 + 6 = 16 /\ 16 + 2 = 18
  OBVIOUS
<1>2. 6 \in Nat /\ 3 \in Nat /\ 9 \in Nat /\ 1 \in Nat /\ 10 \in Nat /\ 16 \in Nat /\ 2 \in Nat
  OBVIOUS
<1>3. d = v \o g
  OBVIOUS
<1>4. IsBytes(t, 9) /\ \A i \in 1 .. 6 : t[i] = a[i]
  <2>1. IsBytes(t, 6 + 3) /\ \A i \in 1 .. 6 : t[i] = a[i]
    BY <1>2, Joined, Zenon
  <2>2. QED BY <1>1, <2>1, Zenon
<1> HIDE DEF t
<1>5. IsBytes(u, 10) /\ HasAt(u, 9, c, 1) /\ \A i \in 1 .. 9 : u[i] = t[i]
  <2>1. IsBytes(u, 9 + 1) /\ HasAt(u, 9, c, 1) /\ \A i \in 1 .. 9 : u[i] = t[i]
    BY <1>2, <1>4, Joined, Zenon
  <2>2. QED BY <1>1, <2>1, Zenon
<1> HIDE DEF u
<1>6. IsBytes(v, 16) /\ \A i \in 1 .. 10 : v[i] = u[i]
  <2>1. IsBytes(v, 10 + 6) /\ \A i \in 1 .. 10 : v[i] = u[i]
    BY <1>2, <1>5, Joined, Zenon
  <2>2. QED BY <1>1, <2>1, Zenon
<1> HIDE DEF v
<1>7. IsBytes(d, 18) /\ HasAt(d, 16, g, 2) /\ \A i \in 1 .. 16 : d[i] = v[i]
  <2>1. IsBytes(v \o g, 16 + 2) /\ HasAt(v \o g, 16, g, 2) /\ \A i \in 1 .. 16 : (v \o g)[i] = v[i]
    BY <1>2, <1>6, Joined, Zenon
  <2>2. QED BY <1>1, <1>3, <2>1, Zenon
<1>8. HasAt(d, 0, a, 6)
  <2>1. \A i \in 1 .. 6 : i \in 1 .. 9 /\ i \in 1 .. 10 /\ i \in 1 .. 16 /\ 0 + i = i
    OBVIOUS
  <2>2. \A i \in 1 .. 6 : d[i] = a[i]
    BY <1>4, <1>5, <1>6, <1>7, <2>1, Zenon
  <2>3. QED BY <2>1, <2>2, Zenon DEF HasAt
<1>9. HasAt(d, 9, c, 1)
  <2>1. \A i \in 1 .. 1 : 9 + i \in 1 .. 10 /\ 9 + i \in 1 .. 16
    OBVIOUS
  <2>2. QED BY <1>5, <1>6, <1>7, <2>1, Zenon DEF HasAt
<1>10. QED BY <1>7, <1>8, <1>9

\* A heartbeat is well formed and gives back its flags.
LEMMA HeartbeatAt ==
    ASSUME NEW m, IsFlags(m)
    PROVE  WellFormed(Heartbeat(m), {20}) /\ DecodeS1p1(Heartbeat(m)) = m
<1> DEFINE Bit(on, mask) == IF on THEN mask ELSE 0
           a == <<252 + Bit(m.drop_tilt, 2) + Bit(m.bumper, 1), 253 + Bit(m.lift, 2),
                  127 + Bit(m.emergency_stop, 128), 0, 0, 247 + Bit(m.battery_temp_low, 8)>>
           b == Zeros(3)
           c == <<Bit(m.safety_alert_active, 2)>>
           e == Zeros(6)
           g == <<m.wifi_rssi_dbm % 256, 0>>
           d == a \o b \o c \o e \o g
           f == Heartbeat(m)
<1>1. f = Delimited(d)
  BY DEF Heartbeat
<1>2. IsBytes(a, 6)
  <2>1. /\ Bit(m.drop_tilt, 2) \in Int /\ Bit(m.bumper, 1) \in Int /\ Bit(m.lift, 2) \in Int
        /\ Bit(m.emergency_stop, 128) \in Int /\ Bit(m.battery_temp_low, 8) \in Int
    OBVIOUS
  <2> HIDE DEF Bit
  <2>2. QED BY <2>1 DEF IsBytes
<1>3. IsBytes(c, 1)
  <2>1. Bit(m.safety_alert_active, 2) \in Int
    OBVIOUS
  <2> HIDE DEF Bit
  <2>2. QED BY <2>1 DEF IsBytes
<1>4. IsBytes(g, 2)
  <2>1. m.wifi_rssi_dbm % 256 \in Nat
    BY SignalBack DEF IsFlags
  <2>2. QED BY <2>1 DEF IsBytes
<1>5. IsBytes(b, 3) /\ IsBytes(e, 6)
  BY ZerosFit
<1> HIDE DEF a, b, c, d, e, f, g, Bit
<1>6. d = a \o b \o c \o e \o g
  BY DEF d
<1>7. IsBytes(d, 18) /\ HasAt(d, 0, a, 6) /\ HasAt(d, 9, c, 1) /\ HasAt(d, 16, g, 2)
  BY <1>2, <1>3, <1>4, <1>5, <1>6, HeartbeatBody, Zenon
<1>8. Len(f) = 20 /\ f[1] = FRAME_DELIMITER /\ f[20] = FRAME_DELIMITER /\ HasAt(f, 1, d, 18)
  <2>1. 18 \in Nat /\ 18 + 2 = 20
    OBVIOUS
  <2>2. Len(f) = 18 + 2 /\ f[1] = FRAME_DELIMITER /\ f[18 + 2] = FRAME_DELIMITER /\ HasAt(f, 1, d, 18)
    BY <1>1, <1>7, <2>1, DelimitedAt, Zenon
  <2>3. QED BY <2>1, <2>2
<1>9. /\ d[1] = a[1] /\ d[2] = a[2] /\ d[3] = a[3] /\ d[6] = a[6]
      /\ d[10] = c[1] /\ d[17] = g[1]
  <2>1. d[0 + 1] = a[1] /\ d[0 + 2] = a[2] /\ d[0 + 3] = a[3] /\ d[0 + 6] = a[6]
    BY <1>7 DEF HasAt
  <2>2. d[9 + 1] = c[1] /\ d[16 + 1] = g[1]
    BY <1>7 DEF HasAt
  <2>3. QED BY <2>1, <2>2
<1>10. /\ At(f, 1) = a[1] /\ At(f, 2) = a[2] /\ At(f, 3) = a[3] /\ At(f, 6) = a[6]
       /\ At(f, 10) = c[1] /\ At(f, 17) = g[1]
  <2>1. /\ f[1 + 1] = d[1] /\ f[1 + 2] = d[2] /\ f[1 + 3] = d[3] /\ f[1 + 6] = d[6]
        /\ f[1 + 10] = d[10] /\ f[1 + 17] = d[17]
    BY <1>8 DEF HasAt
  <2>2. QED BY <1>9, <2>1 DEF At
<1>11. /\ a[1] = 252 + Bit(m.drop_tilt, 2) + Bit(m.bumper, 1) /\ a[2] = 253 + Bit(m.lift, 2)
       /\ a[3] = 127 + Bit(m.emergency_stop, 128) /\ a[6] = 247 + Bit(m.battery_temp_low, 8)
       /\ c[1] = Bit(m.safety_alert_active, 2) /\ g[1] = m.wifi_rssi_dbm % 256
  BY DEF a, c, g
<1>12. /\ Masked(a[1], 2) = m.drop_tilt /\ Masked(a[1], 1) = m.bumper /\ Masked(a[2], 2) = m.lift
       /\ Masked(a[3], 128) = m.emergency_stop /\ Masked(a[6], 8) = m.battery_temp_low
       /\ Masked(c[1], 2) = m.safety_alert_active
  BY <1>11, MaskedBits DEF IsFlags, Bit
<1>13. Signed(g[1], 8) = m.wifi_rssi_dbm
  BY <1>11, SignalBack DEF IsFlags
<1>14. DecodeS1p1(f) = m
  BY <1>10, <1>12, <1>13 DEF DecodeS1p1, IsFlags
<1>15. QED BY <1>8, <1>14 DEF WellFormed, f

\* Every pose a frame can tell, and what is kept of a full frame.
ThePoses == [x : Signed20, y : Signed20]

FullEntries == [pose : ThePoses, from : ThePoses \cup {None}, area : Nat]

\* The i-th of them found the mower where the frame before it had it, mowing on.
HeldAt(i) == Held(full[i].pose, full[i].from) /\ full[i].area > full[i + 1].area

\* What is shown comes from the newest frame, and so many frames were found held
\* as the detector has counted, as far as they are kept.
FramesInv ==
    /\ DOMAIN mower = {"pose", "area", "total", "stage", "flags"}
    /\ IsMower(mower) /\ IsFlags(mower.flags)
    /\ DOMAIN seen = {"pose", "area", "total", "stage", "flags", "bound", "bind"}
    /\ seen.pose \in ThePoses \cup {None}
    /\ full \in Seq(FullEntries) /\ Len(full) <= 3
    /\ full = <<>> => seen.area = None
    /\ full # <<>> => seen.area = full[1].area
    /\ seen.bound \in Nat /\ (seen.bind => seen.bound >= 2)
    /\ seen.bound >= 1 => Len(full) >= 2 /\ HeldAt(1)
    /\ seen.bound >= 2 => Len(full) = 3 /\ HeldAt(2)
    /\ EmergencyStop(seen) => banner

\* Nothing is read yet.
LEMMA FramesInitially == FramesInit => FramesInv
<1> SUFFICES ASSUME FramesInit PROVE FramesInv
  OBVIOUS
<1>1. IsFlags(FlagsUp(None, -60))
  BY FlagsUpAre
<1>2. (CHOOSE p \in Poses : TRUE) \in ThePoses
  BY FramesAssumption DEF ThePoses
<1>3. IsMower(mower) /\ IsFlags(mower.flags)
  <2>1. 0 \in Unsigned24 /\ TotalArea \in Unsigned24
    BY FramesAssumption, SMT DEF Unsigned24
  <2>2. QED BY <1>1, <1>2, <2>1 DEF FramesInit, IsMower, ThePoses
<1>4. full \in Seq(FullEntries) /\ Len(full) = 0
  BY DEF FramesInit
<1>5. QED BY <1>3, <1>4 DEF FramesInit, FramesInv, NothingSeen, EmergencyStop

\* The newest entry comes first, the others move on, the fourth is dropped.
LEMMA Pushed ==
    ASSUME NEW S, NEW s \in Seq(S), Len(s) <= 3, NEW e \in S,
           NEW u, u = SubSeq(<<e>> \o s, 1, IF Len(s) < 2 THEN Len(s) + 1 ELSE 3)
    PROVE  /\ u \in Seq(S) /\ Len(u) = (IF Len(s) < 2 THEN Len(s) + 1 ELSE 3)
           /\ u[1] = e /\ \A i \in 1 .. 2 : i < Len(u) => u[i + 1] = s[i]
<1> DEFINE w == <<e>> \o s
           k == IF Len(s) < 2 THEN Len(s) + 1 ELSE 3
<1>1. Len(s) \in Nat /\ k \in 1 .. 3 /\ k <= Len(s) + 1 /\ k \in Int
  BY LenProperties
<1>2. <<e>> \in Seq(S) /\ Len(<<e>>) = 1 /\ <<e>>[1] = e
  OBVIOUS
<1>3. /\ w \in Seq(S) /\ Len(w) = 1 + Len(s) /\ w[1] = e
      /\ \A i \in 1 .. Len(s) : w[i + 1] = s[i]
  <2>1. /\ Len(w) = Len(<<e>>) + Len(s) /\ w \in Seq(S)
        /\ \A i \in 1 .. Len(<<e>>) + Len(s) :
              w[i] = IF i <= Len(<<e>>) THEN <<e>>[i] ELSE s[i - Len(<<e>>)]
    BY <1>2, ConcatProperties
  <2> HIDE DEF w
  <2>2. 1 \in 1 .. 1 + Len(s) /\ \A i \in 1 .. Len(s) : i + 1 \in 1 .. 1 + Len(s) /\ i + 1 > 1 /\ i + 1 - 1 = i
    BY <1>1
  <2>3. QED BY <1>1, <1>2, <2>1, <2>2
<1> HIDE DEF w, k
<1>4. u = SubSeq(w, 1, k)
  BY DEF w, k
<1>5. \A i \in 1 .. k : w[i] \in S
  BY <1>1, <1>3, ElementOfSeq
<1>6. /\ u \in Seq(S) /\ Len(u) = IF 1 <= k THEN k - 1 + 1 ELSE 0
      /\ \A i \in 1 .. k - 1 + 1 : u[i] = w[1 + i - 1]
  BY <1>1, <1>4, <1>5, SubSeqProperties
<1>7. Len(u) = k /\ \A i \in 1 .. k : u[i] = w[i]
  BY <1>1, <1>6
<1>8. u[1] = e /\ \A i \in 1 .. 2 : i < Len(u) => u[i + 1] = s[i]
  BY <1>1, <1>3, <1>7
<1>9. QED BY <1>6, <1>7, <1>8 DEF k

\* A full frame is read as it was told, and counted with those before it.
LEMMA FullIsRead ==
    ASSUME FramesInv, NEW p \in Poses, NEW a \in Areas, PushFull(p, a)
    PROVE  /\ DOMAIN mower' = DOMAIN mower /\ IsMower(mower') /\ mower'.flags = mower.flags
           /\ mower'.pose = p /\ mower'.area = a /\ mower'.stage = mower.stage
           /\ DOMAIN seen' = DOMAIN seen /\ seen'.pose = p /\ seen'.area = (a % 65536)
           /\ seen'.total = mower'.total /\ seen'.stage = seen.stage /\ seen'.flags = seen.flags
           /\ seen'.bound = DetectWheelBind(p, a % 65536)
           /\ (seen'.bind => DetectWheelBind(p, a % 65536) >= 2)
<1> DEFINE area == a % 65536
<1> HIDE DEF area
<1>1. mower' = [mower EXCEPT !.pose = p, !.area = a]
  BY DEF PushFull, Push
<1>2. /\ DOMAIN mower' = DOMAIN mower /\ mower'.pose = p /\ mower'.area = a /\ mower'.total = mower.total
      /\ mower'.stage = mower.stage /\ mower'.flags = mower.flags
  BY <1>1 DEF FramesInv
<1>3. IsMower(mower')
  <2>1. a \in Unsigned24 /\ p \in [x : Signed20, y : Signed20]
    BY FramesAssumption
  <2>2. QED BY <1>2, <2>1 DEF FramesInv, IsMower
<1> DEFINE data == Full(mower')
<1>4. /\ WellFormed(data, {8, 10, 33}) /\ Len(data) = 33 /\ DecodePose(data) = p
      /\ Uint24(data, 26) = mower'.total /\ Uint16(data, 29) = area
  BY <1>2, <1>3, FullAt, SMT DEF area
<1>5. seen' = ApplyS1p4(data)
  BY DEF PushFull
<1> HIDE DEF data
<1> DEFINE n == DetectWheelBind(DecodePose(data), Uint16(data, 29))
           held == n >= BIND_ACTIVE_FRAMES
<1>6. seen' = [seen EXCEPT !.pose = DecodePose(data), !.area = Uint16(data, 29), !.total = Uint24(data, 26),
                           !.bound = n, !.bind = held]
  <2>1. ApplyS1p4(data) =
           IF ~WellFormed(data, {8, 10, 33}) THEN seen
           ELSE IF Len(data) # 33 THEN [seen EXCEPT !.pose = DecodePose(data)]
           ELSE [seen EXCEPT !.pose = DecodePose(data), !.area = Uint16(data, 29), !.total = Uint24(data, 26),
                             !.bound = n, !.bind = held]
    BY DEF ApplyS1p4
  <2> HIDE DEF n, held
  <2>2. QED BY <1>4, <1>5, <2>1
<1>7. n = DetectWheelBind(p, area) /\ (held => n >= 2)
  <2>1. held => n >= 2
    BY DEF BIND_ACTIVE_FRAMES
  <2>2. QED BY <1>4, <2>1, Zenon
<1> HIDE DEF n, held
<1>8. /\ DOMAIN seen' = DOMAIN seen /\ seen'.pose = DecodePose(data) /\ seen'.area = Uint16(data, 29)
      /\ seen'.total = Uint24(data, 26) /\ seen'.stage = seen.stage /\ seen'.flags = seen.flags
      /\ seen'.bound = n /\ seen'.bind = held
  BY <1>6 DEF FramesInv
<1>9. seen'.bind => n >= 2
  BY <1>7, <1>8
<1>10. /\ seen'.pose = p /\ seen'.area = area /\ seen'.total = mower'.total
  BY <1>4, <1>8, Zenon
<1>11. QED BY <1>2, <1>3, <1>7, <1>8, <1>9, <1>10, SMT DEF area

\* The banner follows the flag.
LEMMA BannerKeeps ==
    ASSUME EmergencyStop(seen) => banner, HandleEmergencyStop
    PROVE  EmergencyStop(seen') => banner'
BY DEF HandleEmergencyStop, EmergencyStop

\* So it keeps the invariant: a count of the detector goes with frames that were held.
LEMMA FullKeeps ==
    ASSUME FramesInv, NEW p \in Poses, NEW a \in Areas, PushFull(p, a)
    PROVE  FramesInv'
<1> DEFINE area == a % 65536
           new == [pose |-> p, from |-> seen.pose, area |-> area]
<1>1. /\ DOMAIN mower' = DOMAIN mower /\ IsMower(mower') /\ mower'.flags = mower.flags
      /\ DOMAIN seen' = DOMAIN seen /\ seen'.pose = p /\ seen'.area = area
      /\ seen'.bound = DetectWheelBind(p, area) /\ (seen'.bind => DetectWheelBind(p, area) >= 2)
  BY FullIsRead
<1>2. area \in Nat /\ p \in ThePoses /\ seen.pose \in ThePoses \cup {None}
  <2>1. a \in Nat
    BY FramesAssumption DEF Unsigned24
  <2>2. area \in Nat
    BY <2>1, SMT
  <2>3. QED BY <2>2, FramesAssumption DEF ThePoses, FramesInv
<1> HIDE DEF area
<1>3. new \in FullEntries /\ new.pose = p /\ new.from = seen.pose /\ new.area = area
  BY <1>2 DEF FullEntries
<1>4. full' = SubSeq(<<new>> \o full, 1, IF Len(full) < 2 THEN Len(full) + 1 ELSE 3)
  BY DEF PushFull, area
<1> HIDE DEF new
<1>5. /\ full' \in Seq(FullEntries) /\ Len(full') = (IF Len(full) < 2 THEN Len(full) + 1 ELSE 3)
      /\ full'[1] = new /\ \A i \in 1 .. 2 : i < Len(full') => full'[i + 1] = full[i]
  BY <1>3, <1>4, Pushed DEF FramesInv
<1>6. Len(full) \in Nat /\ full' # <<>> /\ Len(full') <= 3
  BY <1>5 DEF FramesInv
<1> DEFINE n == DetectWheelBind(p, area)
<1>7. n = 0 \/ /\ seen.pose # None /\ seen.area # None /\ Held(p, seen.pose)
               /\ area - seen.area > 5 /\ n = seen.bound + 1
  BY DEF DetectWheelBind
<1> HIDE DEF n
<1>8. CASE n = 0
  <2>1. seen'.bound = n /\ (seen'.bind => n >= 2)
    BY <1>1 DEF n
  <2>2. seen'.area = full'[1].area /\ seen'.pose \in ThePoses \cup {None}
    BY <1>1, <1>2, <1>3, <1>5
  <2>3. EmergencyStop(seen') => banner'
    BY BannerKeeps DEF FramesInv, PushFull
  <2>4. QED BY <1>1, <1>5, <1>6, <1>8, <2>1, <2>2, <2>3 DEF FramesInv
<1>9. CASE n = seen.bound + 1 /\ seen.area # None /\ Held(p, seen.pose) /\ area - seen.area > 5
  <2>1. full # <<>> /\ seen.area = full[1].area /\ seen.bound \in Nat
    BY <1>9 DEF FramesInv
  <2>2. Len(full) >= 1 /\ full[1].area \in Nat
    <3>1. Len(full) >= 1
      BY <2>1, <1>6 DEF FramesInv
    <3>2. full[1] \in FullEntries
      BY <3>1, <1>6, ElementOfSeq DEF FramesInv
    <3>3. QED BY <3>1, <3>2 DEF FullEntries
  <2>3. Len(full') >= 2 /\ full'[2] = full[1]
    BY <1>5, <1>6, <2>2
  <2>4. HeldAt(1)'
    <3>1. full'[1].pose = p /\ full'[1].from = seen.pose /\ full'[1].area = area
      BY <1>3, <1>5
    <3>2. area > full[1].area
      BY <1>2, <1>9, <2>1, <2>2
    <3>3. QED BY <1>9, <2>3, <3>1, <3>2 DEF HeldAt
  <2>5. ASSUME n >= 2 PROVE Len(full') = 3 /\ HeldAt(2)'
    <3>1. Len(full) >= 2 /\ HeldAt(1)
      BY <1>9, <2>1, <2>5 DEF FramesInv
    <3>2. Len(full') = 3 /\ full'[3] = full[2]
      BY <1>5, <1>6, <3>1
    <3>3. QED BY <2>3, <3>1, <3>2 DEF HeldAt
  <2>6. seen'.bound = n /\ (seen'.bind => n >= 2) /\ n \in Nat /\ n >= 1
    BY <1>1, <1>9, <2>1 DEF n
  <2>7. seen'.area = full'[1].area /\ seen'.pose \in ThePoses \cup {None}
    BY <1>1, <1>2, <1>3, <1>5
  <2>8. EmergencyStop(seen') => banner'
    BY BannerKeeps DEF FramesInv, PushFull
  <2>9. QED BY <1>1, <1>5, <1>6, <2>3, <2>4, <2>5, <2>6, <2>7, <2>8 DEF FramesInv
<1>10. QED BY <1>7, <1>8, <1>9

\* What a push leaves when it brings no full frame.
LEMMA OthersKeep ==
    ASSUME FramesInv, full' = full, DOMAIN mower' = DOMAIN mower, IsMower(mower'), IsFlags(mower'.flags),
           DOMAIN seen' = DOMAIN seen, seen'.pose \in ThePoses \cup {None}, seen'.area = seen.area,
           seen'.bound = seen.bound, seen'.bind = seen.bind, HandleEmergencyStop
    PROVE  FramesInv'
<1>1. EmergencyStop(seen') => banner'
  BY BannerKeeps DEF FramesInv
<1>2. QED BY <1>1 DEF FramesInv, HeldAt

\* A short frame brings the pose alone.
LEMMA ShortIsRead ==
    ASSUME FramesInv, NEW p \in Poses, NEW n \in {8, 10}, PushShort(p, n)
    PROVE  /\ DOMAIN mower' = DOMAIN mower /\ IsMower(mower') /\ mower'.flags = mower.flags
           /\ mower'.pose = p /\ mower'.stage = mower.stage
           /\ DOMAIN seen' = DOMAIN seen /\ seen'.pose = p /\ seen'.area = seen.area /\ seen'.stage = seen.stage
           /\ seen'.flags = seen.flags /\ seen'.bound = seen.bound /\ seen'.bind = seen.bind
           /\ full' = full
<1>1. mower' = [mower EXCEPT !.pose = p]
  BY DEF PushShort, Push
<1>2. /\ DOMAIN mower' = DOMAIN mower /\ mower'.pose = p /\ mower'.area = mower.area
      /\ mower'.total = mower.total /\ mower'.stage = mower.stage /\ mower'.flags = mower.flags
  BY <1>1 DEF FramesInv
<1>3. IsMower(mower')
  <2>1. p \in [x : Signed20, y : Signed20]
    BY FramesAssumption
  <2>2. QED BY <1>2, <2>1 DEF FramesInv, IsMower
<1> DEFINE data == Short(mower', n)
<1>4. WellFormed(data, {8, 10, 33}) /\ Len(data) # 33 /\ DecodePose(data) = p
  BY <1>2, <1>3, ShortAt
<1>5. seen' = ApplyS1p4(data) /\ full' = full
  BY DEF PushShort
<1> HIDE DEF data
<1>6. seen' = [seen EXCEPT !.pose = p]
  BY <1>4, <1>5 DEF ApplyS1p4
<1>7. QED BY <1>2, <1>3, <1>5, <1>6 DEF FramesInv

\* A cut frame is as long as it was cut.
LEMMA Shortened ==
    ASSUME NEW n \in Nat, NEW f \in Seq(Int), n <= Len(f)
    PROVE  Len(SubSeq(f, 1, n)) = n
<1>1. \A i \in 1 .. n : f[i] \in Int
  BY ElementOfSeq
<1>2. Len(SubSeq(f, 1, n)) = IF 1 <= n THEN n - 1 + 1 ELSE 0
  BY <1>1, SubSeqProperties
<1>3. QED BY <1>2

\* A frame with a byte overwritten is as long as before.
LEMMA Replaced ==
    ASSUME NEW f \in Seq(Int), NEW i \in 1 .. Len(f)
    PROVE  Len([f EXCEPT ![i] = 0]) = Len(f) /\ [f EXCEPT ![i] = 0][i] = 0
BY ExceptSeq

\* Nothing is read of a broken frame.
LEMMA NothingIsRead ==
    ASSUME FramesInv, PushBroken
    PROVE  seen' = seen /\ mower' = mower /\ full' = full
<1> DEFINE f == Full(mower)
<1>1. mower' = mower /\ full' = full
  BY DEF PushBroken, Push
<1>2. IsBytes(f, 33)
  BY FullAt DEF FramesInv
<1>3. seen' \in {ApplyS1p4(SubSeq(f, 1, 32)), ApplyS1p4([f EXCEPT ![33] = 0]), ApplyS1p4(<<>>), ApplyS1p1(f)}
  BY <1>1 DEF PushBroken
<1> HIDE DEF f
<1>4. f \in Seq(Int) /\ Len(f) = 33
  BY <1>2 DEF IsBytes
<1>5. ~WellFormed(SubSeq(f, 1, 32), {8, 10, 33})
  <2>1. 32 \in Nat /\ 32 <= Len(f)
    BY <1>4
  <2>2. Len(SubSeq(f, 1, 32)) = 32
    BY <1>4, <2>1, Shortened
  <2>3. QED BY <2>2 DEF WellFormed
<1>6. ~WellFormed([f EXCEPT ![33] = 0], {8, 10, 33})
  <2>1. 33 \in 1 .. Len(f)
    BY <1>4
  <2>2. Len([f EXCEPT ![33] = 0]) = 33 /\ [f EXCEPT ![33] = 0][33] = 0
    BY <1>4, <2>1, Replaced
  <2>3. QED BY <2>2 DEF WellFormed, FRAME_DELIMITER
<1>7. ~WellFormed(<<>>, {8, 10, 33})
  BY DEF WellFormed
<1>8. ~WellFormed(f, {20})
  BY <1>4 DEF WellFormed
<1>9. seen' = seen
  BY <1>3, <1>5, <1>6, <1>7, <1>8 DEF ApplyS1p4, ApplyS1p1
<1>10. QED BY <1>1, <1>9

\* A heartbeat brings the flags alone.
LEMMA HeartbeatIsRead ==
    ASSUME FramesInv, NEW flag, NEW dbm \in {-128, -60, 127}, PushHeartbeat(flag, dbm)
    PROVE  /\ DOMAIN mower' = DOMAIN mower /\ IsMower(mower') /\ IsFlags(mower'.flags)
           /\ mower'.stage = mower.stage
           /\ DOMAIN seen' = DOMAIN seen /\ seen'.pose = seen.pose /\ seen'.area = seen.area
           /\ seen'.stage = seen.stage /\ seen'.flags = mower'.flags
           /\ seen'.bound = seen.bound /\ seen'.bind = seen.bind
           /\ full' = full
<1>1. IsFlags(FlagsUp(flag, dbm))
  BY FlagsUpAre
<1>2. mower' = [mower EXCEPT !.flags = FlagsUp(flag, dbm)]
  BY DEF PushHeartbeat, Push
<1>3. /\ DOMAIN mower' = DOMAIN mower /\ mower'.pose = mower.pose /\ mower'.area = mower.area
      /\ mower'.total = mower.total /\ mower'.stage = mower.stage /\ mower'.flags = FlagsUp(flag, dbm)
  BY <1>2 DEF FramesInv
<1>4. IsMower(mower') /\ IsFlags(mower'.flags)
  BY <1>1, <1>3 DEF FramesInv, IsMower
<1>5. seen' = [seen EXCEPT !.flags = mower'.flags]
  BY <1>4, HeartbeatAt DEF PushHeartbeat, ApplyS1p1
<1>6. full' = full
  BY DEF PushHeartbeat
<1>7. QED BY <1>3, <1>4, <1>5, <1>6 DEF FramesInv

\* A task state brings the stage alone.
LEMMA TaskStateIsRead ==
    ASSUME FramesInv, NEW status \in Statuses, PushTaskState(status)
    PROVE  /\ DOMAIN mower' = DOMAIN mower /\ IsMower(mower') /\ mower'.flags = mower.flags
           /\ DOMAIN seen' = DOMAIN seen /\ seen'.pose = seen.pose /\ seen'.area = seen.area
           /\ seen'.stage = mower'.stage /\ seen'.flags = seen.flags
           /\ seen'.bound = seen.bound /\ seen'.bind = seen.bind
           /\ full' = full
<1>1. Stage(status) = StageOfTask(status)
  <2>1. CASE status = <<>>
    BY <2>1 DEF Stage, StageOfTask
  <2>2. CASE status # <<>>
    <3>1. Len(status) >= 2
      BY <2>2 DEF Statuses
    <3>2. QED BY <2>2, <3>1 DEF Stage, StageOfTask
  <2>3. QED BY <2>1, <2>2
<1>2. /\ mower' = [mower EXCEPT !.stage = StageOfTask(status)]
      /\ seen' = [seen EXCEPT !.stage = StageOfTask(status)] /\ full' = full
  BY <1>1 DEF PushTaskState, Push
<1>3. QED BY <1>2 DEF FramesInv, IsMower

\* A reload forgets it all.
LEMMA ReloadKeeps == FramesInv /\ Reload => FramesInv'
<1> SUFFICES ASSUME FramesInv, Reload PROVE FramesInv'
  OBVIOUS
<1>1. mower' = mower /\ seen' = NothingSeen /\ full' = <<>>
  BY DEF Reload, Push
<1>2. full' \in Seq(FullEntries) /\ Len(full') = 0
  BY <1>1
<1>3. QED BY <1>1, <1>2 DEF FramesInv, NothingSeen, EmergencyStop

\* Every step keeps the invariant and reads what was told.
LEMMA FramesStep ==
    FramesInv /\ [FramesNext]_framesVars =>
        FramesInv' /\ [seen' = NothingSeen \/ ReadIsTold]_framesVars
<1> SUFFICES ASSUME FramesInv, [FramesNext]_framesVars
             PROVE  FramesInv' /\ [seen' = NothingSeen \/ ReadIsTold]_framesVars
  OBVIOUS
<1>1. CASE UNCHANGED framesVars
  <2>1. FramesInv'
    BY <1>1 DEF framesVars, FramesInv, HeldAt, EmergencyStop
  <2>2. QED BY <1>1, <2>1
<1>2. FramesInv' => WheelBindIsStuck(seen', full') /\ (EmergencyStop(seen') => banner')
  BY DEF FramesInv, WheelBindIsStuck, BIND_ACTIVE_FRAMES, HeldAt
<1>3. ASSUME NEW p \in Poses, NEW a \in Areas, PushFull(p, a)
      PROVE  FramesInv' /\ ReadIsTold
  <2>1. FramesInv'
    BY <1>3, FullKeeps
  <2>2. QED BY <1>2, <1>3, <2>1, FullIsRead DEF ReadIsTold
<1>4. ASSUME NEW p \in Poses, NEW n \in {8, 10}, PushShort(p, n)
      PROVE  FramesInv' /\ ReadIsTold
  <2>1. FramesInv'
    <3>1. p \in ThePoses
      BY FramesAssumption DEF ThePoses
    <3>2. QED BY <1>4, <3>1, ShortIsRead, OthersKeep DEF FramesInv, PushShort
  <2>2. QED BY <1>2, <1>4, <2>1, ShortIsRead DEF ReadIsTold
<1>5. CASE PushBroken
  <2>1. seen' = seen /\ mower' = mower /\ full' = full /\ HandleEmergencyStop
    BY <1>5, NothingIsRead DEF PushBroken
  <2>2. FramesInv'
    BY <2>1, OthersKeep DEF FramesInv
  <2>3. QED BY <1>2, <2>1, <2>2 DEF ReadIsTold
<1>6. ASSUME NEW flag, NEW dbm \in {-128, -60, 127}, PushHeartbeat(flag, dbm)
      PROVE  FramesInv' /\ ReadIsTold
  <2>1. FramesInv'
    <3>1. HandleEmergencyStop /\ seen.pose \in ThePoses \cup {None}
      BY <1>6 DEF FramesInv, PushHeartbeat
    <3>2. /\ DOMAIN mower' = DOMAIN mower /\ IsMower(mower') /\ IsFlags(mower'.flags)
          /\ DOMAIN seen' = DOMAIN seen /\ seen'.pose = seen.pose /\ seen'.area = seen.area
          /\ seen'.bound = seen.bound /\ seen'.bind = seen.bind /\ full' = full
      BY <1>6, HeartbeatIsRead
    <3>3. QED BY <3>1, <3>2, OthersKeep
  <2>2. QED BY <1>2, <1>6, <2>1, HeartbeatIsRead DEF ReadIsTold
<1>7. ASSUME NEW status \in Statuses, PushTaskState(status)
      PROVE  FramesInv' /\ ReadIsTold
  <2>1. FramesInv'
    BY <1>7, TaskStateIsRead, OthersKeep DEF FramesInv, PushTaskState
  <2>2. QED BY <1>2, <1>7, <2>1, TaskStateIsRead DEF ReadIsTold
<1>8. CASE Reload
  BY <1>8, ReloadKeeps DEF Reload
<1>9. QED BY <1>1, <1>3, <1>4, <1>5, <1>6, <1>7, <1>8 DEF FramesNext

\* Every push leaves in MowerState what the mower told with it: for every pose of
\* 20 bits, every area and total of 24, every flag, status and sequence of frames
\* (apply_property_to_state, _handle_emergency_stop_transition).
THEOREM ReadingsAreTold == FramesSpec => ReadingsAreMowers
<1>1. FramesInv /\ [FramesNext]_framesVars => FramesInv'
  BY FramesStep
<1>2. FramesInv /\ [FramesNext]_framesVars => [seen' = NothingSeen \/ ReadIsTold]_framesVars
  BY FramesStep
<1>3. QED BY <1>1, <1>2, FramesInitially, PTL DEF FramesSpec, ReadingsAreMowers

-----------------------------------------------------------------------------
(***************************************************************************)
(* The sub-devices of the maps.                                            *)
(***************************************************************************)

\* A map that is not among those parsed, when there are some, is not among those
\* read, or has nothing drawn on it.
LEMMA LeftOutMaps ==
    ASSUME NEW answer, NEW m, m \notin DOMAIN ParseCloudMaps(ReadMaps(answer)),
           DOMAIN ParseCloudMaps(ReadMaps(answer)) # {}
    PROVE  m \notin DOMAIN lots \/ Unbounded(lots[m])
<1> DEFINE read == ReadMaps(answer)
<1>1. DOMAIN ParseCloudMaps(read) = {k \in DOMAIN read : ~Unbounded(read[k])}
  BY DEF ParseCloudMaps
<1>2. DOMAIN NoMaps = {}
  BY DEF NoMaps
<1>3. read \in {lots, NoMaps}
  BY DEF ReadMaps
<1> HIDE DEF read
<1>4. read = lots
  BY <1>1, <1>2, <1>3 DEF read
<1>5. QED BY <1>1, <1>4 DEF read

\* No sub-device leaves for an answer that has no maps, whatever maps are drawn,
\* removed or blank, and however often the cloud fails to answer
\* (_sync_map_subdevices).
THEOREM DevicesStay == CloudMapsSpec => DevicesLast
<1>1. ASSUME CloudMapsNext, NEW m \in devices \ devices'
      PROVE  m \notin DOMAIN lots \/ Unbounded(lots[m])
  <2>1. PICK answer : RefreshMaps(answer)
    BY <1>1 DEF CloudMapsNext, DrawLot, RemoveLot
  <2>2. /\ decoded' = ParseCloudMaps(ReadMaps(answer))
        /\ devices' = IF DOMAIN decoded' = {} THEN devices ELSE DOMAIN decoded'
    BY <2>1 DEF RefreshMaps, SyncMapSubdevices
  <2>3. QED BY <1>1, <2>2, LeftOutMaps
<1>2. [CloudMapsNext]_cloudMaps =>
          [\A m \in devices \ devices' : m \notin DOMAIN lots \/ Unbounded(lots[m])]_cloudMaps
  BY <1>1
<1>3. QED BY <1>2, PTL DEF CloudMapsSpec, DevicesLast

-----------------------------------------------------------------------------
(***************************************************************************)
(* Maps of the cloud: a decoded map has the outlines of the map that was   *)
(* read, and its areas lie on its canvas.                                  *)
(***************************************************************************)
LEMMA ListOfKept ==
    ASSUME NEW S, NEW list \in Seq(S), NEW T, ToSet(list) \subseteq T
    PROVE  list \in Seq(T)
  BY DEF ToSet

LEMMA FiniteList ==
    ASSUME NEW S, NEW list \in Seq(S)
    PROVE  IsFiniteSet(ToSet(list))
<1>1. IsFiniteSet(1 .. Len(list)) /\ DOMAIN list = 1 .. Len(list)
  BY FS_Interval
<1>2. ToSet(list) \subseteq {list[i] : i \in 1 .. Len(list)}
  BY <1>1 DEF ToSet
<1>3. QED BY <1>1, <1>2, ImageIsFinite

\* _clean_points leaves the points that can be read.
LEMMA GoodPath ==
    ASSUME NEW path, AreaPath(path)
    PROVE  GoodPoints(path) \in Seq(PointSet)
<1> DEFINE S == PointSet \cup {Malformed}
           kept == GoodPoints(path)
<1>1. /\ kept \in Seq(S)
      /\ ToSet(kept) = ToSet(path) \cap (ToSet(path) \ {Malformed})
  BY FilteredSet DEF AreaPath, GoodPoints
<1>2. ToSet(path) \subseteq S
  BY DEF AreaPath, ToSet
<1>3. ToSet(kept) \subseteq PointSet
  BY <1>1, <1>2, Zenon
<1> HIDE DEF kept, S
<1>4. kept \in Seq(PointSet)
  BY <1>1, <1>3, ListOfKept
<1>5. QED BY <1>4 DEF kept

LEMMA MeanIsNumber ==
    ASSUME NEW n \in Nat \ {0}, NEW f \in [1 .. n -> Int]
    PROVE  Mean(f) \in Int
<1>1. IsFiniteSet(1 .. n) /\ DOMAIN f = 1 .. n
  BY FS_Interval
<1>2. NumbersOn(f, 1 .. n)
  BY <1>1 DEF NumbersOn
<1>3. SumFunctionOnSet(f, 1 .. n) \in Int
  BY <1>2, SumType
<1>4. Len(f) = n
  OBVIOUS
<1>5. QED BY <1>1, <1>3, <1>4 DEF Mean

\* A turned outline has whole millimetres for corners.
LEMMA TurnedPath ==
    ASSUME NEW e, AreaPath(e.path), GoodPoints(e.path) # <<>>, e.angle \in Quarters
    PROVE  Rotated(e) \in Seq(PointSet)
<1> DEFINE path == GoodPoints(e.path)
           n == Len(path)
           c == Centre(path)
           Turn(p) == CASE e.angle \in {None, 0} -> p
                     [] e.angle = 90 -> [x |-> c.x + p.y - c.y, y |-> c.y - p.x + c.x]
                     [] e.angle = 180 -> [x |-> 2 * c.x - p.x, y |-> 2 * c.y - p.y]
           fx == [i \in DOMAIN path |-> path[i].x]
           fy == [i \in DOMAIN path |-> path[i].y]
<1>1. path \in Seq(PointSet) /\ path # <<>>
  BY GoodPath
<1>0. Rotated(e) = [i \in DOMAIN path |-> Turn(path[i])]
  BY DEF Rotated, MapSeq
<1>5. c = [x |-> Mean(fx), y |-> Mean(fy)]
  BY DEF Centre, MapSeq
<1> HIDE DEF path
<1>2. n \in Nat \ {0} /\ DOMAIN path = 1 .. n /\ \A i \in 1 .. n : path[i] \in PointSet
  BY <1>1
<1> HIDE DEF n
<1>3. fx \in [1 .. n -> Int] /\ fy \in [1 .. n -> Int]
  BY <1>2 DEF PointSet
<1> HIDE DEF fx, fy
<1>4. Mean(fx) \in Int /\ Mean(fy) \in Int
  BY <1>2, <1>3, MeanIsNumber
<1>6. c.x \in Int /\ c.y \in Int
  BY <1>4, <1>5
<1> HIDE DEF c
<1>7. ASSUME NEW p \in PointSet PROVE Turn(p) \in PointSet
  <2> DEFINE east == [x |-> c.x + p.y - c.y, y |-> c.y - p.x + c.x]
             back == [x |-> 2 * c.x - p.x, y |-> 2 * c.y - p.y]
             turned == Turn(p)
  <2>1. None \notin Int /\ e.angle \in {None, 0, 90, 180}
    BY CloudMapsAssumption DEF Quarters
  <2>2. turned \in {p, east, back}
    <3>1. turned = CASE e.angle \in {None, 0} -> p [] e.angle = 90 -> east [] e.angle = 180 -> back
      OBVIOUS
    <3> HIDE DEF turned, east, back
    <3>2. CASE e.angle \in {None, 0}
      <4>1. e.angle # 90 /\ e.angle # 180 BY <2>1, <3>2
      <4>2. turned = p BY <3>1, <3>2, <4>1
      <4>3. QED BY <4>2
    <3>3. CASE e.angle = 90
      <4>1. e.angle \notin {None, 0} /\ e.angle # 180 BY <2>1, <3>3
      <4>2. turned = east BY <3>1, <3>3, <4>1
      <4>3. QED BY <4>2
    <3>4. CASE e.angle = 180
      <4>1. e.angle \notin {None, 0} /\ e.angle # 90 BY <2>1, <3>4
      <4>2. turned = back BY <3>1, <3>4, <4>1
      <4>3. QED BY <4>2
    <3>5. QED BY <2>1, <3>2, <3>3, <3>4
  <2> HIDE DEF turned
  <2>3. p.x \in Int /\ p.y \in Int
    BY DEF PointSet
  <2>4. east \in PointSet /\ back \in PointSet
    BY <1>6, <2>3, SMTT(60) DEF PointSet
  <2> HIDE DEF east, back
  <2>5. turned \in PointSet
    BY <2>2, <2>4
  <2>6. QED BY <2>5 DEF turned
<1> HIDE DEF Turn
<1>8. [i \in 1 .. n |-> Turn(path[i])] \in Seq(PointSet)
  BY <1>2, <1>7
<1>9. QED BY <1>0, <1>2, <1>8

-----------------------------------------------------------------------------
\* The entries of a section that are used are entries of it.
LEMMA UsableEntries ==
    ASSUME NEW entries, Section(entries)
    PROVE  /\ Usable(entries) \in Seq(ToSet(entries))
           /\ ToSet(Usable(entries)) = {e \in ToSet(entries) : e.form # "other" /\ e.path # <<>>}
           /\ Usable(entries) \in Seq(ToSet(Usable(entries)))
<1>1. /\ Usable(entries) \in Seq(ToSet(entries))
      /\ ToSet(Usable(entries)) = ToSet(entries) \cap {e \in ToSet(entries) : e.form # "other" /\ e.path # <<>>}
  BY FilteredSet DEF Section, Usable
<1>2. ToSet(Usable(entries)) = {e \in ToSet(entries) : e.form # "other" /\ e.path # <<>>}
  BY <1>1, Zenon
<1>3. Usable(entries) \in Seq(ToSet(Usable(entries)))
  BY <1>1, ListOfKept
<1>4. QED BY <1>1, <1>2, <1>3

AreaList(areas) ==
    \E n \in Nat : /\ DOMAIN areas = 1 .. n
                   /\ \A i \in 1 .. n : "points" \in DOMAIN areas[i] /\ areas[i].points \in Seq(PointSet)

\* What an area is made from can be turned.
CanTurn(e) == AreaPath(e.path) /\ GoodPoints(e.path) # <<>> /\ e.angle \in Quarters

LEMMA ExclusionList ==
    ASSUME NEW map, IsDraft(map), ~Raises(map)
    PROVE  AreaList(Exclusions(map))
<1> DEFINE S == [subtype : {None, "ignore"}, points : Seq(PointSet)]
           A == Usable(map.forbiddenAreas)
           B == Usable(map.notObsAreas)
           As == MapSeq(LAMBDA e : [subtype |-> None, points |-> Rotated(e)], A)
           Bs == MapSeq(LAMBDA e : [subtype |-> "ignore", points |-> Rotated(e)], B)
<1>1. A \in Seq(ToSet(A)) /\ B \in Seq(ToSet(B))
  BY UsableEntries DEF IsDraft
<1>2. ToSet(A) \subseteq ToSet(map.forbiddenAreas) /\ ToSet(B) \subseteq ToSet(map.notObsAreas)
  BY UsableEntries DEF IsDraft
<1>3. \A e \in ToSet(A) \cup ToSet(B) : CanTurn(e)
  BY <1>2 DEF IsDraft, Section, Raises, CanTurn
<1>0. Exclusions(map) = As \o Bs
  BY DEF Exclusions
<1> HIDE DEF A, B
<1>4. \A e \in ToSet(A) \cup ToSet(B) : Rotated(e) \in Seq(PointSet)
  BY <1>3, TurnedPath DEF CanTurn
<1>5. As = [i \in DOMAIN A |-> [subtype |-> None, points |-> Rotated(A[i])]]
  BY DEF MapSeq
<1>6. Bs = [i \in DOMAIN B |-> [subtype |-> "ignore", points |-> Rotated(B[i])]]
  BY DEF MapSeq
<1> HIDE DEF As, Bs
<1>7. As \in Seq(S)
  <2>1. DOMAIN A = 1 .. Len(A) /\ Len(A) \in Nat /\ \A i \in DOMAIN A : A[i] \in ToSet(A)
    BY <1>1
  <2>2. \A i \in 1 .. Len(A) : [subtype |-> None, points |-> Rotated(A[i])] \in S
    BY <2>1, <1>4
  <2> HIDE DEF S
  <2>3. QED BY <2>1, <2>2, <1>5
<1>8. Bs \in Seq(S)
  <2>1. DOMAIN B = 1 .. Len(B) /\ Len(B) \in Nat /\ \A i \in DOMAIN B : B[i] \in ToSet(B)
    BY <1>1
  <2>2. \A i \in 1 .. Len(B) : [subtype |-> "ignore", points |-> Rotated(B[i])] \in S
    BY <2>1, <1>4
  <2> HIDE DEF S
  <2>3. QED BY <2>1, <2>2, <1>6
<1>9. As \o Bs \in Seq(S)
  <2> HIDE DEF S
  <2>1. QED BY <1>7, <1>8, ConcatProperties
<1> DEFINE areas == As \o Bs
<1> HIDE DEF areas
<1>10. areas \in Seq(S)
  BY <1>9 DEF areas
<1>11. DOMAIN areas = 1 .. Len(areas) /\ Len(areas) \in Nat /\ \A i \in 1 .. Len(areas) : areas[i] \in S
  <2> HIDE DEF S
  <2>1. QED BY <1>10
<1>12. \A a \in S : "points" \in DOMAIN a /\ a.points \in Seq(PointSet)
  OBVIOUS
<1>13. QED BY <1>0, <1>11, <1>12 DEF AreaList, areas

LEMMA SpotList ==
    ASSUME NEW map, IsDraft(map), ~Raises(map)
    PROVE  AreaList(Spots(map))
<1> DEFINE A == Spotted(map)
           U == Usable(map.spotAreas)
<1>1. /\ U \in Seq(ToSet(U))
      /\ ToSet(U) \subseteq ToSet(map.spotAreas)
  BY UsableEntries DEF IsDraft
<1>4. A = Filtered(U, {e \in ToSet(U) : Keyed(e)})
  BY DEF Spotted
<1>0. Spots(map) = [i \in DOMAIN A |-> [id |-> KeyOr(A[i], 0), points |-> Rotated(A[i])]]
  BY DEF Spots, MapSeq
<1>5. \A e \in ToSet(A) : GoodPoints(e.path) # <<>> /\ e.angle # Malformed
  BY DEF Raises
<1> HIDE DEF A, U
<1>2. /\ A \in Seq(ToSet(U))
      /\ ToSet(A) \subseteq ToSet(U)
  BY <1>1, <1>4, FilteredSet
<1>3. \A e \in ToSet(A) : CanTurn(e)
  BY <1>1, <1>2, <1>5 DEF IsDraft, Section, CanTurn
<1>6. \A e \in ToSet(A) : Rotated(e) \in Seq(PointSet)
  BY <1>3, TurnedPath DEF CanTurn
<1>7. DOMAIN A = 1 .. Len(A) /\ Len(A) \in Nat /\ \A i \in DOMAIN A : A[i] \in ToSet(A)
  BY <1>2 DEF ToSet
<1> DEFINE spots == Spots(map)
<1>9. spots = [i \in 1 .. Len(A) |-> [id |-> KeyOr(A[i], 0), points |-> Rotated(A[i])]]
  BY <1>0, <1>7
<1> HIDE DEF spots
<1>10. DOMAIN spots = 1 .. Len(A)
       /\ \A i \in 1 .. Len(A) : "points" \in DOMAIN spots[i] /\ spots[i].points = Rotated(A[i])
  BY <1>9
<1>11. \A i \in 1 .. Len(A) : Rotated(A[i]) \in Seq(PointSet)
  BY <1>6, <1>7
<1>12. AreaList(spots)
  BY <1>7, <1>10, <1>11, Zenon DEF AreaList
<1>13. QED BY <1>12 DEF spots

-----------------------------------------------------------------------------
LEMMA CornersAre ==
    ASSUME NEW areas, AreaList(areas)
    PROVE  /\ Corners(areas) \subseteq PointSet
           /\ IsFiniteSet(Corners(areas))
<1>1. PICK n \in Nat : /\ DOMAIN areas = 1 .. n
                       /\ \A i \in 1 .. n : areas[i].points \in Seq(PointSet)
  BY DEF AreaList
<1> DEFINE f == [i \in 1 .. n |-> ToSet(areas[i].points)]
           F == {f[i] : i \in 1 .. n}
<1>2. \A i \in 1 .. n : f[i] \subseteq PointSet /\ IsFiniteSet(f[i])
  <2>1. ASSUME NEW i \in 1 .. n PROVE f[i] \subseteq PointSet /\ IsFiniteSet(f[i])
    <3>1. areas[i].points \in Seq(PointSet) /\ f[i] = ToSet(areas[i].points)
      BY <1>1
    <3>2. IsFiniteSet(ToSet(areas[i].points))
      BY <3>1, FiniteList
    <3>3. QED BY <3>1, <3>2 DEF ToSet
  <2>2. QED BY <2>1
<1>3. Corners(areas) = UNION F
  BY <1>1 DEF Corners
<1> HIDE DEF f
<1>4. IsFiniteSet(F)
  <2>1. IsFiniteSet(1 .. n) BY FS_Interval
  <2>2. QED BY <2>1, ImageIsFinite
<1>5. \A T \in F : T \subseteq PointSet /\ IsFiniteSet(T)
  BY <1>2
<1> HIDE DEF F
<1>6. IsFiniteSet(UNION F)
  BY <1>4, <1>5, FS_UNION
<1>7. QED BY <1>3, <1>5, <1>6

InOrder(box) ==
    /\ box \in [x1 : Int, x2 : Int, y1 : Int, y2 : Int]
    /\ box.x1 <= box.x2 /\ box.y1 <= box.y2

LEMMA LeastOf ==
    ASSUME NEW C, IsFiniteSet(C), NEW f, \A p \in C : f[p] \in Int, NEW a \in Int,
           NEW T, T = {a} \cup {f[p] : p \in C}
    PROVE  /\ Min(T) \in Int /\ Min(T) <= a /\ \A p \in C : Min(T) <= f[p]
           /\ Max(T) \in Int /\ a <= Max(T) /\ \A p \in C : f[p] <= Max(T)
<1> DEFINE F == {f[p] : p \in C}
<1>1. IsFiniteSet(F)
  BY ImageIsFinite
<1>2. IsFiniteSet({a} \cup F)
  BY <1>1, FS_Singleton, FS_Union
<1>3. T \in SUBSET Int /\ a \in T /\ \A p \in C : f[p] \in T
  OBVIOUS
<1>4. IsFiniteSet(T)
  BY <1>2
<1>5. /\ Min(T) \in T /\ \A y \in T : Min(T) <= y
      /\ Max(T) \in T /\ \A y \in T : y <= Max(T)
  BY <1>3, <1>4, MinIsThere, MaxIsThere
<1>6. QED BY <1>3, <1>5

LEMMA BoxHolds ==
    ASSUME NEW map, IsDraft(map), ~Raises(map), map.boundary # Malformed
    PROVE  /\ InOrder(Box(map))
           /\ \A p \in Corners(Exclusions(map)) \cup Corners(Spots(map)) : p \in PointSet /\ InBox(Box(map), p)
<1> DEFINE b == map.boundary
           C == Corners(Exclusions(map)) \cup Corners(Spots(map))
           fx == [p \in C |-> p.x]
           fy == [p \in C |-> p.y]
           X1 == {b.x1} \cup {p.x : p \in C}
           X2 == {b.x2} \cup {p.x : p \in C}
           Y1 == {b.y1} \cup {p.y : p \in C}
           Y2 == {b.y2} \cup {p.y : p \in C}
<1>1. /\ b.x1 \in Int /\ b.x2 \in Int /\ b.y1 \in Int /\ b.y2 \in Int
      /\ b.x1 <= b.x2 /\ b.y1 <= b.y2
  BY DEF IsDraft
<1>2. IsFiniteSet(C) /\ C \subseteq PointSet
  <2>1. /\ IsFiniteSet(Corners(Exclusions(map))) /\ Corners(Exclusions(map)) \subseteq PointSet
        /\ IsFiniteSet(Corners(Spots(map))) /\ Corners(Spots(map)) \subseteq PointSet
    BY ExclusionList, SpotList, CornersAre
  <2>2. QED BY <2>1, FS_Union
<1>0. Box(map) = [x1 |-> Min(X1), x2 |-> Max(X2), y1 |-> Min(Y1), y2 |-> Max(Y2)]
  BY DEF Box
<1> HIDE DEF C, b
<1>3. /\ \A p \in C : p.x \in Int /\ p.y \in Int
      /\ \A p \in C : fx[p] = p.x /\ fy[p] = p.y
  BY <1>2 DEF PointSet
<1>4. /\ X1 = {b.x1} \cup {fx[p] : p \in C} /\ X2 = {b.x2} \cup {fx[p] : p \in C}
      /\ Y1 = {b.y1} \cup {fy[p] : p \in C} /\ Y2 = {b.y2} \cup {fy[p] : p \in C}
  BY <1>3
<1> HIDE DEF fx, fy, X1, X2, Y1, Y2
<1>5. /\ Min(X1) \in Int /\ Min(X1) <= b.x1 /\ \A p \in C : Min(X1) <= fx[p]
      /\ Max(X2) \in Int /\ b.x2 <= Max(X2) /\ \A p \in C : fx[p] <= Max(X2)
  BY <1>1, <1>2, <1>3, <1>4, LeastOf
<1>6. /\ Min(Y1) \in Int /\ Min(Y1) <= b.y1 /\ \A p \in C : Min(Y1) <= fy[p]
      /\ Max(Y2) \in Int /\ b.y2 <= Max(Y2) /\ \A p \in C : fy[p] <= Max(Y2)
  BY <1>1, <1>2, <1>3, <1>4, LeastOf
<1>7. InOrder(Box(map))
  BY <1>0, <1>1, <1>5, <1>6 DEF InOrder
<1>8. \A p \in C : p \in PointSet /\ InBox(Box(map), p)
  BY <1>0, <1>2, <1>3, <1>5, <1>6 DEF InBox
<1>9. QED BY <1>7, <1>8 DEF C

\* The picture shows an area where its mirror image is.
LEMMA MirroredCorners ==
    ASSUME NEW box, InOrder(box), NEW areas, AreaList(areas),
           \A p \in Corners(areas) : p \in PointSet /\ InBox(box, p)
    PROVE  \A p \in Corners(MirroredAreas(box, areas)) : InBox(box, p)
<1>1. PICK n \in Nat : /\ DOMAIN areas = 1 .. n
                       /\ \A i \in 1 .. n : "points" \in DOMAIN areas[i] /\ areas[i].points \in Seq(PointSet)
  BY DEF AreaList
<1> DEFINE mirrored == MirroredAreas(box, areas)
<1>2. mirrored = [i \in 1 .. n |-> [areas[i] EXCEPT !.points =
                 [j \in DOMAIN areas[i].points |-> Mirror(box, areas[i].points[j])]]]
  BY <1>1 DEF MirroredAreas, MapSeq
<1> HIDE DEF mirrored
<1>3. DOMAIN mirrored = 1 .. n /\ \A i \in 1 .. n :
          mirrored[i].points = [j \in DOMAIN areas[i].points |-> Mirror(box, areas[i].points[j])]
  BY <1>1, <1>2
<1>4. ASSUME NEW q \in Corners(mirrored) PROVE \E p \in Corners(areas) : q = Mirror(box, p)
  <2>1. PICK i \in 1 .. n : q \in ToSet(mirrored[i].points)
    BY <1>3, <1>4 DEF Corners
  <2>2. PICK j \in DOMAIN areas[i].points : q = Mirror(box, areas[i].points[j])
    BY <1>3, <2>1 DEF ToSet
  <2>3. areas[i].points[j] \in ToSet(areas[i].points)
    BY <2>2 DEF ToSet
  <2>4. areas[i].points[j] \in Corners(areas)
    BY <1>1, <2>3 DEF Corners
  <2>5. QED BY <2>2, <2>4
<1>5. ASSUME NEW p \in PointSet, InBox(box, p) PROVE InBox(box, Mirror(box, p))
  BY <1>5 DEF InBox, Mirror, PointSet, InOrder
<1>6. QED BY <1>4, <1>5 DEF mirrored

-----------------------------------------------------------------------------
LEMMA ContoursAre ==
    ASSUME NEW map, IsDraft(map)
    PROVE  /\ \A c \in ToSet(MapContours(map)) : HasOutline(map.contours, c.id, c.path)
           /\ \A e \in ToSet(map.contours) : HasKey(e) /\ IsOutline(e) =>
                  \E c \in ToSet(MapContours(map)) : c.id = e.key /\ c.path = GoodPoints(e.path)
<1> DEFINE out == Outlines(map)
           Row(i) == [id |-> IF HasKey(out[i]) THEN out[i].key ELSE <<1, i - 1>>, path |-> GoodPoints(out[i].path)]
<1>1. ToSet(out) = ToSet(map.contours) \cap {e \in ToSet(map.contours) : IsOutline(e)}
  BY FilteredSet DEF IsDraft, Section, Outlines
<1>2. MapContours(map) = [i \in DOMAIN out |-> Row(i)]
  BY DEF MapContours
<1> HIDE DEF out
<1>3. ASSUME NEW c \in ToSet(MapContours(map)) PROVE HasOutline(map.contours, c.id, c.path)
  <2>1. PICK i \in DOMAIN out : c = Row(i)
    BY <1>2, <1>3 DEF ToSet
  <2>2. out[i] \in ToSet(map.contours) /\ IsOutline(out[i])
    BY <1>1 DEF ToSet
  <2>3. c.path = GoodPoints(out[i].path) /\ (HasKey(out[i]) => c.id = out[i].key)
    BY <2>1
  <2>4. QED BY <2>2, <2>3 DEF HasOutline, IsOutline, HasKey, Keyed
<1>4. ASSUME NEW e \in ToSet(map.contours), HasKey(e), IsOutline(e)
      PROVE  \E c \in ToSet(MapContours(map)) : c.id = e.key /\ c.path = GoodPoints(e.path)
  <2>1. PICK i \in DOMAIN out : out[i] = e
    BY <1>1, <1>4 DEF ToSet
  <2>2. MapContours(map)[i] = Row(i) /\ MapContours(map)[i] \in ToSet(MapContours(map))
    BY <1>2 DEF ToSet
  <2>3. QED BY <2>1, <2>2, <1>4
<1>5. QED BY <1>3, <1>4

LEMMA ZonesAre ==
    ASSUME NEW map, IsDraft(map)
    PROVE  \A z \in ToSet(Zones(map)) : HasOutline(map.mowingAreas, z.id, z.path) \/ z.id = 1
<1> DEFINE U == Usable(map.mowingAreas)
           out == Filtered(U, {e \in ToSet(U) : IsZone(e)})
<1>1. /\ U \in Seq(ToSet(U))
      /\ ToSet(U) = {e \in ToSet(map.mowingAreas) : e.form # "other" /\ e.path # <<>>}
  BY UsableEntries DEF IsDraft
<1>2. Zones(map) = [i \in DOMAIN out |-> [id |-> KeyOr(out[i], 1), path |-> GoodPoints(out[i].path)]]
  BY DEF Zones, MapSeq
<1> HIDE DEF U
<1>3. ToSet(out) \subseteq ToSet(U)
  BY <1>1, FilteredSet
<1> HIDE DEF out
<1>4. ASSUME NEW z \in ToSet(Zones(map)) PROVE HasOutline(map.mowingAreas, z.id, z.path) \/ z.id = 1
  <2>1. PICK i \in DOMAIN out : z = [id |-> KeyOr(out[i], 1), path |-> GoodPoints(out[i].path)]
    BY <1>2, <1>4 DEF ToSet
  <2>2. out[i] \in ToSet(map.mowingAreas) /\ out[i].form # "other"
    BY <1>1, <1>3 DEF ToSet
  <2>3. z.path = GoodPoints(out[i].path) /\ (out[i].key = None => z.id = 1) /\ (out[i].key # None => z.id = out[i].key)
    BY <2>1 DEF KeyOr
  <2>4. QED BY <2>2, <2>3 DEF HasOutline
<1>5. QED BY <1>4

-----------------------------------------------------------------------------
(***************************************************************************)
(* What the picture of a map and its coordinates have in common.           *)
(***************************************************************************)
SizesOf(d) ==
    /\ InOrder(d.box)
    /\ d.width \in Int /\ GRID_SIZE_MM * (d.width - 1) <= d.box.x2 - d.box.x1
                       /\ d.box.x2 - d.box.x1 < GRID_SIZE_MM * d.width
    /\ d.height \in Int /\ GRID_SIZE_MM * (d.height - 1) <= d.box.y2 - d.box.y1
                        /\ d.box.y2 - d.box.y1 < GRID_SIZE_MM * d.height
    /\ d.dock # None => d.dock = [x |-> d.box.x1 + d.box.x2 - CHARGER_OFFSET_MM, y |-> d.box.y1 + d.box.y2]

LEMMA CellsAcross ==
    ASSUME NEW a \in Int, NEW b \in Int, a <= b,
           NEW w, w = Max({1, (b - a) \div GRID_SIZE_MM + 1})
    PROVE  w \in Int /\ GRID_SIZE_MM * (w - 1) <= b - a /\ b - a < GRID_SIZE_MM * w
<1> DEFINE q == (b - a) \div 50
<1>1. q \in Int /\ 50 * q <= b - a /\ b - a < 50 * (q + 1) /\ q >= 0
  OBVIOUS
<1>2. w = Max({1, q + 1})
  BY DEF GRID_SIZE_MM
<1> HIDE DEF q
<1>3. w = q + 1
  BY <1>1, <1>2, GreaterOfTwo
<1>4. QED BY <1>1, <1>3 DEF GRID_SIZE_MM

LEMMA SizesHold ==
    ASSUME NEW map, IsDraft(map), ~Raises(map), map.boundary # Malformed
    PROVE  SizesOf(ParseCloudMap(map))
<1> DEFINE d == ParseCloudMap(map)
           box == Box(map)
<1>1. /\ d.box = box
      /\ d.width = Max({1, (box.x2 - box.x1) \div GRID_SIZE_MM + 1})
      /\ d.height = Max({1, (box.y2 - box.y1) \div GRID_SIZE_MM + 1})
      /\ d.dock # None => d.dock = Mirror(box, [x |-> CHARGER_OFFSET_MM, y |-> 0])
  BY DEF ParseCloudMap, ParsedIn
<1>2. InOrder(box)
  BY BoxHolds
<1> HIDE DEF d, box
<1>3. /\ box.x1 \in Int /\ box.x2 \in Int /\ box.x1 <= box.x2
      /\ box.y1 \in Int /\ box.y2 \in Int /\ box.y1 <= box.y2
  BY <1>2 DEF InOrder
<1>4. /\ d.width \in Int /\ GRID_SIZE_MM * (d.width - 1) <= box.x2 - box.x1
      /\ box.x2 - box.x1 < GRID_SIZE_MM * d.width
  BY <1>1, <1>3, CellsAcross
<1>5. /\ d.height \in Int /\ GRID_SIZE_MM * (d.height - 1) <= box.y2 - box.y1
      /\ box.y2 - box.y1 < GRID_SIZE_MM * d.height
  BY <1>1, <1>3, CellsAcross
<1>6. d.dock # None => d.dock = [x |-> box.x1 + box.x2 - CHARGER_OFFSET_MM, y |-> box.y1 + box.y2]
  BY <1>1, <1>3 DEF Mirror
<1>7. SizesOf(d)
  BY <1>1, <1>2, <1>4, <1>5, <1>6 DEF SizesOf
<1>8. QED BY <1>7 DEF d

\* A picture with the md5 of another map has the same cells, and the dock at the
\* same place, which holds the sum of the ends of the box.
LEMMA SamePicture ==
    ASSUME NEW s, SizesOf(s), NEW d, SizesOf(d), Fingerprint(s) = Fingerprint(d), d.dock # None
    PROVE  /\ s.box.x2 - d.box.x2 \in -(GRID_SIZE_MM - 1) .. GRID_SIZE_MM - 1
           /\ s.box.y2 - d.box.y2 \in -(GRID_SIZE_MM - 1) .. GRID_SIZE_MM - 1
<1>1. <<s.width, s.height>> = <<d.width, d.height>> /\ s.dock = d.dock
  <2>1. Fingerprint(s).dims = Fingerprint(d).dims /\ Fingerprint(s).charger = Fingerprint(d).charger
    OBVIOUS
  <2>2. QED BY <2>1 DEF Fingerprint
<1>2. s.width = d.width /\ s.height = d.height
  BY <1>1
<1>3. /\ s.dock = [x |-> s.box.x1 + s.box.x2 - CHARGER_OFFSET_MM, y |-> s.box.y1 + s.box.y2]
      /\ d.dock = [x |-> d.box.x1 + d.box.x2 - CHARGER_OFFSET_MM, y |-> d.box.y1 + d.box.y2]
  BY <1>1 DEF SizesOf
<1>4. /\ s.dock.x = s.box.x1 + s.box.x2 - CHARGER_OFFSET_MM /\ s.dock.y = s.box.y1 + s.box.y2
      /\ d.dock.x = d.box.x1 + d.box.x2 - CHARGER_OFFSET_MM /\ d.dock.y = d.box.y1 + d.box.y2
  BY <1>3
<1>5. /\ s.box.x1 \in Int /\ s.box.x2 \in Int /\ d.box.x1 \in Int /\ d.box.x2 \in Int
      /\ s.box.y1 \in Int /\ s.box.y2 \in Int /\ d.box.y1 \in Int /\ d.box.y2 \in Int
      /\ s.width \in Int /\ s.height \in Int
  BY DEF SizesOf, InOrder
<1>6. /\ s.box.x1 + s.box.x2 = d.box.x1 + d.box.x2
      /\ s.box.y1 + s.box.y2 = d.box.y1 + d.box.y2
  <2>1. s.dock.x = d.dock.x /\ s.dock.y = d.dock.y
    BY <1>1
  <2>2. \A a, b, e, f, g \in Int : g = a + b - 800 /\ g = e + f - 800 => a + b = e + f
    OBVIOUS
  <2>3. s.dock.x \in Int
    BY <1>4, <1>5 DEF CHARGER_OFFSET_MM
  <2>4. s.dock.x = s.box.x1 + s.box.x2 - 800 /\ s.dock.x = d.box.x1 + d.box.x2 - 800
    BY <1>4, <2>1 DEF CHARGER_OFFSET_MM
  <2>5. s.box.x1 + s.box.x2 = d.box.x1 + d.box.x2
    <3> DEFINE a == s.box.x1  b == s.box.x2  e == d.box.x1  f == d.box.x2  g == s.dock.x
    <3>1. a \in Int /\ b \in Int /\ e \in Int /\ f \in Int /\ g \in Int /\ g = a + b - 800 /\ g = e + f - 800
      BY <1>5, <2>3, <2>4
    <3> HIDE DEF a, b, e, f, g
    <3>2. a + b = e + f
      BY <3>1
    <3>3. QED BY <3>2 DEF a, b, e, f
  <2>6. QED BY <1>4, <2>1, <2>5
<1>7. /\ 50 * (s.width - 1) <= s.box.x2 - s.box.x1 /\ s.box.x2 - s.box.x1 < 50 * s.width
      /\ 50 * (s.width - 1) <= d.box.x2 - d.box.x1 /\ d.box.x2 - d.box.x1 < 50 * s.width
      /\ 50 * (s.height - 1) <= s.box.y2 - s.box.y1 /\ s.box.y2 - s.box.y1 < 50 * s.height
      /\ 50 * (s.height - 1) <= d.box.y2 - d.box.y1 /\ d.box.y2 - d.box.y1 < 50 * s.height
  BY <1>2 DEF SizesOf, GRID_SIZE_MM
<1>8. ASSUME NEW a \in Int, NEW b \in Int, NEW e \in Int, NEW f \in Int, NEW w \in Int, a + b = e + f,
             50 * (w - 1) <= b - a, b - a < 50 * w, 50 * (w - 1) <= f - e, f - e < 50 * w
      PROVE  b - f \in -49 .. 49
  BY <1>8
<1>9. s.box.x2 - d.box.x2 \in -49 .. 49
  BY <1>5, <1>6, <1>7, <1>8
<1>10. s.box.y2 - d.box.y2 \in -49 .. 49
  BY <1>5, <1>6, <1>7, <1>8
<1>11. QED BY <1>9, <1>10 DEF GRID_SIZE_MM

-----------------------------------------------------------------------------
(***************************************************************************)
(* The refresh.  MapIsTrue needs that what is decoded is what was read,    *)
(* and that the picture of every decoded map has the md5 of the map.       *)
(***************************************************************************)
CloudMapsInv ==
    /\ \A m \in DOMAIN lots : lots[m] \in Drafts
    /\ \A m \in DOMAIN seenLots : seenLots[m] \in Drafts
    /\ decoded = ParseCloudMaps(seenLots)
    /\ \A m \in DOMAIN decoded : ~Raises(seenLots[m])
    /\ \A m \in DOMAIN statics : SizesOf(statics[m])
    /\ \A m \in DOMAIN decoded : m \in DOMAIN statics /\ Fingerprint(statics[m]) = Fingerprint(decoded[m])

LEMMA DecodedMaps ==
    ASSUME NEW read, NEW maps, maps = ParseCloudMaps(read)
    PROVE  /\ \A m : m \in DOMAIN maps <=> m \in DOMAIN read /\ ~Unbounded(read[m])
           /\ \A m \in DOMAIN maps : maps[m] = ParseCloudMap(read[m]) /\ read[m].boundary # Malformed
  BY DEF ParseCloudMaps, Unbounded

LEMMA InitMaps == CloudMapsInit => CloudMapsInv
<1> SUFFICES ASSUME CloudMapsInit PROVE CloudMapsInv
  OBVIOUS
<1>1. DOMAIN lots = {} /\ DOMAIN seenLots = {} /\ DOMAIN statics = {} /\ DOMAIN decoded = {}
  BY DEF CloudMapsInit, NoMaps
<1>2. ParseCloudMaps(NoMaps) = NoMaps
  BY DEF ParseCloudMaps, NoMaps
<1>3. QED BY <1>1, <1>2 DEF CloudMapsInit, CloudMapsInv

LEMMA RefreshStep ==
    ASSUME CloudMapsInv, NEW answer, RefreshMaps(answer)
    PROVE  CloudMapsInv'
<1> DEFINE read == ReadMaps(answer)
           maps == ParseCloudMaps(read)
<1>1. \A m \in DOMAIN read : read[m] \in Drafts
  BY DEF CloudMapsInv, ReadMaps, NoMaps
<1>2. /\ \A m \in DOMAIN read : ~Unbounded(read[m]) => ~Raises(read[m])
      /\ seenLots' = read /\ decoded' = maps /\ lots' = lots
      /\ statics' = [m \in DOMAIN statics \cup DOMAIN decoded' |->
            IF m \in DOMAIN decoded' /\ (m \in DOMAIN statics => Fingerprint(statics[m]) # Fingerprint(decoded'[m]))
            THEN decoded'[m] ELSE statics[m]]
  BY DEF RefreshMaps, RenderMaps
<1>3. /\ \A m : m \in DOMAIN maps <=> m \in DOMAIN read /\ ~Unbounded(read[m])
      /\ \A m \in DOMAIN maps : maps[m] = ParseCloudMap(read[m]) /\ read[m].boundary # Malformed
  BY DecodedMaps
<1>7. decoded' = ParseCloudMaps(seenLots')
  BY <1>2
<1> HIDE DEF read, maps
<1>4. \A m \in DOMAIN maps : SizesOf(maps[m])
  BY <1>1, <1>2, <1>3, SizesHold, CloudMapsAssumption
<1>5. \A m \in DOMAIN maps : ~Raises(seenLots'[m])
  BY <1>2, <1>3
<1>6. /\ \A m \in DOMAIN statics' : SizesOf(statics'[m])
      /\ \A m \in DOMAIN maps : m \in DOMAIN statics' /\ Fingerprint(statics'[m]) = Fingerprint(maps[m])
  <2>1. \A m \in DOMAIN statics : SizesOf(statics[m])
    BY DEF CloudMapsInv
  <2>2. statics' = [m \in DOMAIN statics \cup DOMAIN maps |->
            IF m \in DOMAIN maps /\ (m \in DOMAIN statics => Fingerprint(statics[m]) # Fingerprint(maps[m]))
            THEN maps[m] ELSE statics[m]]
    BY <1>2
  <2>3. QED BY <2>1, <2>2, <1>4
<1>8. QED BY <1>1, <1>2, <1>5, <1>6, <1>7 DEF CloudMapsInv

LEMMA MapsStep == CloudMapsInv /\ [CloudMapsNext]_cloudMaps => CloudMapsInv'
<1> SUFFICES ASSUME CloudMapsInv, [CloudMapsNext]_cloudMaps PROVE CloudMapsInv'
  OBVIOUS
<1>1. ASSUME NEW m \in Indices, NEW map \in Drafts, DrawLot(m, map) PROVE CloudMapsInv'
  BY <1>1 DEF CloudMapsInv, DrawLot
<1>2. ASSUME NEW m \in Indices, RemoveLot(m) PROVE CloudMapsInv'
  BY <1>2 DEF CloudMapsInv, RemoveLot
<1>3. ASSUME NEW answer, RefreshMaps(answer) PROVE CloudMapsInv'
  BY <1>3, RefreshStep
<1>4. CASE UNCHANGED cloudMaps
  BY <1>4 DEF CloudMapsInv, cloudMaps
<1>5. QED BY <1>1, <1>2, <1>3, <1>4 DEF CloudMapsNext

LEMMA MapsAreTrue == CloudMapsInv => MapIsTrue
<1> SUFFICES ASSUME CloudMapsInv PROVE MapIsTrue
  OBVIOUS
<1> SUFFICES ASSUME NEW m \in DOMAIN decoded
             PROVE  LET d == decoded[m]
                        map == seenLots[m]
                    IN  /\ \A p \in Corners(d.exclusions) \cup Corners(d.spots) : InBox(d.box, p)
                        /\ GRID_SIZE_MM * (d.width - 1) <= d.box.x2 - d.box.x1
                        /\ \A c \in ToSet(d.contours) : HasOutline(map.contours, c.id, c.path)
                        /\ \A z \in ToSet(d.zones) : HasOutline(map.mowingAreas, z.id, z.path) \/ z.id = 1
                        /\ \A e \in ToSet(map.contours) : HasKey(e) /\ IsOutline(e) =>
                               \E c \in ToSet(d.contours) : c.id = e.key /\ c.path = GoodPoints(e.path)
                        /\ d.dock # None =>
                               /\ statics[m].box.x2 - d.box.x2 \in -(GRID_SIZE_MM - 1) .. GRID_SIZE_MM - 1
                               /\ statics[m].box.y2 - d.box.y2 \in -(GRID_SIZE_MM - 1) .. GRID_SIZE_MM - 1
  BY DEF MapIsTrue
<1> DEFINE d == decoded[m]
           map == seenLots[m]
           box == Box(map)
<1>1. /\ m \in DOMAIN seenLots /\ d = ParseCloudMap(map) /\ map.boundary # Malformed /\ ~Raises(map)
  BY DecodedMaps DEF CloudMapsInv
<1>2. IsDraft(map)
  BY <1>1, CloudMapsAssumption DEF CloudMapsInv
<1>3. /\ d.box = box /\ d.zones = Zones(map) /\ d.contours = MapContours(map)
      /\ d.exclusions = MirroredAreas(box, Exclusions(map)) /\ d.spots = MirroredAreas(box, Spots(map))
  BY <1>1 DEF ParseCloudMap, ParsedIn
<1>9. SizesOf(statics[m]) /\ Fingerprint(statics[m]) = Fingerprint(d)
  BY DEF CloudMapsInv
<1>10. SizesOf(d)
  BY <1>1, <1>2, SizesHold
<1> HIDE DEF d, map
<1>4. /\ InOrder(box)
      /\ \A p \in Corners(Exclusions(map)) \cup Corners(Spots(map)) : p \in PointSet /\ InBox(box, p)
  BY <1>1, <1>2, BoxHolds
<1> HIDE DEF box
<1>5. \A p \in Corners(MirroredAreas(box, Exclusions(map))) : InBox(box, p)
  BY <1>1, <1>2, <1>4, ExclusionList, MirroredCorners
<1>6. \A p \in Corners(MirroredAreas(box, Spots(map))) : InBox(box, p)
  BY <1>1, <1>2, <1>4, SpotList, MirroredCorners
<1>7. \A p \in Corners(d.exclusions) \cup Corners(d.spots) : InBox(d.box, p)
  BY <1>3, <1>5, <1>6
<1>8. GRID_SIZE_MM * (d.width - 1) <= d.box.x2 - d.box.x1
  BY <1>10 DEF SizesOf
<1>11. /\ \A c \in ToSet(d.contours) : HasOutline(map.contours, c.id, c.path)
       /\ \A e \in ToSet(map.contours) : HasKey(e) /\ IsOutline(e) =>
              \E c \in ToSet(d.contours) : c.id = e.key /\ c.path = GoodPoints(e.path)
  BY <1>2, <1>3, ContoursAre
<1>12. \A z \in ToSet(d.zones) : HasOutline(map.mowingAreas, z.id, z.path) \/ z.id = 1
  BY <1>2, <1>3, ZonesAre
<1>13. d.dock # None =>
           /\ statics[m].box.x2 - d.box.x2 \in -(GRID_SIZE_MM - 1) .. GRID_SIZE_MM - 1
           /\ statics[m].box.y2 - d.box.y2 \in -(GRID_SIZE_MM - 1) .. GRID_SIZE_MM - 1
  BY <1>9, <1>10, SamePicture
<1>14. QED BY <1>7, <1>8, <1>11, <1>12, <1>13 DEF d, map

\* What a refresh has decoded is true of the maps that the cloud had.
THEOREM MapsStayTrue == CloudMapsSpec => []MapIsTrue
<1>1. CloudMapsInit => CloudMapsInv
  BY InitMaps
<1>2. CloudMapsInv /\ [CloudMapsNext]_cloudMaps => CloudMapsInv'
  BY MapsStep
<1>3. CloudMapsInv => MapIsTrue
  BY MapsAreTrue
<1>4. QED BY <1>1, <1>2, <1>3, PTL DEF CloudMapsSpec
=============================================================================
