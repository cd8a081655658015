-------------------------- MODULE MCNotifications --------------------------
(* The notifications and the work log: a behaviour is one of one of them,  *)
(* and the other rests.                                                    *)
EXTENDS Notifications, WorkLog, TLC
CONSTANTS j1, j2, c1, c2
VARIABLE part

\* Two sessions of one minute and md5, and one whose map is unknown and whose
\* body does not parse.
Log(end, map, at, good) == [end |-> end, map |-> map, at |-> at, md5 |-> 100, parses |-> good, zones |-> end = 2]
TheLogs == {Log(1, 1, 7, TRUE), Log(2, 1, 7, TRUE), Log(3, -1, 8, FALSE)}

\* A start without maps, and one with both maps and two sessions.
MCInit ==
    /\ part \in {"notifications", "workLog"}
    /\ Init
    /\ WorkLogInit
    /\ width = 24 /\ loadedMaps \in {{}} \cup (IF part = "workLog" THEN {{0, 1}} ELSE {})
    /\ logs = {l \in TheLogs : l.end \in IF loadedMaps = {} THEN {1} ELSE {1, 2}}

MCNext ==
    /\ UNCHANGED part
    /\ \/ part = "notifications" /\ Next /\ UNCHANGED workLog
       \/ part = "workLog" /\ WorkLogNext /\ UNCHANGED vars

MCJobs   == {j1, j2}
MCCodes  == {c1, c2}
Symmetry == Permutations(MCJobs) \cup Permutations(MCCodes) \cup Permutations(Replays)
=============================================================================
