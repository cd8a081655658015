----------------------------- MODULE MCArchive -----------------------------
(* The archive of sessions, that of heatmaps, and the pictures of the      *)
(* lawns: a behaviour is one of one of them, and the others rest.          *)
EXTENDS SessionArchive, Heatmaps, Pictures

VARIABLE part

MCInit ==
    /\ part \in {"sessions", "heatmaps", "pictures"}
    /\ Init /\ (part # "sessions" => keep = 0)
    /\ HeatmapsInit
    /\ PicturesInit
    /\ cloudLots = [m \in TheMaps |-> [print |-> m + 1, rest |-> 1]]
    /\ sessions = [m \in TheMaps |-> 1 - m]
    /\ scene.phase \in {"idle"} \cup (IF part = "pictures" THEN {"cruising"} ELSE {})

MCNext ==
    /\ UNCHANGED part
    /\ \/ part = "sessions" /\ Next /\ UNCHANGED <<heatmaps, picturesVars>>
       \/ part = "heatmaps" /\ HeatmapsNext /\ UNCHANGED <<vars, picturesVars>>
       \/ part = "pictures" /\ PicturesNext /\ UNCHANGED <<vars, heatmaps>>

\* Three sessions, and placeholders of two of them, one with a start that was rounded.
Row(canonical, start, end) == [canonical |-> canonical, start |-> start, end |-> end]
MCSummaries == {Row(TRUE, 10, 20), Row(FALSE, 12, 29), Row(TRUE, 40, 50),
                Row(FALSE, 40, 55), Row(TRUE, 60, 70)}

\* Two objects that are one heatmap, and sessions on both lawns and beyond them.
TheHeat == [o \in Objects |-> IF o = 3 THEN [ts |-> 20, start |-> 4, cells |-> <<-80, -70>>]
                              ELSE [ts |-> 10, start |-> 0, cells |-> <<-60, 1>>]]
Sample(at, rssi) == [at |-> at, rssi |-> rssi]
TheWalks == {[lawn |-> 0, samples |-> <<Sample(1, -62), Sample(3, -50), Sample(9, -40)>>],
             [lawn |-> 1, samples |-> <<Sample(5, -80), Sample(-1, -90)>>],
             [lawn |-> 0, samples |-> <<Sample(20, -60)>>]}

\* A map that changes in what its md5 is made from, and in the rest.
TheLots == {[print |-> 1, rest |-> 1], [print |-> 1, rest |-> 2], [print |-> 2, rest |-> 1]}

Symmetry == Permutations(Refreshes) \cup Permutations(Tasks)
=============================================================================
