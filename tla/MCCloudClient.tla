---------------------------- MODULE MCCloudClient ----------------------------
(* Model values for CloudClient.                                           *)
EXTENDS CloudClient
CONSTANTS t1, t2, c1, c2
OneThread == {t1}
TwoThreads == {t1, t2}
OneCommand == {c1}
TwoCommands == {c1, c2}
=============================================================================
