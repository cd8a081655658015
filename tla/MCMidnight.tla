----------------------------- MODULE MCMidnight -----------------------------
(* The controls, with a period that begins or ends at midnight.            *)
EXTENDS Controls
=============================================================================
