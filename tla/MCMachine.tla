----------------------------- MODULE MCMachine -----------------------------
(* Model values for MowerStateMachine.  2 stands for the docked task       *)
(* states that map to an activity, 13 for those that do not, 4 for a       *)
(* pause; 100 stands for the four mow ops.  Positions: at the dock, and    *)
(* off the dock by less and by more than one metre.                        *)
EXTENDS MowerStateMachine
MCTaskStates == {1, 2, 4, 5, 6, 13}
MCEvents     == {33, 48, 50, 75}
MCOps        == {10, 100, 108, 109}
MCPositions  == {0, 5, 12}
=============================================================================
