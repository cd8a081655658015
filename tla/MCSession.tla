------------------------------ MODULE MCSession ------------------------------
(* Model values for SessionLifecycle: two finalize coroutines may overlap. *)
(* The slots are interchangeable.                                          *)
EXTENDS SessionLifecycle, TLC
CONSTANTS t1, t2
MCTasks  == {t1, t2}
Symmetry == Permutations(MCTasks)
=============================================================================
