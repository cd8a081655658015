------------------------------ MODULE MCWrites ------------------------------
(* Model values for Writes.                                                *)
EXTENDS Writes
CONSTANTS f1, f2, p1, p2, s1, s2, j1, j2, v1, v2
OneSetting  == {f1}
TwoSettings == {f1, f2}
OnePart  == {p1}
TwoParts == {p1, p2}
OneSlot  == {s1}
TwoSlots == {s1, s2}
AllOrNone == {{}, {"settings", "cfg", "schedule"}}
MCJobs   == {j1, j2}
MCValues == {v1, v2}
MCEdits  == {v2}
=============================================================================
