---------------------------- MODULE RoutedAction ----------------------------
(***************************************************************************)
(* What a command to the mower promises its caller, whatever the cloud     *)
(* does (cloud_client/_rpc.py: routed_action over action over send): the   *)
(* mower runs it at most MaxTries times, each time because of a request of *)
(* this command, and it is reported accepted only if it has run.  A        *)
(* command that is not reported accepted may have run all the same, and a  *)
(* request whose answer was lost may reach the mower after the report.     *)
(***************************************************************************)
EXTENDS Integers

CONSTANTS Commands, MaxTries

VARIABLES
    phase,       \* of each command
    sent,        \* how often it was sent
    runs         \* how often the mower ran it

vars == <<phase, sent, runs>>

Phases == {"new", "open", "accepted", "failed"}

Init ==
    /\ phase = [c \in Commands |-> "new"]
    /\ sent = [c \in Commands |-> 0] /\ runs = [c \in Commands |-> 0]

Open(c) ==
    /\ phase[c] = "new" /\ phase' = [phase EXCEPT ![c] = "open"]
    /\ UNCHANGED <<sent, runs>>

(* A request is sent; the mower may run it at once.                        *)
Send(c) ==
    /\ phase[c] = "open" /\ sent[c] < MaxTries
    /\ sent' = [sent EXCEPT ![c] = @ + 1]
    /\ \/ runs' = [runs EXCEPT ![c] = @ + 1]
       \/ UNCHANGED runs
    /\ UNCHANGED phase

(* A request that was sent before reaches the mower.                       *)
Arrive(c) ==
    /\ runs[c] < sent[c] /\ runs' = [runs EXCEPT ![c] = @ + 1]
    /\ UNCHANGED <<phase, sent>>

Report(c) ==
    /\ phase[c] = "open"
    /\ \/ phase' = [phase EXCEPT ![c] = "failed"]
       \/ runs[c] > 0 /\ phase' = [phase EXCEPT ![c] = "accepted"]
    /\ UNCHANGED <<sent, runs>>

Next == \E c \in Commands : Open(c) \/ Send(c) \/ Arrive(c) \/ Report(c)

Spec == Init /\ [][Next]_vars
=============================================================================
