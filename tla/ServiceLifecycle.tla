-------------------------- MODULE ServiceLifecycle --------------------------
(***************************************************************************)
(* What a WakeProxy service promises its requests, without its goroutines, *)
(* locks and timers: one start at a time, begun from Stopped only, ending  *)
(* in Running or back in Stopped; an idle service goes from Running to     *)
(* Stopped; and a request is let through only while the service is         *)
(* Running.  WakeService implements it.                                    *)
(***************************************************************************)
CONSTANT Requests

VARIABLES
    state,         \* Stopped, Starting or Running
    admitted       \* the requests let through

vars == <<state, admitted>>

Init ==
    /\ state = "Stopped"
    /\ admitted = {}

BeginStart == state = "Stopped" /\ state' = "Starting" /\ UNCHANGED admitted

EndStart ==
    /\ state = "Starting"
    /\ state' \in {"Running", "Stopped"}
    /\ UNCHANGED admitted

IdleStop == state = "Running" /\ state' = "Stopped" /\ UNCHANGED admitted

Admit(r) ==
    /\ state = "Running"
    /\ admitted' = admitted \union {r}
    /\ UNCHANGED state

Next == BeginStart \/ EndStart \/ IdleStop \/ \E r \in Requests : Admit(r)

Spec == Init /\ [][Next]_vars
=============================================================================
