------------------------------- MODULE OneShot -------------------------------
(***************************************************************************)
(* What the host library relies on in pal_os_event.c: a handler that is    *)
(* handed over runs once, later, with its own argument.  A handler and its *)
(* argument together are a job.                                            *)
(***************************************************************************)
CONSTANTS Jobs,  \* the handlers with their arguments
          NoJob  \* none of them

VARIABLES armed,  \* the job that is to run, or NoJob
          ran     \* the job that ran last, or NoJob

vars == <<armed, ran>>

Init == armed = NoJob /\ ran = NoJob

Arm(j) == armed = NoJob /\ armed' = j /\ UNCHANGED ran

Run == armed # NoJob /\ ran' = armed /\ armed' = NoJob

Next == Run \/ \E j \in Jobs : Arm(j)

Safety == Init /\ [][Next]_vars

Spec == Safety /\ WF_vars(Run)
=============================================================================
