-------------------------------- MODULE Mutex --------------------------------
(***************************************************************************)
(* What a caller of pal_os_lock.c relies on: a try-lock that succeeds      *)
(* exactly when nobody holds the lock, and one holder at a time.           *)
(***************************************************************************)
CONSTANT Contexts

VARIABLES holders,  \* the contexts that hold the lock
          answer    \* the answer to the last acquire of each context

vars == <<holders, answer>>

Init == holders = {} /\ answer = [c \in Contexts |-> "none"]

Acquire(c) ==
  /\ c \notin holders
  /\ \/ /\ holders = {}
        /\ holders' = {c}
        /\ answer' = [answer EXCEPT ![c] = "SUCCESS"]
     \/ /\ holders # {}
        /\ answer' = [answer EXCEPT ![c] = "FAILURE"]
        /\ UNCHANGED holders

Release(c) ==
  /\ c \in holders
  /\ holders' = holders \ {c}
  /\ UNCHANGED answer

Next == \E c \in Contexts : Acquire(c) \/ Release(c)

Spec == Init /\ [][Next]_vars
=============================================================================
