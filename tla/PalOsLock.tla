------------------------------ MODULE PalOsLock ------------------------------
(***************************************************************************)
(* The lock of the host library's port, COMPONENT_OPTIGA_CYHAL/            *)
(* pal_os_lock.c: a byte that is tested, incremented and decremented, each *)
(* access a step.  Its callers are contexts (tasks) that share one core    *)
(* under fixed priorities.  The critical sections of the port are empty    *)
(* functions, so a context of higher priority can preempt a call anywhere. *)
(*                                                                         *)
(* HoldAcross says how the lock is used.  FALSE: a context that became     *)
(* ready gives back the lock before it lets lower ones run again.  TRUE:   *)
(* it may keep the lock while it waits, as for an operation that is        *)
(* carried on by later timer events.                                       *)
(*                                                                         *)
(* Each Mutant_... is a plausible slip in the definition after it, under   *)
(* which TLC must find a property violated; no specification uses one.     *)
(***************************************************************************)
EXTENDS Naturals, FiniteSets

CONSTANTS Contexts,    \* callers of the lock
          Priority,    \* their priorities
          HoldAcross   \* the lock can be held by a context that is not ready

ASSUME ContextAssumption ==
  /\ IsFiniteSet(Contexts)
  /\ Priority \in [Contexts -> Nat]
  /\ \A c, d \in Contexts : Priority[c] = Priority[d] => c = d
  /\ HoldAcross \in BOOLEAN

VARIABLES lock,     \* p_lock->lock, a byte
          pc,       \* the point each context has reached in a call, or "out"
          reg,      \* its register in lock++ and lock--
          answer,   \* what its last acquire returned
          holders   \* contexts that were told SUCCESS and have not released

vars == <<lock, pc, reg, answer, holders>>

Width == 256

Points == {"out", "test", "inc_load", "inc_store", "confirm", "dec_load",
           "dec_store", "won", "rel_test", "rel_load", "rel_store"}

\* pal_os_lock_create
Init ==
  /\ lock = 0
  /\ pc = [c \in Contexts |-> "out"]
  /\ reg = [c \in Contexts |-> 0]
  /\ answer = [c \in Contexts |-> "none"]
  /\ holders = {}

----------------------------------------------------------------------------
(* The scheduler. *)

Ready(c) == pc[c] # "out" \/ (c \in holders /\ ~HoldAcross)

\* c runs: no ready context has a higher priority.
Runs(c) == \A d \in Contexts : Ready(d) => Priority[d] <= Priority[c]

\* Context c goes on from p to q.
Step(c, p, q) == Runs(c) /\ pc[c] = p /\ pc' = [pc EXCEPT ![c] = q]

----------------------------------------------------------------------------
(* lock++ and lock-- each load the byte and store it back. *)

StoreAfter == [inc_load |-> "inc_store", dec_load |-> "dec_store",
               rel_load |-> "rel_store"]

Load(c) ==
  /\ pc[c] \in DOMAIN StoreAfter
  /\ Step(c, pc[c], StoreAfter[pc[c]])
  /\ reg' = [reg EXCEPT ![c] = lock]
  /\ UNCHANGED <<lock, answer, holders>>

\* The byte is stored back as it was loaded.
Mutant_Unchanged(c) ==
  /\ pc[c] \in {"inc_store", "dec_store", "rel_store"}
  /\ Step(c, pc[c], IF pc[c] = "inc_store" THEN "confirm"
                    ELSE IF pc[c] = "dec_store" THEN "won" ELSE "out")
  /\ lock' = IF pc[c] = "inc_store" THEN (reg[c] + 1) % Width ELSE reg[c]
  /\ holders' = IF pc[c] = "rel_store" THEN holders \ {c} ELSE holders
  /\ UNCHANGED <<reg, answer>>

\* A release has taken effect, and ends, with its store.
Store(c) ==
  /\ pc[c] \in {"inc_store", "dec_store", "rel_store"}
  /\ Step(c, pc[c], IF pc[c] = "inc_store" THEN "confirm"
                    ELSE IF pc[c] = "dec_store" THEN "won" ELSE "out")
  /\ lock' = (reg[c] + (IF pc[c] = "inc_store" THEN 1 ELSE Width - 1)) % Width
  /\ holders' = IF pc[c] = "rel_store" THEN holders \ {c} ELSE holders
  /\ UNCHANGED <<reg, answer>>

----------------------------------------------------------------------------
(* pal_os_lock_acquire *)

EnterAcquire(c) ==
  /\ c \notin holders
  /\ Step(c, "out", "test")
  /\ UNCHANGED <<lock, reg, answer, holders>>

\* A lock that is held is taken as well.
Mutant_TakenAnyway(c) ==
  /\ Step(c, "test", IF lock = 0 THEN "inc_load" ELSE "won")
  /\ UNCHANGED <<lock, reg, answer, holders>>

\* return_status is declared without a value, and a refusal returns it.
Mutant_StatusUninitialised(c) ==
  /\ Step(c, "test", IF lock = 0 THEN "inc_load" ELSE "out")
  /\ answer' = IF lock = 0 THEN answer ELSE [answer EXCEPT ![c] = "uninitialised"]
  /\ UNCHANGED <<lock, reg, holders>>

\* if (!(p_lock->lock)), and FAILURE, the initial return_status, if not
Test(c) ==
  /\ Step(c, "test", IF lock = 0 THEN "inc_load" ELSE "out")
  /\ answer' = IF lock = 0 THEN answer ELSE [answer EXCEPT ![c] = "FAILURE"]
  /\ UNCHANGED <<lock, reg, holders>>

\* if (1 != p_lock->lock) p_lock->lock--;
Confirm(c) ==
  /\ Step(c, "confirm", IF lock = 1 THEN "won" ELSE "dec_load")
  /\ UNCHANGED <<lock, reg, answer, holders>>

\* return_status = PAL_STATUS_SUCCESS, after the decrement too
Won(c) ==
  /\ Step(c, "won", "out")
  /\ answer' = [answer EXCEPT ![c] = "SUCCESS"]
  /\ holders' = holders \cup {c}
  /\ UNCHANGED <<lock, reg>>

----------------------------------------------------------------------------
(* pal_os_lock_release *)

EnterRelease(c) ==
  /\ c \in holders
  /\ Step(c, "out", "rel_test")
  /\ UNCHANGED <<lock, reg, answer, holders>>

\* if (0 != p_lock->lock)
RelTest(c) ==
  /\ Step(c, "rel_test", IF lock # 0 THEN "rel_load" ELSE "out")
  /\ holders' = IF lock # 0 THEN holders ELSE holders \ {c}
  /\ UNCHANGED <<lock, reg, answer>>

Next == \E c \in Contexts :
          \/ EnterAcquire(c) \/ Test(c) \/ Load(c) \/ Store(c)
          \/ Confirm(c) \/ Won(c) \/ EnterRelease(c) \/ RelTest(c)

Spec == Init /\ [][Next]_vars

----------------------------------------------------------------------------
(* Correctness. *)

TypeOK ==
  /\ lock \in 0..(Width - 1)
  /\ pc \in [Contexts -> Points]
  /\ reg \in [Contexts -> 0..(Width - 1)]
  /\ answer \in [Contexts -> {"none", "SUCCESS", "FAILURE"}]
  /\ holders \subseteq Contexts

\* No two callers of pal_os_lock_acquire are told SUCCESS at a time.
MutualExclusion == \A c, d \in holders : c = d

\* The byte is set exactly while a context holds the lock or is about to be
\* told so: no refusal without a reason, and no release that is lost or that
\* wraps the byte round and wedges the lock for good.
InHand == holders \cup {c \in Contexts : pc[c] \in {"confirm", "won"}}

ByteIsTrue == lock # 0 <=> InHand # {}

\* The calls act as those of an atomic try-lock: acquire takes effect with
\* the store of lock++, release with the store of lock--.
M == INSTANCE Mutex
       WITH holders <- InHand,
            answer  <- [c \in Contexts |-> IF pc[c] \in {"confirm", "won"}
                                           THEN "SUCCESS" ELSE answer[c]]

MutexSpec == M!Spec
=============================================================================
