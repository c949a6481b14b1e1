----------------------------- MODULE OptigaApp -----------------------------
(***************************************************************************)
(* The application task of the example: OptigaApplication (main.c:178-187) *)
(* runs Cy_Optiga_Init, Cy_Optiga_Main and Cy_Optiga_Deinit of             *)
(* optiga_app.c once, then spins.  Each of the six chip operations is      *)
(* started by a call of the OPTIGA host library that returns at once; the  *)
(* library reports completion by calling one of three callbacks from the   *)
(* FreeRTOS timer daemon, and all three write the one word                 *)
(* optiga_lib_status on which the task busy-waits (WAIT_AND_CHECK_STATUS). *)
(*                                                                         *)
(* The host library is not in this repository: Accept, Reject, Complete    *)
(* and the variables live, inflight, opened and done model it from its     *)
(* uses here.                                                              *)
(*                                                                         *)
(* An operator named Mutant_... stands before the definition it mutates:   *)
(* a plausible slip in that piece of code, under which TLC must find a     *)
(* property violated.  No specification uses one.                          *)
(***************************************************************************)
EXTENDS Naturals

CONSTANTS OPTIGA_LIB_SUCCESS,
          OPTIGA_LIB_BUSY,
          NOT_SUCCESS,   \* the value of !OPTIGA_LIB_SUCCESS
          LibErrors,     \* error codes of the library
          NotLogged      \* a function that has not logged its status yet

ASSUME StatusAssumption ==
  /\ OPTIGA_LIB_SUCCESS # OPTIGA_LIB_BUSY
  /\ LibErrors # {}
  /\ LibErrors \cap {OPTIGA_LIB_SUCCESS, OPTIGA_LIB_BUSY} = {}
  /\ NOT_SUCCESS # OPTIGA_LIB_SUCCESS
  /\ NotLogged \notin LibErrors
       \cup {OPTIGA_LIB_SUCCESS, OPTIGA_LIB_BUSY, NOT_SUCCESS}

Status == LibErrors \cup {OPTIGA_LIB_SUCCESS, OPTIGA_LIB_BUSY, NOT_SUCCESS}

VARIABLES at,                 \* the step of the task's program
          phase,              \* where it is inside that step
          optiga_lib_status,  \* the word the callbacks write
          return_status,      \* the local of the running function
          ptr,                \* the instance pointers that are not NULL
          logged,             \* the status each function logged
          live,               \* instances allocated in the library
          inflight,           \* operations accepted and not completed
          opened,             \* the application is open on the chip
          done                \* operations the chip completed successfully

app     == <<at, phase, return_status, ptr, logged>>
library == <<live, inflight, opened, done>>
vars    == <<app, optiga_lib_status, library>>

----------------------------------------------------------------------------
(* The program as a table. *)

Pointers == {"me_util_instance", "crypt_me", "util_me"}

MainOps == {"write_metadata", "ecc_generate_keypair",
            "ecdsa_sign", "ecdsa_verify"}

Ops == MainOps \cup {"open_application", "close_application"}

Stages == Ops \cup {"init_create", "init_exit", "crypt_create",
                    "util_create", "main_exit", "crypt_destroy",
                    "util_destroy", "deinit_destroy", "deinit_exit", "spin"}

Phases == {"run", "mark", "call", "returned", "wait", "check", "fail"}

Functions == {"Init", "Main", "Deinit"}

\* The instance each operation is called on.
Instance(o) ==
  CASE o \in {"open_application", "close_application"} -> "me_util_instance"
    [] o = "write_metadata"                            -> "util_me"
    [] OTHER                                           -> "crypt_me"

\* Where the program continues when the operation has succeeded ...
After(o) ==
  CASE o = "open_application"     -> "init_exit"
    [] o = "write_metadata"       -> "ecc_generate_keypair"
    [] o = "ecc_generate_keypair" -> "ecdsa_sign"
    [] o = "ecdsa_sign"           -> "ecdsa_verify"
    [] o = "ecdsa_verify"         -> "main_exit"
    [] o = "close_application"    -> "deinit_destroy"

\* ... and where the break of WAIT_AND_CHECK_STATUS leads.
Break(o) ==
  CASE o = "open_application"  -> "init_exit"
    [] o = "close_application" -> "deinit_exit"
    [] OTHER                   -> "main_exit"

Goto(s) ==
  /\ at' = s
  /\ phase' = IF s \in Ops THEN "mark" ELSE "run"

Init ==
  /\ at = "init_create" /\ phase = "run"
  /\ optiga_lib_status = OPTIGA_LIB_SUCCESS   \* static storage: zero
  /\ return_status = NOT_SUCCESS
  /\ ptr = {}
  /\ logged = [f \in Functions |-> NotLogged]
  /\ live = {} /\ inflight = {} /\ opened = FALSE /\ done = {}

----------------------------------------------------------------------------
(* Instances. *)

\* p = optiga_xxx_create(...), skipped when p is not NULL; the library may be
\* out of instances and return NULL, on which the function breaks.
Create(s, p, next, break) ==
  /\ at = s
  /\ \E made \in (IF p \in ptr THEN {TRUE} ELSE BOOLEAN) :
       /\ ptr'  = IF made THEN ptr \cup {p} ELSE ptr
       /\ live' = IF made THEN live \cup {p} ELSE live
       /\ Goto(IF made THEN next ELSE break)
  /\ UNCHANGED <<return_status, logged, optiga_lib_status, inflight,
                 opened, done>>

InitCreate == Create("init_create", "me_util_instance",
                     "open_application", "init_exit")
CryptCreate == Create("crypt_create", "crypt_me", "util_create", "main_exit")
UtilCreate == Create("util_create", "util_me", "write_metadata", "main_exit")

\* The library refuses to destroy an instance that has an operation in flight.
InUse(p) == \E o \in inflight : Instance(o) = p

DestroyInstance(p) == live' = IF InUse(p) THEN live ELSE live \ {p}

DestroyResult(p) == IF InUse(p) THEN LibErrors ELSE {OPTIGA_LIB_SUCCESS}

\* if (p) return_status = optiga_xxx_destroy(p);
DestroyIfSet(p) ==
  IF p \in ptr
  THEN DestroyInstance(p) /\ return_status' \in DestroyResult(p)
  ELSE UNCHANGED <<live, return_status>>

\* The instance of crypt_me is forgotten.
Mutant_CryptNotDestroyed ==
  /\ at = "crypt_destroy"
  /\ Goto("util_destroy")
  /\ UNCHANGED <<return_status, ptr, logged, optiga_lib_status, library>>

CryptDestroy ==
  /\ at = "crypt_destroy"
  /\ DestroyIfSet("crypt_me")
  /\ Goto("util_destroy")
  /\ UNCHANGED <<ptr, logged, optiga_lib_status, inflight, opened, done>>

\* util_me and me_util_instance, both optiga_util_t *, are mixed up.
Mutant_WrongUtilDestroyed ==
  /\ at = "util_destroy"
  /\ DestroyInstance("me_util_instance")
  /\ ptr' = ptr \ {"crypt_me", "util_me"}
  /\ return_status' = NOT_SUCCESS
  /\ Goto("close_application")
  /\ UNCHANGED <<logged, optiga_lib_status, inflight, opened, done>>

\* A failed Cy_Optiga_Main ends the program without Cy_Optiga_Deinit.
Mutant_DeinitSkipped ==
  /\ at = "util_destroy"
  /\ IF "util_me" \in ptr THEN DestroyInstance("util_me") ELSE UNCHANGED live
  /\ ptr' = ptr \ {"crypt_me", "util_me"}
  /\ return_status' = NOT_SUCCESS
  /\ Goto(IF logged["Main"] = OPTIGA_LIB_SUCCESS
          THEN "close_application" ELSE "spin")
  /\ UNCHANGED <<logged, optiga_lib_status, inflight, opened, done>>

\* The second destroy ends Cy_Optiga_Main, and with it its two pointers;
\* Cy_Optiga_Deinit starts with a return_status of its own.
UtilDestroy ==
  /\ at = "util_destroy"
  /\ IF "util_me" \in ptr THEN DestroyInstance("util_me") ELSE UNCHANGED live
  /\ ptr' = ptr \ {"crypt_me", "util_me"}
  /\ return_status' = NOT_SUCCESS
  /\ Goto("close_application")
  /\ UNCHANGED <<logged, optiga_lib_status, inflight, opened, done>>

\* Cy_Optiga_Deinit ignores the result and clears the pointer in any case.
DeinitDestroy ==
  /\ at = "deinit_destroy"
  /\ DestroyInstance("me_util_instance")
  /\ ptr' = ptr \ {"me_util_instance"}
  /\ Goto("deinit_exit")
  /\ UNCHANGED <<return_status, logged, optiga_lib_status, inflight,
                 opened, done>>

----------------------------------------------------------------------------
(* One operation: mark busy, call, test the result, wait, test the status.  *)

\* The word is not marked busy before the call.
Mutant_NotMarked ==
  /\ phase = "mark"
  /\ phase' = "call"
  /\ UNCHANGED <<at, return_status, ptr, logged, optiga_lib_status, library>>

\* optiga_lib_status = OPTIGA_LIB_BUSY;
MarkBusy ==
  /\ phase = "mark"
  /\ optiga_lib_status' = OPTIGA_LIB_BUSY
  /\ phase' = "call"
  /\ UNCHANGED <<at, return_status, ptr, logged, library>>

\* return_status = optiga_xxx(...): the library queues the operation.
Accept ==
  /\ phase = "call"
  /\ Instance(at) \in ptr \cap live
  /\ ~InUse(Instance(at))
  /\ inflight' = inflight \cup {at}
  /\ return_status' = OPTIGA_LIB_SUCCESS
  /\ phase' = "returned"
  /\ UNCHANGED <<at, ptr, logged, optiga_lib_status, live, opened, done>>

\* The library refuses it: a NULL instance, one in use, or no resources.
\* It never calls back for an operation it refused.
Reject ==
  /\ phase = "call"
  /\ return_status' \in LibErrors
  /\ phase' = "returned"
  /\ UNCHANGED <<at, ptr, logged, optiga_lib_status, library>>

\* The word is marked busy after the call, when the answer may have come.
Mutant_MarkedAfterCall ==
  /\ phase = "returned"
  /\ IF return_status = OPTIGA_LIB_SUCCESS
     THEN phase' = "wait" /\ UNCHANGED at
     ELSE Goto(Break(at))
  /\ optiga_lib_status' = OPTIGA_LIB_BUSY
  /\ UNCHANGED <<return_status, ptr, logged, library>>

\* if (OPTIGA_LIB_SUCCESS != return_status) break;
CheckReturn ==
  /\ phase = "returned"
  /\ IF return_status = OPTIGA_LIB_SUCCESS
     THEN phase' = "wait" /\ UNCHANGED at
     ELSE Goto(Break(at))
  /\ UNCHANGED <<return_status, ptr, logged, optiga_lib_status, library>>

\* while (OPTIGA_LIB_BUSY == optiga_lib_status) {}
Await ==
  /\ phase = "wait"
  /\ optiga_lib_status # OPTIGA_LIB_BUSY
  /\ phase' = "check"
  /\ UNCHANGED <<at, return_status, ptr, logged, optiga_lib_status, library>>

\* if (OPTIGA_LIB_SUCCESS != optiga_lib_status): a second read of the
\* volatile word.  After the key pair return_status is set once more.
CheckStatus ==
  /\ phase = "check"
  /\ IF optiga_lib_status = OPTIGA_LIB_SUCCESS
     THEN /\ Goto(After(at))
          /\ return_status' = IF at = "ecc_generate_keypair"
                              THEN OPTIGA_LIB_SUCCESS ELSE return_status
     ELSE phase' = "fail" /\ UNCHANGED <<at, return_status>>
  /\ UNCHANGED <<ptr, logged, optiga_lib_status, library>>

\* The asynchronous error is not copied to return_status.
Mutant_AsyncErrorDropped ==
  /\ phase = "fail"
  /\ Goto(Break(at))
  /\ UNCHANGED <<return_status, ptr, logged, optiga_lib_status, library>>

\* An operation that failed is tried again.
Mutant_TriedAgain ==
  /\ phase = "fail"
  /\ return_status' = optiga_lib_status
  /\ Goto(at)
  /\ UNCHANGED <<ptr, logged, optiga_lib_status, library>>

\* return_status = optiga_lib_status; break;  -- the third read
Fail ==
  /\ phase = "fail"
  /\ return_status' = optiga_lib_status
  /\ Goto(Break(at))
  /\ UNCHANGED <<ptr, logged, optiga_lib_status, library>>

----------------------------------------------------------------------------
(* The ends of the three functions. *)

\* return_status of Cy_Optiga_Main has no initial value.
Mutant_StatusUninitialised ==
  /\ at = "init_exit"
  /\ logged' = [logged EXCEPT !["Init"] = return_status]
  /\ return_status' = NotLogged
  /\ Goto("crypt_create")
  /\ UNCHANGED <<ptr, optiga_lib_status, library>>

\* return_status of Cy_Optiga_Main starts as a success.
Mutant_StatusSuccess ==
  /\ at = "init_exit"
  /\ logged' = [logged EXCEPT !["Init"] = return_status]
  /\ return_status' = OPTIGA_LIB_SUCCESS
  /\ Goto("crypt_create")
  /\ UNCHANGED <<ptr, optiga_lib_status, library>>

\* OPTIGA_LOG_STATUS; Cy_Optiga_Main runs whatever Cy_Optiga_Init logged.
InitExit ==
  /\ at = "init_exit"
  /\ logged' = [logged EXCEPT !["Init"] = return_status]
  /\ return_status' = NOT_SUCCESS
  /\ Goto("crypt_create")
  /\ UNCHANGED <<ptr, optiga_lib_status, library>>

MainExit ==
  /\ at = "main_exit"
  /\ logged' = [logged EXCEPT !["Main"] = return_status]
  /\ Goto("crypt_destroy")
  /\ UNCHANGED <<return_status, ptr, optiga_lib_status, library>>

DeinitExit ==
  /\ at = "deinit_exit"
  /\ logged' = [logged EXCEPT !["Deinit"] = return_status]
  /\ Goto("spin")
  /\ UNCHANGED <<return_status, ptr, optiga_lib_status, library>>

\* while (true);
Spin == at = "spin" /\ UNCHANGED vars

----------------------------------------------------------------------------
(* The library completes an operation and calls back, at any moment: the   *)
(* timer daemon has a higher priority than the task.                       *)

Complete(o) ==
  /\ o \in inflight
  /\ inflight' = inflight \ {o}
  /\ \/ /\ opened \/ o = "open_application"
        /\ optiga_lib_status' = OPTIGA_LIB_SUCCESS
        /\ opened' = (o # "close_application")
        /\ done' = done \cup {o}
     \/ /\ optiga_lib_status' \in LibErrors
        /\ UNCHANGED <<opened, done>>
  /\ UNCHANGED <<app, live>>

TaskStep == \/ InitCreate \/ CryptCreate \/ UtilCreate
            \/ CryptDestroy \/ UtilDestroy \/ DeinitDestroy
            \/ MarkBusy \/ Accept \/ Reject \/ CheckReturn
            \/ Await \/ CheckStatus \/ Fail
            \/ InitExit \/ MainExit \/ DeinitExit

Next == TaskStep \/ Spin \/ \E o \in Ops : Complete(o)

\* The task is never starved: nothing of a higher priority runs for ever.
\* The library answers every operation it accepted.
Fairness == WF_vars(TaskStep) /\ \A o \in Ops : WF_vars(Complete(o))

Spec == Init /\ [][Next]_vars /\ Fairness

----------------------------------------------------------------------------
(* Correctness. *)

\* Every variable keeps its type.
TypeOK ==
  /\ at \in Stages /\ phase \in Phases
  /\ phase = "run" <=> at \notin Ops
  /\ optiga_lib_status \in Status /\ return_status \in Status
  /\ ptr \subseteq Pointers /\ live \subseteq Pointers
  /\ logged \in [Functions -> Status \cup {NotLogged}]
  /\ inflight \subseteq Ops /\ done \subseteq Ops /\ opened \in BOOLEAN

\* A completion can only arrive while its caller is at WAIT_AND_CHECK_STATUS
\* for that very operation.  So the one status word shared by the three
\* callbacks is never written on behalf of an operation other than the one
\* awaited, and public_key and signature, locals of Cy_Optiga_Main that the
\* library fills asynchronously, are alive while it does.
NoLateCallback ==
  \A o \in inflight : at = o /\ phase \in {"returned", "wait"}

\* The task never waits for a completion that has come already: marking the
\* word busy before the call is what makes this true.
NoLostWakeup ==
  phase = "wait" /\ optiga_lib_status = OPTIGA_LIB_BUSY => at \in inflight

\* A pointer the task passes to the library is NULL or a live instance, and
\* an instance with an operation in flight stays allocated.
NoDanglingInstance ==
  /\ phase = "call" /\ Instance(at) \in ptr => Instance(at) \in live
  /\ \A o \in inflight : Instance(o) \in live

\* The status each function logs is SUCCESS exactly if the chip has really
\* completed everything that function stands for.
Performs(f) == CASE f = "Init"   -> {"open_application"}
                 [] f = "Main"   -> MainOps
                 [] f = "Deinit" -> {"close_application"}

LoggedTruth ==
  \A f \in Functions : logged[f] # NotLogged =>
    (logged[f] = OPTIGA_LIB_SUCCESS <=> Performs(f) \subseteq done)

\* When the task has ended nothing is in flight, only the instance opened by
\* Cy_Optiga_Init can still be allocated, that only if Cy_Optiga_Deinit
\* logged a failure, and its pointer has not been lost.
NoLeak ==
  at = "spin" =>
    /\ inflight = {}
    /\ live \subseteq ptr \cap {"me_util_instance"}
    /\ logged["Deinit"] = OPTIGA_LIB_SUCCESS => live = {}

\* The library starts an operation of Cy_Optiga_Main only when the chip has
\* completed those before it: in particular the digest is signed only with a
\* key generated in this run, never with a key left in the key store E0F2.
S == INSTANCE AuthSession
       WITH performed <- done \cap MainOps,
            verdict   <- IF logged["Main"] = NotLogged THEN "none"
                         ELSE IF logged["Main"] = OPTIGA_LIB_SUCCESS
                         THEN "authentic" ELSE "failed"

StageOrder ==
  [][\A o \in MainOps \cap (inflight' \ inflight) : S!Before[o] \subseteq done]_vars

\* The program implements the abstract session, its liveness included.
SessionSpec == S!Spec

\* The task ends, whatever fails on the way.
Termination == <>(at = "spin")

\* The stages after the one the task is at, on its longest way ...
StagesLeft ==
  CASE at = "init_create"          -> 15
    [] at = "open_application"     -> 14
    [] at = "init_exit"            -> 13
    [] at = "crypt_create"         -> 12
    [] at = "util_create"          -> 11
    [] at = "write_metadata"       -> 10
    [] at = "ecc_generate_keypair" -> 9
    [] at = "ecdsa_sign"           -> 8
    [] at = "ecdsa_verify"         -> 7
    [] at = "main_exit"            -> 6
    [] at = "crypt_destroy"        -> 5
    [] at = "util_destroy"         -> 4
    [] at = "close_application"    -> 3
    [] at = "deinit_destroy"       -> 2
    [] at = "deinit_exit"          -> 1
    [] at = "spin"                 -> 0

\* ... and the phases inside an operation.
PhasesLeft ==
  CASE phase = "mark"     -> 5
    [] phase = "call"     -> 4
    [] phase = "returned" -> 3
    [] phase = "wait"     -> 2
    [] phase = "check"    -> 1
    [] phase \in {"fail", "run"} -> 0

\* No more steps than Remaining are left to the task and the callbacks.  A
\* stage weighs more than all its phases and the answer still to come.
AnswersLeft == IF inflight = {} THEN 0 ELSE 1

Remaining == 12 * StagesLeft + 2 * PhasesLeft + AnswersLeft

\* Whatever fails and whenever the answers come, the task never goes round in
\* circles: each step it takes, and each callback, brings it nearer to its end,
\* for no operation is started twice and every failure leads forward
\* (optiga_app.h:80-91).
StepsRunOut == [][Remaining' < Remaining]_vars

\* A session opened on the chip is closed again, or Cy_Optiga_Deinit says
\* that it could not be.
SessionClosed ==
  opened ~> (~opened \/ logged["Deinit"] \in LibErrors)

\* optiga_app.c:118: "Open the application on OPTIGA which is a
\* precondition to perform any other operations".
OpenedBeforeUse ==
  \A o \in inflight : o = "open_application" \/ opened
=============================================================================
