-------------------------- MODULE OptigaAppProofs --------------------------
(***************************************************************************)
(* Proofs about OptigaApp, for every set of error codes and every value of *)
(* the status constants that StatusAssumption admits.  All of them rest on *)
(* one inductive invariant, IInv: the invariants TLC checks do not say     *)
(* what the status word means between the three reads of it, nor what      *)
(* return_status means before it is logged, so no step of the program      *)
(* preserves them alone.                                                   *)
(***************************************************************************)
EXTENDS OptigaApp, TLAPS

Answers == LibErrors \cup {OPTIGA_LIB_SUCCESS}

InitStages   == {"init_create", "open_application", "init_exit"}
MainStages   == MainOps \cup {"crypt_create", "util_create", "main_exit"}
EndStages    == {"crypt_destroy", "util_destroy"}
DeinitStages == {"close_application", "deinit_destroy", "deinit_exit"}

\* What the status word, return_status and the history of the chip say of the
\* operation at hand, at each point of the wait macro.
Protocol ==
  /\ inflight \subseteq {at}
  /\ phase \notin {"returned", "wait"} => inflight = {}
  /\ phase \in {"mark", "call"} => at \notin done
  /\ phase = "call" => optiga_lib_status = OPTIGA_LIB_BUSY
  /\ phase \in {"returned", "wait"} =>
       \/ /\ at \in inflight /\ at \notin done
          /\ optiga_lib_status = OPTIGA_LIB_BUSY
          /\ return_status = OPTIGA_LIB_SUCCESS
       \/ /\ at \notin inflight
          /\ optiga_lib_status \in Answers
          /\ return_status = OPTIGA_LIB_SUCCESS
          /\ at \in done <=> optiga_lib_status = OPTIGA_LIB_SUCCESS
       \/ /\ phase = "returned"
          /\ at \notin inflight /\ at \notin done
          /\ return_status \in LibErrors
  /\ phase = "check" =>
       /\ return_status = OPTIGA_LIB_SUCCESS
       /\ optiga_lib_status \in Answers
       /\ at \in done <=> optiga_lib_status = OPTIGA_LIB_SUCCESS
  /\ phase = "fail" => optiga_lib_status \in LibErrors /\ at \notin done

\* Which instances are allocated, and which pointers point to them.
Instances ==
  /\ live \subseteq ptr
  /\ at # "util_destroy" => ptr \subseteq live
  /\ at = "util_destroy" => "crypt_me" \notin live /\ ptr \subseteq live \cup {"crypt_me"}
  /\ \A o \in inflight : Instance(o) \in live
  /\ at \in DeinitStages \cup {"spin"} => ptr \subseteq {"me_util_instance"}

\* What has been logged and performed when the task is at a stage.
History ==
  /\ logged["Init"] = NotLogged <=> at \in InitStages
  /\ logged["Main"] = NotLogged <=> at \in InitStages \cup MainStages
  /\ logged["Deinit"] = NotLogged <=> at # "spin"
  /\ at \in {"init_create", "crypt_create", "util_create"} =>
       return_status # OPTIGA_LIB_SUCCESS
  /\ at = "init_create" => "open_application" \notin done
  /\ at = "init_exit" =>
       (return_status = OPTIGA_LIB_SUCCESS <=> "open_application" \in done)
  /\ at \in InitStages \cup {"crypt_create", "util_create"} =>
       done \cap MainOps = {}
  /\ at \in MainOps =>
       done \cap MainOps \in {S!Before[at], S!Before[at] \cup {at}}
  /\ at = "main_exit" =>
       (return_status = OPTIGA_LIB_SUCCESS <=> MainOps \subseteq done)
  /\ at \in InitStages \cup MainStages \cup EndStages =>
       "close_application" \notin done
  /\ at = "deinit_destroy" =>
       return_status = OPTIGA_LIB_SUCCESS /\ "close_application" \in done
  /\ at = "deinit_exit" =>
       /\ return_status = OPTIGA_LIB_SUCCESS <=> "close_application" \in done
       /\ return_status = OPTIGA_LIB_SUCCESS => live = {}
  /\ at = "spin" /\ logged["Deinit"] = OPTIGA_LIB_SUCCESS => live = {}

IInv == TypeOK /\ Protocol /\ Instances /\ History /\ LoggedTruth

----------------------------------------------------------------------------
(* The invariant holds initially and no step of the program breaks it.     *)

LEMMA InitIInv == Init => IInv
BY StatusAssumption
   DEF Init, IInv, TypeOK, Protocol, Instances, History, LoggedTruth,
       Status, Stages, Phases, Ops, MainOps, Functions, Pointers,
       InitStages, MainStages, DeinitStages, EndStages

\* The steps that create, destroy or log: the task is at no operation, so
\* nothing is in flight.
LEMMA StageIInv ==
  ASSUME IInv,
         \/ InitCreate \/ CryptCreate \/ UtilCreate
         \/ CryptDestroy \/ UtilDestroy \/ DeinitDestroy
         \/ InitExit \/ MainExit \/ DeinitExit
  PROVE  IInv'
<1> USE StatusAssumption
    DEF IInv, Status, Stages, Phases, Ops, MainOps, Functions, Pointers,
       Answers, InitStages, MainStages, DeinitStages, EndStages, app, library
<1> USE DEF Goto
<1>0. inflight = {} /\ ~InUse("crypt_me") /\ ~InUse("util_me") /\ ~InUse("me_util_instance")
  <2>1. phase = "run"
    BY DEF TypeOK, InitCreate, CryptCreate, UtilCreate, Create, CryptDestroy,
           UtilDestroy, DeinitDestroy, InitExit, MainExit, DeinitExit
  <2>2. inflight = {}
    BY <2>1 DEF Protocol
  <2>3. QED
    BY <2>2 DEF InUse
<1>1. CASE InitCreate
  <2>0. \/ at' = "open_application" /\ phase' = "mark"
        \/ at' = "init_exit" /\ phase' = "run"
    BY <1>1 DEF InitCreate, Create
  <2>1. TypeOK'
    BY <1>0, <1>1 DEF Create, InitCreate, TypeOK
  <2>2. Protocol'
    BY <1>0, <1>1, <2>0 DEF Create, InitCreate, TypeOK, Protocol, History
  <2>3. Instances'
    BY <1>0, <1>1 DEF Create, InitCreate, TypeOK, Instances
  <2>4. History'
    BY <1>0, <1>1 DEF Create, InitCreate, TypeOK, Protocol, Instances, History, S!Before, S!Steps
  <2>5. LoggedTruth'
    BY <1>0, <1>1 DEF Create, InitCreate, TypeOK, Protocol, History, LoggedTruth, Performs, S!Before, S!Steps
  <2>6. QED
    BY <2>1, <2>2, <2>3, <2>4, <2>5
<1>2. CASE CryptCreate
  <2>1. TypeOK'
    BY <1>0, <1>2 DEF Create, CryptCreate, TypeOK
  <2>2. Protocol'
    BY <1>0, <1>2 DEF Create, CryptCreate, TypeOK, Protocol
  <2>3. Instances'
    BY <1>0, <1>2 DEF Create, CryptCreate, TypeOK, Instances
  <2>4. History'
    BY <1>0, <1>2 DEF Create, CryptCreate, TypeOK, Protocol, Instances, History, S!Before, S!Steps
  <2>5. LoggedTruth'
    BY <1>0, <1>2 DEF Create, CryptCreate, TypeOK, Protocol, History, LoggedTruth, Performs, S!Before, S!Steps
  <2>6. QED
    BY <2>1, <2>2, <2>3, <2>4, <2>5
<1>3. CASE UtilCreate
  <2>0. \/ at' = "write_metadata" /\ phase' = "mark"
        \/ at' = "main_exit" /\ phase' = "run"
    BY <1>3 DEF UtilCreate, Create
  <2>1. TypeOK'
    BY <1>0, <1>3 DEF Create, UtilCreate, TypeOK
  <2>2. Protocol'
    BY <1>0, <1>3, <2>0 DEF Create, UtilCreate, TypeOK, Protocol, History
  <2>3. Instances'
    BY <1>0, <1>3 DEF Create, UtilCreate, TypeOK, Instances
  <2>4. History'
    BY <1>0, <1>3 DEF Create, UtilCreate, TypeOK, Protocol, Instances, History, S!Before, S!Steps
  <2>5. LoggedTruth'
    BY <1>0, <1>3 DEF Create, UtilCreate, TypeOK, Protocol, History, LoggedTruth, Performs, S!Before, S!Steps
  <2>6. QED
    BY <2>1, <2>2, <2>3, <2>4, <2>5
<1>4. CASE CryptDestroy
  <2>1. TypeOK'
    BY <1>0, <1>4 DEF CryptDestroy, DestroyIfSet, DestroyInstance, DestroyResult, TypeOK
  <2>2. Protocol'
    BY <1>0, <1>4 DEF CryptDestroy, DestroyIfSet, DestroyInstance, DestroyResult, TypeOK, Protocol
  <2>3. Instances'
    BY <1>0, <1>4 DEF CryptDestroy, DestroyIfSet, DestroyInstance, DestroyResult, TypeOK, Instances
  <2>4. History'
    BY <1>0, <1>4 DEF CryptDestroy, DestroyIfSet, DestroyInstance, DestroyResult, TypeOK, Protocol, Instances, History, S!Before, S!Steps
  <2>5. LoggedTruth'
    BY <1>0, <1>4 DEF CryptDestroy, DestroyIfSet, DestroyInstance, DestroyResult, TypeOK, Protocol, History, LoggedTruth, Performs, S!Before, S!Steps
  <2>6. QED
    BY <2>1, <2>2, <2>3, <2>4, <2>5
<1>5. CASE UtilDestroy
  <2>0. /\ at' = "close_application" /\ phase' = "mark"
        /\ live' = live \ {"util_me"}
    BY <1>0, <1>5 DEF UtilDestroy, DestroyInstance, Instances
  <2>1. TypeOK'
    BY <1>0, <1>5 DEF UtilDestroy, DestroyInstance, TypeOK
  <2>2. Protocol'
    BY <1>0, <1>5, <2>0 DEF UtilDestroy, TypeOK, Protocol, History
  <2>3. Instances'
    BY <1>0, <1>5, <2>0 DEF UtilDestroy, TypeOK, Instances
  <2>4. History'
    BY <1>0, <1>5 DEF UtilDestroy, DestroyInstance, TypeOK, Protocol, Instances, History, S!Before, S!Steps
  <2>5. LoggedTruth'
    BY <1>0, <1>5 DEF UtilDestroy, DestroyInstance, TypeOK, Protocol, History, LoggedTruth, Performs, S!Before, S!Steps
  <2>6. QED
    BY <2>1, <2>2, <2>3, <2>4, <2>5
<1>6. CASE DeinitDestroy
  <2>1. TypeOK'
    BY <1>0, <1>6 DEF DeinitDestroy, DestroyInstance, TypeOK
  <2>2. Protocol'
    BY <1>0, <1>6 DEF DeinitDestroy, DestroyInstance, TypeOK, Protocol
  <2>3. Instances'
    BY <1>0, <1>6 DEF DeinitDestroy, DestroyInstance, TypeOK, Instances
  <2>4. History'
    BY <1>0, <1>6 DEF DeinitDestroy, DestroyInstance, TypeOK, Protocol, Instances, History, S!Before, S!Steps
  <2>5. LoggedTruth'
    BY <1>0, <1>6 DEF DeinitDestroy, DestroyInstance, TypeOK, Protocol, History, LoggedTruth, Performs, S!Before, S!Steps
  <2>6. QED
    BY <2>1, <2>2, <2>3, <2>4, <2>5
<1>7. CASE InitExit
  <2>1. TypeOK'
    BY <1>0, <1>7 DEF InitExit, TypeOK
  <2>2. Protocol'
    BY <1>0, <1>7 DEF InitExit, TypeOK, Protocol
  <2>3. Instances'
    BY <1>0, <1>7 DEF InitExit, TypeOK, Instances
  <2>4. History'
    BY <1>0, <1>7 DEF InitExit, TypeOK, Protocol, Instances, History, S!Before, S!Steps
  <2>5. LoggedTruth'
    BY <1>0, <1>7 DEF InitExit, TypeOK, Protocol, History, LoggedTruth, Performs, S!Before, S!Steps
  <2>6. QED
    BY <2>1, <2>2, <2>3, <2>4, <2>5
<1>8. CASE MainExit
  <2>1. TypeOK'
    BY <1>0, <1>8 DEF MainExit, TypeOK
  <2>2. Protocol'
    BY <1>0, <1>8 DEF MainExit, TypeOK, Protocol
  <2>3. Instances'
    BY <1>0, <1>8 DEF MainExit, TypeOK, Instances
  <2>4. History'
    BY <1>0, <1>8 DEF MainExit, TypeOK, Protocol, Instances, History, S!Before, S!Steps
  <2>5. LoggedTruth'
    BY <1>0, <1>8 DEF MainExit, TypeOK, Protocol, History, LoggedTruth, Performs, S!Before, S!Steps
  <2>6. QED
    BY <2>1, <2>2, <2>3, <2>4, <2>5
<1>9. CASE DeinitExit
  <2>1. TypeOK'
    BY <1>0, <1>9 DEF DeinitExit, TypeOK
  <2>2. Protocol'
    BY <1>0, <1>9 DEF DeinitExit, TypeOK, Protocol
  <2>3. Instances'
    BY <1>0, <1>9 DEF DeinitExit, TypeOK, Instances
  <2>4. History'
    BY <1>0, <1>9 DEF DeinitExit, TypeOK, Protocol, Instances, History, S!Before, S!Steps
  <2>5. LoggedTruth'
    BY <1>0, <1>9 DEF DeinitExit, TypeOK, Protocol, History, LoggedTruth, Performs, S!Before, S!Steps
  <2>6. QED
    BY <2>1, <2>2, <2>3, <2>4, <2>5
<1>10. QED
  BY <1>1, <1>2, <1>3, <1>4, <1>5, <1>6, <1>7, <1>8, <1>9

\* The steps of one operation, and the callback that answers it.
LEMMA OperationIInv ==
  ASSUME IInv,
         \/ MarkBusy \/ Accept \/ Reject \/ CheckReturn
         \/ Await \/ CheckStatus \/ Fail
         \/ \E o \in Ops : Complete(o)
  PROVE  IInv'
<1> USE StatusAssumption
    DEF IInv, Status, Stages, Phases, Ops, MainOps, Functions, Pointers,
       Answers, InitStages, MainStages, DeinitStages, EndStages, app, library
<1> USE DEF Goto
<1>1. CASE MarkBusy
  <2>1. TypeOK'
    BY <1>1 DEF MarkBusy, TypeOK
  <2>2. Protocol'
    BY <1>1 DEF MarkBusy, TypeOK, Protocol
  <2>3. Instances'
    BY <1>1 DEF MarkBusy, TypeOK, Instances
  <2>4. History'
    BY <1>1 DEF MarkBusy, TypeOK, Protocol, Instances, History, S!Before, S!Steps
  <2>5. LoggedTruth'
    BY <1>1 DEF MarkBusy, TypeOK, Protocol, History, LoggedTruth, Performs, S!Before, S!Steps
  <2>6. QED
    BY <2>1, <2>2, <2>3, <2>4, <2>5
<1>2. CASE Accept
  <2>1. TypeOK'
    BY <1>2 DEF Accept, InUse, TypeOK
  <2>2. Protocol'
    BY <1>2 DEF Accept, InUse, TypeOK, Protocol
  <2>3. Instances'
    BY <1>2 DEF Accept, InUse, TypeOK, Instances
  <2>4. History'
    BY <1>2 DEF Accept, InUse, TypeOK, Protocol, Instances, History, S!Before, S!Steps
  <2>5. LoggedTruth'
    BY <1>2 DEF Accept, InUse, TypeOK, Protocol, History, LoggedTruth, Performs, S!Before, S!Steps
  <2>6. QED
    BY <2>1, <2>2, <2>3, <2>4, <2>5
<1>3. CASE Reject
  <2>1. TypeOK'
    BY <1>3 DEF Reject, TypeOK
  <2>2. Protocol'
    BY <1>3 DEF Reject, TypeOK, Protocol
  <2>3. Instances'
    BY <1>3 DEF Reject, TypeOK, Instances
  <2>4. History'
    BY <1>3 DEF Reject, TypeOK, Protocol, Instances, History, S!Before, S!Steps
  <2>5. LoggedTruth'
    BY <1>3 DEF Reject, TypeOK, Protocol, History, LoggedTruth, Performs, S!Before, S!Steps
  <2>6. QED
    BY <2>1, <2>2, <2>3, <2>4, <2>5
<1>4. CASE CheckReturn
  <2>1. TypeOK'
    BY <1>4 DEF CheckReturn, Break, TypeOK
  <2>2. Protocol'
    BY <1>4 DEF CheckReturn, Break, TypeOK, Protocol
  <2>3. Instances'
    BY <1>4 DEF CheckReturn, Break, TypeOK, Instances
  <2>4. History'
    BY <1>4 DEF CheckReturn, Break, TypeOK, Protocol, Instances, History, S!Before, S!Steps
  <2>5. LoggedTruth'
    BY <1>4 DEF CheckReturn, Break, TypeOK, Protocol, History, LoggedTruth, Performs, S!Before, S!Steps
  <2>6. QED
    BY <2>1, <2>2, <2>3, <2>4, <2>5
<1>5. CASE Await
  <2>1. TypeOK'
    BY <1>5 DEF Await, TypeOK
  <2>2. Protocol'
    BY <1>5 DEF Await, TypeOK, Protocol
  <2>3. Instances'
    BY <1>5 DEF Await, TypeOK, Instances
  <2>4. History'
    BY <1>5 DEF Await, TypeOK, Protocol, Instances, History, S!Before, S!Steps
  <2>5. LoggedTruth'
    BY <1>5 DEF Await, TypeOK, Protocol, History, LoggedTruth, Performs, S!Before, S!Steps
  <2>6. QED
    BY <2>1, <2>2, <2>3, <2>4, <2>5
<1>6. CASE CheckStatus
  <2>a. /\ phase = "check" /\ return_status' = OPTIGA_LIB_SUCCESS
        /\ UNCHANGED <<optiga_lib_status, ptr, logged, library>>
    BY <1>6 DEF CheckStatus, Protocol
  <2>b. \/ /\ optiga_lib_status # OPTIGA_LIB_SUCCESS
           /\ at' = at /\ phase' = "fail"
        \/ /\ optiga_lib_status = OPTIGA_LIB_SUCCESS
           /\ \/ at = "open_application" /\ at' = "init_exit" /\ phase' = "run"
              \/ at = "write_metadata" /\ at' = "ecc_generate_keypair" /\ phase' = "mark"
              \/ at = "ecc_generate_keypair" /\ at' = "ecdsa_sign" /\ phase' = "mark"
              \/ at = "ecdsa_sign" /\ at' = "ecdsa_verify" /\ phase' = "mark"
              \/ at = "ecdsa_verify" /\ at' = "main_exit" /\ phase' = "run"
              \/ at = "close_application" /\ at' = "deinit_destroy" /\ phase' = "run"
    BY <1>6 DEF CheckStatus, After, TypeOK
  <2>c. \/ at \notin MainOps
        \/ optiga_lib_status # OPTIGA_LIB_SUCCESS
        \/ done \cap MainOps = S!Before[at] \cup {at}
    BY <2>a DEF Protocol, History, S!Before, S!Steps
  <2>1. TypeOK'
    BY <1>6 DEF CheckStatus, After, TypeOK
  <2>2. Protocol'
    BY <2>a, <2>b, <2>c DEF TypeOK, Protocol, S!Before, S!Steps
  <2>3. Instances'
    BY <1>6 DEF CheckStatus, After, TypeOK, Instances
  <2>4. History'
    <3>1. CASE optiga_lib_status # OPTIGA_LIB_SUCCESS
      BY <2>a, <2>b, <3>1 DEF TypeOK, History
    <3>2. CASE optiga_lib_status = OPTIGA_LIB_SUCCESS /\ at \in MainOps
      <4>1. \/ at' = "main_exit" /\ MainOps \subseteq done'
            \/ at' \in MainOps /\ done' \cap MainOps = S!Before[at']
        BY <2>a, <2>b, <2>c, <3>2 DEF S!Before, S!Steps
      <4>2. QED
        BY <2>a, <2>b, <3>2, <4>1 DEF TypeOK, History
    <3>3. CASE optiga_lib_status = OPTIGA_LIB_SUCCESS /\ at = "open_application"
      BY <2>a, <2>b, <3>3 DEF TypeOK, Protocol, History
    <3>4. CASE optiga_lib_status = OPTIGA_LIB_SUCCESS /\ at = "close_application"
      BY <2>a, <2>b, <3>4 DEF TypeOK, Protocol, History
    <3>5. QED
      BY <2>b, <3>1, <3>2, <3>3, <3>4
  <2>5. LoggedTruth'
    BY <1>6 DEF CheckStatus, After, TypeOK, Protocol, History, LoggedTruth, Performs, S!Before, S!Steps
  <2>6. QED
    BY <2>1, <2>2, <2>3, <2>4, <2>5
<1>7. CASE Fail
  <2>1. TypeOK'
    BY <1>7 DEF Fail, Break, TypeOK
  <2>2. Protocol'
    BY <1>7 DEF Fail, Break, TypeOK, Protocol
  <2>3. Instances'
    BY <1>7 DEF Fail, Break, TypeOK, Instances
  <2>4. History'
    BY <1>7 DEF Fail, Break, TypeOK, Protocol, Instances, History, S!Before, S!Steps
  <2>5. LoggedTruth'
    BY <1>7 DEF Fail, Break, TypeOK, Protocol, History, LoggedTruth, Performs, S!Before, S!Steps
  <2>6. QED
    BY <2>1, <2>2, <2>3, <2>4, <2>5
<1>8. CASE \E o \in Ops : Complete(o)
  <2>1. TypeOK'
    BY <1>8 DEF Complete, TypeOK
  <2>2. Protocol'
    BY <1>8 DEF Complete, TypeOK, Protocol
  <2>3. Instances'
    BY <1>8 DEF Complete, TypeOK, Instances
  <2>4. History'
    BY <1>8 DEF Complete, TypeOK, Protocol, Instances, History, S!Before, S!Steps
  <2>5. LoggedTruth'
    BY <1>8 DEF Complete, TypeOK, Protocol, History, LoggedTruth, Performs, S!Before, S!Steps
  <2>6. QED
    BY <2>1, <2>2, <2>3, <2>4, <2>5
<1>9. QED
  BY <1>1, <1>2, <1>3, <1>4, <1>5, <1>6, <1>7, <1>8


LEMMA StutterIInv == IInv /\ UNCHANGED vars => IInv'
BY DEF IInv, TypeOK, Protocol, Instances, History, LoggedTruth, vars, app, library

LEMMA NextIInv == IInv /\ [Next]_vars => IInv'
BY StageIInv, OperationIInv, StutterIInv DEF Next, TaskStep, Spin

----------------------------------------------------------------------------
(* The theorems. *)

LEMMA Invariance == Spec => []IInv
<1>1. Init => IInv
  BY InitIInv
<1>2. IInv /\ [Next]_vars => IInv'
  BY NextIInv
<1>3. QED
  BY <1>1, <1>2, PTL DEF Spec

\* The types of OptigaApp hold in every reachable state.
THEOREM TypeCorrect == Spec => []TypeOK
<1>1. IInv => TypeOK
  BY DEF IInv
<1>2. QED
  BY <1>1, Invariance, PTL

\* A completion callback (optiga_app.c:54-93) comes only while the task is at
\* the wait macro for the operation it answers.
THEOREM CallbackInTime == Spec => []NoLateCallback
<1>1. IInv => NoLateCallback
  BY DEF IInv, TypeOK, Protocol, NoLateCallback
<1>2. QED
  BY <1>1, Invariance, PTL

\* The busy-wait of WAIT_AND_CHECK_STATUS (optiga_app.h:85) never misses the
\* completion it waits for.
THEOREM WakeupNotLost == Spec => []NoLostWakeup
<1>1. IInv => NoLostWakeup
  BY StatusAssumption DEF IInv, Protocol, Answers, NoLostWakeup
<1>2. QED
  BY <1>1, Invariance, PTL

\* Every instance handed to the library, or used by it, is allocated.
THEOREM InstancesLive == Spec => []NoDanglingInstance
<1>1. IInv => NoDanglingInstance
  <2>1. ASSUME IInv, phase = "call", Instance(at) \in ptr
        PROVE  Instance(at) \in live
    <3>1. at \in Ops
      BY <2>1 DEF IInv, TypeOK
    <3>2. ptr \subseteq live
      BY <2>1, <3>1 DEF IInv, Instances, Ops, MainOps
    <3>3. QED
      BY <2>1, <3>2
  <2>2. QED
    BY <2>1 DEF IInv, Instances, NoDanglingInstance
<1>2. QED
  BY <1>1, Invariance, PTL

\* The status that Cy_Optiga_Init, Cy_Optiga_Main and Cy_Optiga_Deinit log
\* is SUCCESS exactly when the chip performed what they stand for.
THEOREM LogIsTrue == Spec => []LoggedTruth
<1>1. IInv => LoggedTruth
  BY DEF IInv
<1>2. QED
  BY <1>1, Invariance, PTL

\* When the task has ended no operation is in flight and no instance is lost.
THEOREM NothingLeaks == Spec => []NoLeak
<1>1. IInv => NoLeak
  <2> SUFFICES ASSUME IInv, at = "spin"
               PROVE  /\ inflight = {}
                      /\ live \subseteq ptr \cap {"me_util_instance"}
                      /\ logged["Deinit"] = OPTIGA_LIB_SUCCESS => live = {}
    BY DEF NoLeak
  <2>1. phase = "run"
    BY DEF IInv, TypeOK, Ops, MainOps
  <2>2. QED
    BY <2>1 DEF IInv, Protocol, Instances, History
<1>2. QED
  BY <1>1, Invariance, PTL

\* An operation starts only after the chip has completed those before it.
LEMMA OrderedStep ==
  ASSUME IInv, Next, NEW o \in MainOps, o \in inflight', o \notin inflight
  PROVE  S!Before[o] \subseteq done
<1>1. Accept
  BY DEF Next, TaskStep, Spin, Complete, vars, library, InitCreate,
         CryptCreate, UtilCreate, Create, CryptDestroy, UtilDestroy,
         DeinitDestroy, MarkBusy, Reject, CheckReturn, Await, CheckStatus,
         Fail, InitExit, MainExit, DeinitExit
<1>2. o = at
  BY <1>1 DEF Accept
<1>3. QED
  BY <1>2 DEF IInv, History

\* The operations of Cy_Optiga_Main are started in the order of its text.
THEOREM OrderKept == Spec => StageOrder
<1> DEFINE Ordered == \A o \in MainOps \cap (inflight' \ inflight) :
                         S!Before[o] \subseteq done
<1>1. IInv /\ [Next]_vars => [Ordered]_vars
  BY OrderedStep
<1>2. QED
  BY <1>1, Invariance, PTL DEF Spec, StageOrder

\* Every step of the program is a step of the abstract session or leaves it as
\* it is: MainExit concludes it, a callback performs an operation of it.
LEMMA SessionStep ==
  ASSUME IInv, [Next]_vars
  PROVE  [S!Next]_(S!vars)
<1>1. CASE MainExit
  <2>1. /\ logged["Main"] = NotLogged /\ return_status # NotLogged
        /\ return_status = OPTIGA_LIB_SUCCESS <=> MainOps \subseteq done
        /\ logged'["Main"] = return_status
    BY <1>1, StatusAssumption
       DEF IInv, TypeOK, History, MainExit, Status, Functions, InitStages, MainStages
  <2>2. S!Conclude
    BY <1>1, <2>1 DEF MainExit, library, S!Conclude, S!Steps, MainOps
  <2>3. QED
    BY <2>2 DEF S!Next
<1>2. ASSUME NEW o \in Ops, Complete(o), done' # done
      PROVE  [S!Next]_(S!vars)
  <2>1. done' = done \cup {o} /\ logged' = logged /\ o = at
    BY <1>2 DEF Complete, app, IInv, Protocol
  <2>2. CASE o \in MainOps
    <3>1. done \cap MainOps = S!Before[o] /\ logged["Main"] = NotLogged
      BY <1>2, <2>1, <2>2 DEF IInv, History, MainStages
    <3>2. S!Perform(o)
      BY <2>1, <2>2, <3>1 DEF S!Perform
    <3>3. QED
      BY <2>2, <3>2 DEF S!Next, S!Steps, MainOps
  <2>3. CASE o \notin MainOps
    BY <2>1, <2>3 DEF S!vars
  <2>4. QED
    BY <2>2, <2>3
<1>3. CASE /\ done' = done
           /\ ~MainExit
  <2>1. logged'["Main"] = logged["Main"]
    BY <1>3 DEF IInv, TypeOK, Functions, Next, TaskStep, Spin, Complete, vars, app, library,
           InitCreate, CryptCreate, UtilCreate, Create, CryptDestroy,
           UtilDestroy, DeinitDestroy, MarkBusy, Accept, Reject, CheckReturn,
           Await, CheckStatus, Fail, InitExit, DeinitExit
  <2>2. QED
    BY <1>3, <2>1 DEF S!vars
<1>4. done' = done \/ \E o \in Ops : Complete(o)
  BY DEF Next, TaskStep, Spin, vars, library, InitCreate, CryptCreate,
         UtilCreate, Create, CryptDestroy, UtilDestroy, DeinitDestroy,
         MarkBusy, Accept, Reject, CheckReturn, Await, CheckStatus, Fail,
         InitExit, MainExit, DeinitExit
<1>5. QED
  BY <1>1, <1>2, <1>3, <1>4

\* The program implements the abstract session of AuthSession: the chip
\* performs the operations of Cy_Optiga_Main in order, and the verdict logged
\* is the true one.
THEOREM Refinement == Spec => S!Safety
<1>1. Init => S!Init
  BY DEF Init, S!Init, Functions
<1>2. QED
  BY <1>1, SessionStep, Invariance, PTL DEF Spec, S!Safety

----------------------------------------------------------------------------
(* The session on the chip.                                                *)

\* It is open from the answer to the first operation to that to the last.
Session ==
  opened <=> "open_application" \in done /\ "close_application" \notin done

LEMMA SessionKept ==
  ASSUME IInv, Session, [Next]_vars
  PROVE  Session'
<1>1. ASSUME NEW o \in Ops, Complete(o) PROVE Session'
  <2>1. o = at /\ o \in Ops /\ phase \in {"returned", "wait"}
    BY <1>1 DEF Complete, IInv, Protocol
  <2>2. o = "open_application" => "close_application" \notin done
    BY <2>1 DEF IInv, History, InitStages
  <2>3. CASE UNCHANGED <<opened, done>>
    BY <2>3 DEF Session
  <2>4. CASE /\ opened \/ o = "open_application"
             /\ opened' = (o # "close_application")
             /\ done' = done \cup {o}
    BY <2>2, <2>4 DEF Session
  <2>5. QED
    BY <1>1, <2>3, <2>4 DEF Complete
<1>2. CASE TaskStep \/ Spin \/ UNCHANGED vars
  <2>1. UNCHANGED <<opened, done>>
    BY <1>2 DEF TaskStep, Spin, vars, library, InitCreate, CryptCreate,
         UtilCreate, Create, CryptDestroy, UtilDestroy, DeinitDestroy,
         MarkBusy, Accept, Reject, CheckReturn, Await, CheckStatus, Fail,
         InitExit, MainExit, DeinitExit
  <2>2. QED
    BY <2>1 DEF Session
<1>3. QED
  BY <1>1, <1>2 DEF Next

LEMMA SessionInvariant == Spec => []Session
<1>1. Init => Session
  BY DEF Init, Session
<1>2. IInv /\ Session /\ [Next]_vars => Session'
  BY SessionKept
<1>3. QED
  BY <1>1, <1>2, Invariance, PTL DEF Spec

\* Operations start on a chip that is not open only in a run whose
\* Cy_Optiga_Init has logged a failure: the precondition of optiga_app.c:118
\* is kept by every run that reports it as met.
THEOREM OpenedIfReported ==
  Spec => [](logged["Init"] \in {NotLogged, OPTIGA_LIB_SUCCESS} => OpenedBeforeUse)
<1>1. ASSUME IInv, Session, logged["Init"] \in {NotLogged, OPTIGA_LIB_SUCCESS},
             NEW o \in inflight, o # "open_application"
      PROVE  opened
  <2>1. o = at /\ at \in Ops /\ phase \in {"returned", "wait"}
    BY <1>1 DEF IInv, TypeOK, Protocol
  <2>2. logged["Init"] # NotLogged
    BY <1>1, <2>1 DEF IInv, History, InitStages, Ops, MainOps
  <2>3. "open_application" \in done
    BY <1>1, <2>2 DEF IInv, LoggedTruth, Functions, Performs
  <2>4. "close_application" \notin done
    BY <1>1, <2>1 DEF IInv, Protocol, History, Ops, MainStages
  <2>5. QED
    BY <1>1, <2>3, <2>4 DEF Session
<1>2. IInv /\ Session =>
        (logged["Init"] \in {NotLogged, OPTIGA_LIB_SUCCESS} => OpenedBeforeUse)
  BY <1>1 DEF OpenedBeforeUse
<1>3. QED
  BY <1>2, Invariance, SessionInvariant, PTL

\* A session that the task leaves open behind it is one that Cy_Optiga_Deinit
\* has reported: with the end of the task, this is SessionClosed.
THEOREM LeftOpenIsReported ==
  Spec => [](at = "spin" /\ opened =>
               logged["Deinit"] \notin {NotLogged, OPTIGA_LIB_SUCCESS})
<1>1. ASSUME IInv, Session, at = "spin", opened
      PROVE  logged["Deinit"] \notin {NotLogged, OPTIGA_LIB_SUCCESS}
  <2>1. logged["Deinit"] # NotLogged /\ "close_application" \notin done
    BY <1>1 DEF IInv, History, Session
  <2>2. QED
    BY <1>1, <2>1 DEF IInv, LoggedTruth, Functions, Performs
<1>2. QED
  BY <1>1, Invariance, SessionInvariant, PTL

----------------------------------------------------------------------------
(* The task comes to its end.                                              *)

LEMMA MeasureType ==
  /\ TypeOK  => /\ StagesLeft \in 0..15 /\ PhasesLeft \in 0..5
                /\ AnswersLeft \in 0..1
  /\ TypeOK' => /\ StagesLeft' \in 0..15 /\ PhasesLeft' \in 0..5
                /\ AnswersLeft' \in 0..1
<1>1. TypeOK => /\ StagesLeft \in 0..15 /\ PhasesLeft \in 0..5
                /\ AnswersLeft \in 0..1
  BY DEF TypeOK, Stages, Phases, Ops, MainOps, StagesLeft, PhasesLeft,
         AnswersLeft
<1>2. TypeOK' => /\ StagesLeft' \in 0..15 /\ PhasesLeft' \in 0..5
                 /\ AnswersLeft' \in 0..1
  BY DEF TypeOK, Stages, Phases, Ops, MainOps, StagesLeft, PhasesLeft,
         AnswersLeft
<1>3. QED
  BY <1>1, <1>2

\* A later stage outweighs whatever is to be done in it, and the next phase
\* an answer that is still to come.
LEMMA Weights ==
  ASSUME NEW s \in 0..15, NEW t \in 0..15, NEW p \in 0..5, NEW q \in 0..5,
         NEW i \in 0..1, NEW j \in 0..1,
         t < s \/ (t = s /\ (q < p \/ (q = p /\ j < i)))
  PROVE  12 * t + 2 * q + j < 12 * s + 2 * p + i
OBVIOUS

LEMMA StageAdvances ==
  ASSUME TypeOK, TypeOK', StagesLeft' < StagesLeft
  PROVE  Remaining' < Remaining
<1>1. /\ Remaining = 12 * StagesLeft + 2 * PhasesLeft + AnswersLeft
      /\ Remaining' = 12 * StagesLeft' + 2 * PhasesLeft' + AnswersLeft'
  BY DEF Remaining
<1>2. QED
  BY <1>1, MeasureType, Weights

LEMMA PhaseAdvances ==
  ASSUME TypeOK, TypeOK', UNCHANGED at, PhasesLeft' < PhasesLeft
  PROVE  Remaining' < Remaining
<1>1. /\ Remaining = 12 * StagesLeft + 2 * PhasesLeft + AnswersLeft
      /\ Remaining' = 12 * StagesLeft' + 2 * PhasesLeft' + AnswersLeft'
  BY DEF Remaining
<1>2. StagesLeft' = StagesLeft
  BY DEF StagesLeft
<1>3. QED
  BY <1>1, <1>2, MeasureType, Weights

LEMMA TaskAdvances ==
  ASSUME IInv, IInv', TaskStep
  PROVE  Remaining' < Remaining
<1> USE DEF StagesLeft, PhasesLeft, Goto, Ops, MainOps
<1>0. TypeOK /\ TypeOK'
  BY DEF IInv
<1>1. CASE InitCreate \/ CryptCreate \/ UtilCreate
  <2>1. \/ at = "init_create" /\ at' \in {"open_application", "init_exit"}
        \/ at = "crypt_create" /\ at' \in {"util_create", "main_exit"}
        \/ at = "util_create" /\ at' \in {"write_metadata", "main_exit"}
    BY <1>1 DEF InitCreate, CryptCreate, UtilCreate, Create
  <2>2. StagesLeft' < StagesLeft
    BY <2>1
  <2>3. QED
    BY <1>0, <2>2, StageAdvances
<1>2. CASE CryptDestroy \/ UtilDestroy \/ DeinitDestroy
  <2>1. StagesLeft' < StagesLeft
    BY <1>2 DEF CryptDestroy, UtilDestroy, DeinitDestroy
  <2>2. QED
    BY <1>0, <2>1, StageAdvances
<1>3. CASE InitExit \/ MainExit \/ DeinitExit
  <2>1. StagesLeft' < StagesLeft
    BY <1>3 DEF InitExit, MainExit, DeinitExit
  <2>2. QED
    BY <1>0, <2>1, StageAdvances
<1>4. CASE MarkBusy \/ Accept \/ Reject \/ Await
  <2>1. UNCHANGED at /\ PhasesLeft' < PhasesLeft
    BY <1>4 DEF MarkBusy, Accept, Reject, Await
  <2>2. QED
    BY <1>0, <2>1, PhaseAdvances
<1>5. ASSUME at \in Ops, at' \in {Break(at), After(at)}
      PROVE  Remaining' < Remaining
  <2>1. StagesLeft' < StagesLeft
    BY <1>5 DEF Break, After
  <2>2. QED
    BY <1>0, <2>1, StageAdvances
<1>6. CASE CheckReturn \/ CheckStatus \/ Fail
  <2>1. at \in Ops
    BY <1>0, <1>6 DEF TypeOK, CheckReturn, CheckStatus, Fail
  <2>2. \/ at' \in {Break(at), After(at)}
        \/ UNCHANGED at /\ PhasesLeft' < PhasesLeft
    BY <1>6 DEF CheckReturn, CheckStatus, Fail
  <2>3. QED
    BY <1>0, <1>5, <2>1, <2>2, PhaseAdvances
<1>7. QED
  BY <1>1, <1>2, <1>3, <1>4, <1>6 DEF TaskStep

\* An answer that has come is one less to come.
LEMMA AnswerAdvances ==
  ASSUME IInv, IInv', NEW o \in Ops, Complete(o)
  PROVE  Remaining' < Remaining
<1>1. AnswersLeft = 1 /\ AnswersLeft' = 0
  BY DEF Complete, IInv, Protocol, AnswersLeft
<1>2. StagesLeft' = StagesLeft /\ PhasesLeft' = PhasesLeft
  BY DEF Complete, app, StagesLeft, PhasesLeft
<1>3. /\ Remaining = 12 * StagesLeft + 2 * PhasesLeft + AnswersLeft
      /\ Remaining' = 12 * StagesLeft' + 2 * PhasesLeft' + AnswersLeft'
  BY DEF Remaining
<1>4. QED
  BY <1>1, <1>2, <1>3, MeasureType, Weights DEF IInv

LEMMA StepAdvances ==
  ASSUME IInv, [Next]_vars
  PROVE  [Remaining' < Remaining]_vars
BY TaskAdvances, AnswerAdvances, NextIInv DEF Next, Spin

\* The task and its callbacks take at most 180 steps, whatever fails: Remaining
\* begins with 180, is never negative, and every step lowers it.
THEOREM TaskEnds == Spec => [](Remaining \in 0..180) /\ StepsRunOut
<1>1. IInv => Remaining \in 0..180
  <2> SUFFICES ASSUME IInv PROVE Remaining \in 0..180
    OBVIOUS
  <2>1. /\ StagesLeft \in 0..15 /\ PhasesLeft \in 0..5
        /\ AnswersLeft \in 0..1
        /\ StagesLeft = 15 => PhasesLeft = 0 /\ AnswersLeft = 0
    <3>1. StagesLeft = 15 => at = "init_create"
      BY DEF IInv, TypeOK, Stages, Ops, MainOps, StagesLeft
    <3>2. at = "init_create" => phase = "run"
      BY DEF IInv, TypeOK, Ops, MainOps
    <3>3. phase = "run" => PhasesLeft = 0 /\ AnswersLeft = 0
      BY DEF IInv, Protocol, PhasesLeft, AnswersLeft
    <3>4. QED
      BY <3>1, <3>2, <3>3, MeasureType DEF IInv
  <2>2. QED
    BY <2>1 DEF Remaining
<1>2. QED
  BY <1>1, StepAdvances, Invariance, PTL DEF Spec, StepsRunOut
=============================================================================
