----------------------------- MODULE TasksProofs -----------------------------
(***************************************************************************)
(* Proofs about Tasks: the task under the scheduler takes only steps of    *)
(* OptigaApp, so that all that OptigaAppProofs shows of it holds; and a    *)
(* buffer manager that was not created is reported by every function.      *)
(***************************************************************************)
EXTENDS Tasks, OptigaAppProofs

\* Nothing is allocated, in flight or done before the scheduler runs, nor
\* ever if there are no buffers.
Untouched ==
  boot # "scheduler" \/ ~HasBuffers =>
    live = {} /\ inflight = {} /\ done = {}

TasksIInv == IInv /\ TasksTypeOK /\ Untouched

----------------------------------------------------------------------------
(* Every step is a step of the task, of the library, or none of OptigaApp. *)

LEMMA BootSteps ==
  ASSUME TasksIInv, BootStep
  PROVE  TasksTypeOK' /\ Untouched' /\ UNCHANGED vars
<1>1. UNCHANGED vars /\ boot # "scheduler"
  BY DEF BootStep, PrintCreate, HbDmaInit, AppCreate, StartScheduler
<1>2. TypeOK' /\ UNCHANGED <<live, inflight, done>>
  BY <1>1 DEF TasksIInv, TasksTypeOK, TypeOK, vars, app, library
<1>3. live = {} /\ inflight = {} /\ done = {}
  BY <1>1 DEF TasksIInv, Untouched
<1>4. Untouched'
  BY <1>2, <1>3 DEF Untouched
<1>5. "daemon" \notin ready
  BY <1>3 DEF TasksIInv, TasksTypeOK
<1>6. TasksTypeOK'
  <2> USE DEF TasksIInv, TasksTypeOK, TaskNames
  <2>1. CASE PrintCreate
    BY <2>1, <1>2, <1>5 DEF PrintCreate, XTaskCreate
  <2>2. CASE HbDmaInit
    <3>1. dma \in 0..3
      BY <2>2 DEF HbDmaInit
    <3>2. /\ dma' \in 0..4 /\ boot' \in {"hbdma", "app_create"}
          /\ boot' = "hbdma" => dma' < 4
      BY <3>1, <2>2 DEF HbDmaInit
    <3>3. UNCHANGED <<created, ready, begun>>
      BY <2>2 DEF HbDmaInit
    <3>4. QED
      BY <3>2, <3>3, <1>2, <1>5
  <2>3. CASE AppCreate
    <3>1. /\ created' \subseteq TaskNames /\ ready' \subseteq created'
          /\ "daemon" \notin ready'
      BY <2>3, <1>5 DEF AppCreate, XTaskCreate
    <3>2. boot' = "start" /\ UNCHANGED <<dma, begun>>
      BY <2>3 DEF AppCreate
    <3>3. QED
      BY <3>1, <3>2, <1>2
  <2>4. CASE StartScheduler
    BY <2>4, <1>2, <1>5 DEF StartScheduler
  <2>5. QED
    BY <2>1, <2>2, <2>3, <2>4 DEF BootStep
<1>7. QED
  BY <1>1, <1>4, <1>6

\* A step of the task or a callback, as Tasks takes them.
LEMMA AppSteps ==
  ASSUME TasksIInv, AppStep \/ DaemonAnswers
  PROVE  Next /\ TasksTypeOK' /\ Untouched'
<1>1. Next
  BY DEF AppStep, DaemonAnswers, Next
<1>2. IInv' /\ TypeOK'
  BY <1>1, NextIInv DEF TasksIInv, IInv
<1>3. UNCHANGED <<boot, dma>> /\ boot = "scheduler"
  BY DEF AppStep, DaemonAnswers, Runs
<1>4. Untouched'
  <2> SUFFICES ASSUME ~HasBuffers
               PROVE  live' = {} /\ inflight' = {} /\ done' = {}
    BY <1>3 DEF Untouched, HasBuffers
  <2>1. live = {} /\ inflight = {} /\ done = {}
    BY DEF TasksIInv, Untouched
  <2>2. ~DaemonAnswers
    BY <2>1 DEF DaemonAnswers, Complete
  <2>3. live' = {}
    BY <2>1, <2>2 DEF AppStep
  <2>4. done' = {}
    BY <2>1, <2>2 DEF AppStep, TaskStep, Create, InitCreate, CryptCreate,
         UtilCreate, CryptDestroy, UtilDestroy, DeinitDestroy, MarkBusy, Accept,
         Reject, CheckReturn, Await, CheckStatus, Fail, InitExit, MainExit,
         DeinitExit, library
  <2>5. inflight' = {}
    BY <2>3, <1>2 DEF IInv, Instances
  <2>6. QED
    BY <2>3, <2>4, <2>5
<1>5. "daemon" \in ready' => inflight' # {}
  <2>1. CASE AppStep
    <3>1. Priority["daemon"] = 14 /\ Priority["fx_opt_task"] = 12
      BY DEF Priority, configMAX_PRIORITIES, TaskNames
    <3>2. ~(14 =< 12)
      OBVIOUS
    <3>3. "daemon" \notin ready
      BY <2>1, <3>1, <3>2, Zenon DEF AppStep, Runs
    <3>4. QED
      BY <2>1, <3>3 DEF AppStep, Block
  <2>2. CASE DaemonAnswers
    BY <2>2 DEF DaemonAnswers, Block
  <2>3. QED
    BY <2>1, <2>2
<1>6. /\ ready' \subseteq ready
      /\ UNCHANGED <<created, begun>>
  BY DEF AppStep, DaemonAnswers, Block, TasksIInv, TasksTypeOK
<1>7. TasksTypeOK'
  BY <1>2, <1>3, <1>5, <1>6 DEF TasksIInv, TasksTypeOK
<1>8. QED
  BY <1>1, <1>4, <1>7

\* Ticks, delays, the print task and the idle loops leave OptigaApp alone.
LEMMA OtherSteps ==
  ASSUME TasksIInv,
         \/ \E t \in TaskNames : Tick(t)
         \/ AppBegin \/ DaemonStep \/ PrintStep \/ Idle
         \/ UNCHANGED tasksVars
  PROVE  TasksTypeOK' /\ Untouched' /\ UNCHANGED vars
<1>1. /\ UNCHANGED <<vars, boot, dma, created>>
      /\ begun' \in BOOLEAN
  BY DEF Tick, AppBegin, DaemonStep, PrintStep, Idle, tasksVars, firmware,
         TasksIInv, TasksTypeOK
<1>2. TypeOK' /\ UNCHANGED <<live, inflight, done>>
  BY <1>1 DEF TasksIInv, TasksTypeOK, TypeOK, vars, app, library
<1>3. Untouched'
  BY <1>1, <1>2 DEF TasksIInv, Untouched, HasBuffers
<1>4. ready' \subseteq created /\ ("daemon" \in ready' => inflight # {})
  <2>1. CASE \E t \in TaskNames : Tick(t)
    BY <2>1 DEF Tick, TasksIInv, TasksTypeOK
  <2>2. CASE AppBegin \/ DaemonStep \/ PrintStep
    BY <2>2 DEF AppBegin, DaemonStep, PrintStep, Block, TasksIInv, TasksTypeOK
  <2>3. CASE Idle \/ UNCHANGED tasksVars
    BY <2>3 DEF Idle, tasksVars, firmware, TasksIInv, TasksTypeOK
  <2>4. QED
    BY <2>1, <2>2, <2>3
<1>5. QED
  BY <1>1, <1>2, <1>3, <1>4 DEF TasksIInv, TasksTypeOK

LEMMA TasksSteps ==
  ASSUME TasksIInv, [TasksNext]_tasksVars
  PROVE  TasksIInv' /\ [Next]_vars
<1>1. TasksTypeOK' /\ Untouched' /\ [Next]_vars
  BY BootSteps, AppSteps, OtherSteps DEF TasksNext, Processor
<1>2. QED
  BY <1>1, NextIInv DEF TasksIInv

LEMMA TasksInvariant == TasksSpec => []TasksIInv
<1>1. TasksInit => TasksIInv
  <2> SUFFICES ASSUME TasksInit PROVE TasksIInv
    OBVIOUS
  <2>1. IInv
    BY InitIInv DEF TasksInit
  <2>2. TasksTypeOK
    <3>1. begun \in BOOLEAN
      BY Zenon DEF TasksInit
    <3>2. QED
      BY <2>1, <3>1 DEF IInv, TasksInit, TasksTypeOK
  <2>3. Untouched
    BY DEF TasksInit, Init, Untouched
  <2>4. QED
    BY <2>1, <2>2, <2>3 DEF TasksIInv
<1>2. TasksIInv /\ [TasksNext]_tasksVars => TasksIInv'
  BY TasksSteps
<1>3. QED
  BY <1>1, <1>2, PTL DEF TasksSpec

----------------------------------------------------------------------------
(* The theorems. *)

\* Every variable keeps its type, and the daemon is ready only while an
\* operation is in flight.
THEOREM TasksTypeCorrect == TasksSpec => []TasksTypeOK
<1>1. TasksIInv => TasksTypeOK
  BY DEF TasksIInv
<1>2. QED
  BY <1>1, TasksInvariant, PTL

\* The safety part of AppImplemented: under preemption, with callbacks only
\* from the daemon and delays between its steps, the task is OptigaApp's.
THEOREM AppRefined == TasksSpec => Init /\ [][Next]_vars
<1>1. TasksInit => Init
  BY DEF TasksInit
<1>2. TasksIInv /\ [TasksNext]_tasksVars => [Next]_vars
  BY TasksSteps
<1>3. QED
  BY <1>1, <1>2, TasksInvariant, PTL DEF TasksSpec

\* What OptigaAppProofs shows of the task alone holds of it in the firmware.
THEOREM AppCorrect ==
  TasksSpec => [](NoLateCallback /\ NoLostWakeup /\ LoggedTruth)
<1>1. IInv => NoLateCallback /\ NoLostWakeup /\ LoggedTruth
  BY StatusAssumption
     DEF IInv, TypeOK, Protocol, Answers, NoLateCallback, NoLostWakeup
<1>2. TasksIInv => IInv
  BY DEF TasksIInv
<1>3. QED
  BY <1>1, <1>2, TasksInvariant, PTL

\* The firmware implements the abstract session, whatever was not created and
\* however the tasks preempt each other: the chip performs the operations of
\* Cy_Optiga_Main in order, each in a step that the ones before it allow, and
\* every step of the program brings it nearer to its end.
THEOREM FirmwareSession == TasksSpec => S!Safety /\ StageOrder /\ StepsRunOut
<1> DEFINE Ordered == \A o \in MainOps \cap (inflight' \ inflight) :
                         S!Before[o] \subseteq done
<1>1. TasksInit => S!Init
  BY DEF TasksInit, Init, S!Init, Functions
<1>2. TasksIInv /\ [TasksNext]_tasksVars
        => [S!Next]_(S!vars) /\ [Ordered]_vars /\ [Remaining' < Remaining]_vars
  <2> SUFFICES ASSUME TasksIInv, [TasksNext]_tasksVars
               PROVE  /\ [S!Next]_(S!vars) /\ [Ordered]_vars
                      /\ [Remaining' < Remaining]_vars
    OBVIOUS
  <2>1. IInv /\ [Next]_vars
    BY TasksSteps DEF TasksIInv
  <2>2. QED
    BY <2>1, SessionStep, OrderedStep, StepAdvances
<1>3. QED
  BY <1>1, <1>2, TasksInvariant, PTL DEF TasksSpec, S!Safety, StageOrder, StepsRunOut

\* A failed Cy_Optiga_HbDmaInit, whose result main ignores (main.c:236), is
\* reported by all three functions.
THEOREM DmaFailuresReported == TasksSpec => []DmaFailureReported
<1>1. TasksIInv => DmaFailureReported
  <2> SUFFICES ASSUME TasksIInv, ~HasBuffers, NEW f \in Functions,
                      logged[f] # NotLogged, logged[f] = OPTIGA_LIB_SUCCESS
               PROVE  FALSE
    BY DEF DmaFailureReported
  <2>1. Performs(f) \subseteq {}
    BY DEF TasksIInv, IInv, LoggedTruth, Untouched
  <2>2. Performs(f) # {}
    BY DEF Performs, Functions, MainOps
  <2>3. QED
    BY <2>1, <2>2
<1>2. QED
  BY <1>1, TasksInvariant, PTL
=============================================================================
