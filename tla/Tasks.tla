-------------------------------- MODULE Tasks --------------------------------
(***************************************************************************)
(* The application task of OptigaApp in its firmware: main (main.c:210)    *)
(* creates the tasks and starts the preemptive scheduler, and from then on *)
(* only the ready task of the highest priority runs.  A step of the task   *)
(* is a step of OptigaApp, taken only while it has the processor; a        *)
(* callback comes only while the timer daemon has it.                      *)
(*                                                                         *)
(* The build is the one of the Makefile: DEBUG_INFRA_EN and                *)
(* USBFS_LOGS_ENABLE are 1.  Time is abstract: a delay ends, and the timer *)
(* of an operation in flight expires, at any later tick.                   *)
(***************************************************************************)
EXTENDS OptigaApp

VARIABLES boot,       \* where main is
          dma,        \* steps of Cy_Optiga_HbDmaInit that succeeded
          created,    \* tasks that exist
          ready,      \* tasks that are not blocked
          begun       \* the task is past its first delay

firmware == <<boot, dma, created, ready, begun>>
tasksVars == <<vars, firmware>>

TaskNames == {"fx_opt_task", "PrintLogTask", "daemon", "idle"}

configMAX_PRIORITIES == 15

\* The daemon has the priority of the FreeRTOS demo projects.
Mutant_DaemonLow ==
  [t \in TaskNames |-> IF t = "fx_opt_task" THEN 12
                       ELSE IF t = "PrintLogTask" THEN 5
                       ELSE IF t = "daemon" THEN 2
                       ELSE 0]

Priority ==
  [t \in TaskNames |-> IF t = "fx_opt_task" THEN 12
                       ELSE IF t = "PrintLogTask" THEN 5
                       ELSE IF t = "daemon" THEN configMAX_PRIORITIES - 1
                       ELSE 0]

\* Preemption: a ready task has the processor if none of a higher priority
\* is ready; tasks of one priority would share it in slices.
Runs(t) == /\ boot = "scheduler" /\ t \in ready
           /\ \A u \in ready : Priority[u] =< Priority[t]

\* Cy_HBDma_BufMgr_Alloc, the allocator behind the instances of the library,
\* has memory to give only once its manager was created, by the third step.
HasBuffers == dma >= 3

TasksInit ==
  /\ Init
  /\ boot = "print_create" /\ dma = 0
  /\ created = {} /\ ready = {} /\ begun = FALSE

----------------------------------------------------------------------------
(* main, before there is a scheduler. *)

\* xTaskCreate: there may be no memory for the task and its stack.
XTaskCreate(t) == /\ \/ created' = created \cup {t}
                     \/ UNCHANGED created
                  /\ ready' = ready \cup (created' \ created)

\* Nobody looks at the result.
PrintCreate ==
  /\ boot = "print_create" /\ boot' = "hbdma"
  /\ XTaskCreate("PrintLogTask")
  /\ UNCHANGED <<vars, dma, begun>>

\* Cy_Optiga_HbDmaInit: four steps, left at the first that fails.  main
\* ignores what it returns.
HbDmaInit ==
  /\ boot = "hbdma"
  /\ \/ dma' = dma + 1 /\ boot' = IF dma' = 4 THEN "app_create" ELSE boot
     \/ UNCHANGED dma /\ boot' = "app_create"
  /\ UNCHANGED <<vars, created, ready, begun>>

\* A task that could not be created is made ready.
Mutant_HandleUsed ==
  /\ boot = "app_create" /\ boot' = "start"
  /\ created' \in {created, created \cup {"fx_opt_task"}}
  /\ ready' = ready \cup {"fx_opt_task"}
  /\ UNCHANGED <<vars, dma, begun>>

\* Optiga_App_Init: a failure is logged, and main goes on.
AppCreate ==
  /\ boot = "app_create" /\ boot' = "start"
  /\ XTaskCreate("fx_opt_task")
  /\ UNCHANGED <<vars, dma, begun>>

\* vTaskStartScheduler: the idle task and the daemon have static memory.
\* The daemon blocks until a timer of its own expires.
StartScheduler ==
  /\ boot = "start" /\ boot' = "scheduler"
  /\ created' = created \cup {"idle", "daemon"}
  /\ ready' = ready \cup {"idle"}
  /\ UNCHANGED <<vars, dma, begun>>

BootStep == PrintCreate \/ HbDmaInit \/ AppCreate \/ StartScheduler

----------------------------------------------------------------------------
(* The tick, and the tasks. *)

\* The tick interrupt ends the delay of a task, or finds that the timer of
\* the library has expired and readies the daemon.
Tick(t) ==
  /\ boot = "scheduler"
  /\ t \in created \ ready
  /\ t = "daemon" => inflight # {}
  /\ ready' = ready \cup {t}
  /\ UNCHANGED <<vars, boot, dma, created, begun>>

Block(t) == ready' = ready \ {t}

\* OptigaApplication begins with a delay, for the console to be opened.
AppBegin ==
  /\ Runs("fx_opt_task") /\ ~begun
  /\ begun' = TRUE
  /\ Block("fx_opt_task")
  /\ UNCHANGED <<vars, boot, dma, created>>

\* Where the task delays itself: in printArray16, of the digest and of the
\* key with the signature, after the last operation and around its logs.
Delays ==
  \/ at = "util_create" /\ at' = "write_metadata"
  \/ at = "ecdsa_sign" /\ at' = "ecdsa_verify"
  \/ at = "ecdsa_verify" /\ phase = "check" /\ at' = "main_exit"
  \/ at = "main_exit"

AppStep ==
  /\ Runs("fx_opt_task") /\ begun
  /\ TaskStep
  /\ live' \subseteq live \/ HasBuffers
  /\ IF Delays THEN Block("fx_opt_task") ELSE UNCHANGED ready
  /\ UNCHANGED <<boot, dma, created, begun>>

\* The daemon runs the library: one step of its state machine, or the last
\* one of an operation, with its callback; then it waits for its timer.
DaemonAnswers ==
  /\ Runs("daemon")
  /\ \E o \in Ops : Complete(o)
  /\ Block("daemon")
  /\ UNCHANGED <<boot, dma, created, begun>>

DaemonStep ==
  /\ Runs("daemon")
  /\ Block("daemon")
  /\ UNCHANGED <<vars, boot, dma, created, begun>>

\* PrintTaskHandler: Cy_Debug_PrintLog, then a delay.
PrintStep ==
  /\ Runs("PrintLogTask")
  /\ Block("PrintLogTask")
  /\ UNCHANGED <<vars, boot, dma, created, begun>>

\* The processor is busy with nothing: in the idle task, in the busy-wait of
\* an operation, or in the loop at the end of the task.
Idle ==
  /\ \/ Runs("idle")
     \/ /\ Runs("fx_opt_task") /\ begun
        /\ \/ at = "spin"
           \/ phase = "wait" /\ optiga_lib_status = OPTIGA_LIB_BUSY
  /\ UNCHANGED tasksVars

Processor == AppBegin \/ AppStep \/ DaemonAnswers \/ DaemonStep \/ PrintStep

TasksNext == \/ BootStep
             \/ \E t \in TaskNames : Tick(t)
             \/ Processor \/ Idle

\* The processor executes, ticks come, delays and timers end, and the library
\* answers an operation after finitely many steps of the daemon.
TasksFairness ==
  /\ WF_tasksVars(BootStep)
  /\ \A t \in TaskNames : WF_tasksVars(Tick(t))
  /\ WF_tasksVars(Processor)
  /\ SF_tasksVars(DaemonAnswers)

TasksSpec == TasksInit /\ [][TasksNext]_tasksVars /\ TasksFairness

----------------------------------------------------------------------------
(* Correctness. *)

\* The variables have their types, only tasks that exist are ready, and the
\* daemon runs only when an operation is in flight.
TasksTypeOK ==
  /\ TypeOK
  /\ boot \in {"print_create", "hbdma", "app_create", "start", "scheduler"}
  /\ dma \in 0..4
  /\ boot \in {"print_create", "hbdma"} => dma < 4
  /\ created \subseteq TaskNames /\ ready \subseteq created
  /\ begun \in BOOLEAN
  /\ "daemon" \in ready => inflight # {}

\* Under the scheduler the task is the one of OptigaApp, and if it could be
\* created, the fairness assumed there is a consequence of the priorities:
\* the busy-wait of WAIT_AND_CHECK_STATUS at priority 12 cannot keep the
\* daemon at 14 from ending it, nor the print task at 5 the application.
AppImplemented ==
  /\ Init /\ [][Next]_vars
  /\ <>("fx_opt_task" \in created) => Fairness

\* main ignores the result of Cy_Optiga_HbDmaInit (main.c:236), whose buffer
\* manager every instance of the library is allocated from
\* (pal_os_memory.c:46-54).  When it failed the functions all log failures.
DmaFailureReported ==
  \A f \in Functions :
    ~HasBuffers /\ logged[f] # NotLogged => logged[f] # OPTIGA_LIB_SUCCESS
=============================================================================
