----------------------------- MODULE PalOsEvent -----------------------------
(***************************************************************************)
(* The event port of the host library, COMPONENT_OPTIGA_CYHAL/             *)
(* pal_os_event.c: one event, pal_os_event_0, that runs a registered       *)
(* callback once, by a one-shot FreeRTOS timer.                            *)
(*                                                                         *)
(* Two contexts use the port: the application task, which creates, starts  *)
(* and destroys the event, and the timer daemon, in which the callback     *)
(* runs and registers the next one or stops the event.  The daemon has the *)
(* higher priority, so the task runs only while the daemon is blocked, and *)
(* the timer can expire between any two statements of the task.  A command *)
(* to the timer goes through the daemon's queue.                           *)
(*                                                                         *)
(* What the clients keep to: the event is started and destroyed between    *)
(* its creation and its destruction; a callback registers one successor,   *)
(* or stops the event and may start it again.  AtRest says whether the     *)
(* event is destroyed only when it is stopped, or in the middle of an      *)
(* operation as well.  An event that was created without a callback and    *)
(* never started has no timer, and pal_os_event_destroy does not ask.      *)
(*                                                                         *)
(* Each Mutant_... is a plausible slip in the definition after it, under   *)
(* which TLC must find a property violated; no specification uses one.     *)
(***************************************************************************)
EXTENDS Naturals, Sequences

CONSTANTS Jobs,        \* the callbacks with their arguments
          NoJob,       \* the null pointer
          QueueLength, \* configTIMER_QUEUE_LENGTH
          AtRest       \* only an event that is stopped is destroyed

ASSUME EventAssumption ==
  /\ NoJob \notin Jobs
  /\ QueueLength \in Nat \ {0}
  /\ AtRest \in BOOLEAN

VARIABLES
  is_event_triggered,   \* pal_os_event_0, written by both contexts
  callback_registered,  \*   the job whose callback is registered
  callback_ctx,         \*   the job whose argument is registered
  timer_created,
  timer,   \* the timer fx_optiga_timer refers to
  queue,   \* commands for it the daemon has not taken yet
  pc,      \* the point each context has reached
  arg,     \* the job each context passes to the port
  posted,  \* the commands pal_os_event_destroy could post
  open,    \* the client has created the event and not destroyed it
  ran,     \* the callback that ran last and the argument it was given
  halted   \* a command was given to a handle that no timer is behind

event == <<is_event_triggered, callback_registered, callback_ctx, timer_created>>
vars == <<event, timer, queue, pc, arg, posted, open, ran, halted>>

Contexts == {"task", "daemon"}

Commands == {"start", "stop", "delete"}

\* "client" is code of the library, the rest are points of the port.  The
\* daemon is at "wait" when no callback runs.
Points == {"wait", "client", "start", "mark", "store_callback", "store_ctx",
           "create_timer", "post_start", "post_stop", "post_delete", "destroyed"}

\* "none": the handle is 0 from the start; "null": xTimerCreate had no memory;
\* "deleted": the handle is that of a timer that was freed.
Timers == {"none", "null", "dormant", "active", "deleted"}

Init ==
  /\ is_event_triggered = FALSE
  /\ callback_registered = NoJob /\ callback_ctx = NoJob
  /\ timer_created = FALSE
  /\ timer = "none"
  /\ queue = << >>
  /\ pc = [c \in Contexts |-> IF c = "task" THEN "client" ELSE "wait"]
  /\ arg = [c \in Contexts |-> NoJob]
  /\ posted = {}
  /\ open = FALSE
  /\ ran = <<NoJob, NoJob>>
  /\ halted = FALSE

----------------------------------------------------------------------------
(* Steps of a context. *)

DaemonBlocked == pc["daemon"] = "wait" /\ queue = << >>

\* The task has the processor only while the daemon is blocked.
Runs(c) == ~halted /\ (c = "task" => DaemonBlocked)

\* Context c goes on from p to q.
Step(c, p, q) == Runs(c) /\ pc[c] = p /\ pc' = [pc EXCEPT ![c] = q]

\* There is a timer behind the handle.
Live == timer \in {"dormant", "active"}

\* xTimerStart, xTimerStop and xTimerDelete with no time to wait, in context
\* c at p: the command is lost if the queue is full.  A null handle stops the
\* system (configASSERT); what a freed one does is undefined, and nothing
\* after it is modelled.
Post(c, p, q, command) ==
  /\ Step(c, p, q)
  /\ halted' = ~Live
  /\ queue' = IF Live /\ Len(queue) < QueueLength
              THEN Append(queue, command) ELSE queue

----------------------------------------------------------------------------
(* Calls of the clients. *)

\* pal_os_event_create: without a callback it only returns the event.
CallCreate ==
  /\ ~open /\ open' = TRUE
  /\ \/ /\ Step("task", "client", "start")
        /\ \E j \in Jobs : arg' = [arg EXCEPT !["task"] = j]
     \/ /\ Step("task", "client", "client")
        /\ UNCHANGED arg
  /\ UNCHANGED <<event, timer, queue, posted, ran, halted>>

\* pal_os_event_start, from a callback only if it has no successor yet.
CallStart(c) ==
  /\ open
  /\ queue = << >>
  /\ Step(c, "client", "start")
  /\ \E j \in Jobs : arg' = [arg EXCEPT ![c] = j]
  /\ UNCHANGED <<event, timer, queue, posted, open, ran, halted>>

\* pal_os_event_register_callback_oneshot, by a callback that has no
\* successor yet.
CallRegister ==
  /\ queue = << >>
  /\ is_event_triggered
  /\ Step("daemon", "client", "store_callback")
  /\ \E j \in Jobs : arg' = [arg EXCEPT !["daemon"] = j]
  /\ UNCHANGED <<event, timer, queue, posted, open, ran, halted>>

\* pal_os_event_stop
Stop ==
  /\ queue = << >>
  /\ Step("daemon", "client", "client")
  /\ is_event_triggered' = FALSE
  /\ UNCHANGED <<callback_registered, callback_ctx, timer_created, timer, queue,
                 arg, posted, open, ran, halted>>

\* The callback returns: it has a successor or has stopped the event.
CallbackReturns ==
  /\ is_event_triggered => queue # << >>
  /\ Step("daemon", "client", "wait")
  /\ UNCHANGED <<event, timer, queue, arg, posted, open, ran, halted>>

\* The timer is left as it is.
Mutant_TimerLeft ==
  /\ open /\ (AtRest => ~is_event_triggered)
  /\ Step("task", "client", "destroyed")
  /\ posted' = {"stop", "delete"}
  /\ UNCHANGED <<event, timer, queue, arg, open, ran, halted>>

CallDestroy ==
  /\ open /\ (AtRest => ~is_event_triggered)
  /\ Step("task", "client", "post_stop")
  /\ posted' = {}
  /\ UNCHANGED <<event, timer, queue, arg, open, ran, halted>>

----------------------------------------------------------------------------
(* pal_os_event_start and pal_os_event_register_callback_oneshot *)

\* The flag is not tested.
Mutant_StartedAnyway(c) ==
  /\ Step(c, "start", "mark")
  /\ UNCHANGED <<event, timer, queue, arg, posted, open, ran, halted>>

Start(c) ==
  /\ Step(c, "start", IF is_event_triggered THEN "client" ELSE "mark")
  /\ UNCHANGED <<event, timer, queue, arg, posted, open, ran, halted>>

Mark(c) ==
  /\ Step(c, "mark", "store_callback")
  /\ is_event_triggered' = TRUE
  /\ UNCHANGED <<callback_registered, callback_ctx, timer_created, timer, queue,
                 arg, posted, open, ran, halted>>

StoreCallback(c) ==
  /\ Step(c, "store_callback", "store_ctx")
  /\ callback_registered' = arg[c]
  /\ UNCHANGED <<is_event_triggered, callback_ctx, timer_created, timer, queue,
                 arg, posted, open, ran, halted>>

\* The argument is stored with the first callback only.
Mutant_CtxStoredOnce(c) ==
  /\ Step(c, "store_ctx", "create_timer")
  /\ callback_ctx' = IF timer_created THEN callback_ctx ELSE arg[c]
  /\ UNCHANGED <<is_event_triggered, callback_registered, timer_created, timer,
                 queue, arg, posted, open, ran, halted>>

\* &callback_args for callback_args
Mutant_AddressStored(c) ==
  /\ Step(c, "store_ctx", "create_timer")
  /\ callback_ctx' = arg
  /\ UNCHANGED <<is_event_triggered, callback_registered, timer_created, timer,
                 queue, arg, posted, open, ran, halted>>

StoreCtx(c) ==
  /\ Step(c, "store_ctx", "create_timer")
  /\ callback_ctx' = arg[c]
  /\ UNCHANGED <<is_event_triggered, callback_registered, timer_created, timer,
                 queue, arg, posted, open, ran, halted>>

\* xTimerStart is inside the if.
Mutant_StartedOnce(c) ==
  /\ Step(c, "create_timer", IF timer_created THEN "client" ELSE "post_start")
  /\ timer_created' = TRUE
  /\ IF timer_created THEN UNCHANGED timer ELSE timer' \in {"dormant", "null"}
  /\ UNCHANGED <<is_event_triggered, callback_registered, callback_ctx, queue,
                 arg, posted, open, ran, halted>>

\* if (!timer_created): the result of xTimerCreate is not tested.
CreateTimer(c) ==
  /\ Step(c, "create_timer", "post_start")
  /\ timer_created' = TRUE
  /\ IF timer_created THEN UNCHANGED timer ELSE timer' \in {"dormant", "null"}
  /\ UNCHANGED <<is_event_triggered, callback_registered, callback_ctx, queue,
                 arg, posted, open, ran, halted>>

PostStart(c) ==
  /\ Post(c, "post_start", "client", "start")
  /\ UNCHANGED <<event, timer, arg, posted, open, ran>>

----------------------------------------------------------------------------
(* pal_os_event_destroy *)

DestroyNext == [post_stop |-> "post_delete", post_delete |-> "destroyed"]

PostDestroy(p, command) ==
  /\ Post("task", p, DestroyNext[p], command)
  /\ posted' = IF queue' # queue THEN posted \cup {command} ELSE posted
  /\ UNCHANGED <<event, timer, arg, open, ran>>

\* The timer is deleted and timer_created stays set.
Mutant_CreatedKept ==
  /\ Step("task", "destroyed", "client")
  /\ open' = FALSE
  /\ UNCHANGED <<event, timer, queue, arg, posted, ran, halted>>

Destroyed ==
  /\ Step("task", "destroyed", "client")
  /\ timer_created' = (timer_created /\ posted # {"stop", "delete"})
  /\ open' = FALSE
  /\ UNCHANGED <<is_event_triggered, callback_registered, callback_ctx, timer,
                 queue, arg, posted, ran, halted>>

----------------------------------------------------------------------------
(* The timer daemon. *)

\* Cy_PAL_CbkWrapper, pal_os_event_trigger_registered_callback
Trigger ==
  IF callback_registered # NoJob
  THEN /\ ran' = <<callback_registered, callback_ctx>>
       /\ pc' = [pc EXCEPT !["daemon"] = "client"]
  ELSE UNCHANGED <<ran, pc>>

\* The daemon, which runs no callback, goes on.
DaemonRuns == ~halted /\ pc["daemon"] = "wait"

\* The daemon takes the next command.  A start whose period is over by then
\* runs the callback at once.
TakeCommand ==
  /\ DaemonRuns
  /\ queue # << >>
  /\ queue' = Tail(queue)
  /\ \/ /\ Head(queue) = "start"
        /\ \/ timer' = "active" /\ UNCHANGED <<ran, pc>>
           \/ timer' = "dormant" /\ Trigger
     \/ Head(queue) = "stop" /\ timer' = "dormant" /\ UNCHANGED <<ran, pc>>
     \/ Head(queue) = "delete" /\ timer' = "deleted" /\ UNCHANGED <<ran, pc>>
  /\ UNCHANGED <<event, arg, posted, open, halted>>

\* Commands go before expired timers.
Expire ==
  /\ DaemonRuns
  /\ queue = << >>
  /\ timer = "active" /\ timer' = "dormant"
  /\ Trigger
  /\ UNCHANGED <<event, queue, arg, posted, open, halted>>

----------------------------------------------------------------------------
Register(c) == Start(c) \/ Mark(c) \/ StoreCallback(c) \/ StoreCtx(c)
                 \/ CreateTimer(c) \/ PostStart(c)

Daemon == TakeCommand \/ Expire

\* The system has stopped.
Halt == halted /\ UNCHANGED vars

Next ==
  \/ \E c \in Contexts : CallStart(c) \/ Register(c)
  \/ CallCreate \/ CallRegister \/ Stop \/ CallbackReturns
  \/ CallDestroy \/ Destroyed
  \/ PostDestroy("post_stop", "stop") \/ PostDestroy("post_delete", "delete")
  \/ Daemon
  \/ Halt

Safety == Init /\ [][Next]_vars

\* The daemon runs when it is ready, and timers expire.
Spec == Safety /\ WF_vars(Daemon) /\ WF_vars(CallbackReturns)

----------------------------------------------------------------------------
(* Correctness. *)

TypeOK ==
  /\ is_event_triggered \in BOOLEAN /\ timer_created \in BOOLEAN
  /\ callback_registered \in Jobs \cup {NoJob}
  /\ callback_ctx \in Jobs \cup {NoJob}
  /\ timer \in Timers
  /\ queue \in Seq(Commands) /\ Len(queue) <= QueueLength
  /\ pc \in [Contexts -> Points]
  /\ arg \in [Contexts -> Jobs \cup {NoJob}]
  /\ posted \subseteq Commands
  /\ open \in BOOLEAN /\ halted \in BOOLEAN
  /\ ran \in (Jobs \cup {NoJob}) \X (Jobs \cup {NoJob})

\* A callback is given the argument it was registered with, though the two
\* are stored one after the other and the timer can expire in between.
OwnArgument == ran[1] = ran[2]

\* A callback is on its way.
Pending == timer = "active" \/ \E i \in DOMAIN queue : queue[i] = "start"

\* An event that is marked as triggered will be delivered, if it is destroyed
\* only at rest: the mark, the registration and the timer are set one after
\* the other by two contexts (pal_os_event.c:58, 94-103), and no path of start,
\* register and stop leaves the mark without a timer that runs, after which
\* pal_os_event_start would do nothing for ever.  (A destruction in the middle
\* of an operation does leave it: pal_os_event.c:106-120 does not clear it.)
MarkedIsPending ==
  is_event_triggered /\ ~halted /\ pc["task"] = "client" /\ pc["daemon"] = "wait"
    => Pending

\* timer_created follows the timer through every creation and destruction: an
\* xTimerStart is given a timer, or the NULL of an xTimerCreate that has just
\* failed, and never the handle of a timer that was deleted or that was never
\* created (pal_os_event.c:97-103, 115-116).  The commands of a destruction
\* are not covered: pal_os_event_destroy does not test timer_created.
StartsLive ==
  \A c \in Contexts : pc[c] = "post_start" => timer \notin {"none", "deleted"}

\* A callback runs only between the creation of the event and its destruction.
SilentWhenDestroyed == [][pc["daemon"] = "wait" /\ pc'["daemon"] = "client" => open]_vars

\* The event is a one-shot: what is registered runs once, later, and alone.
E == INSTANCE OneShot
       WITH armed <- IF Pending THEN callback_registered ELSE NoJob,
            ran   <- ran[1]

OneShotSpec == E!Spec
=============================================================================
