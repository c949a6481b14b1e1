-------------------------- MODULE PalOsEventProofs --------------------------
(***************************************************************************)
(* Proofs about PalOsEvent, for any jobs and any length of the queue.      *)
(***************************************************************************)
EXTENDS PalOsEvent, TLAPS

\* The points of a context that registers a job, once it has passed the test.
Registering == {"mark", "store_callback", "store_ctx", "create_timer", "post_start"}

\* After it has stored the callback.
Stored == {"store_ctx", "create_timer", "post_start"}

Destroying == {"post_stop", "post_delete", "destroyed"}

\* In a callback the timer is dormant, and the queue holds at most the start
\* of the successor.
InCallback ==
  /\ pc["daemon"] \in {"wait", "client", "start"} \cup Registering
  /\ pc["daemon"] # "wait" =>
       /\ timer = "dormant" /\ open /\ ~halted
       /\ pc["task"] \in {"client", "start", "post_stop"}
       /\ queue \in {<< >>, <<"start">>}
       /\ pc["daemon"] # "client" => queue = << >>

\* A task that registers a job finds nothing pending, and nothing becomes so.
InRegistration ==
  /\ pc["task"] \in {"client", "start"} \cup Registering \cup Destroying
  /\ pc["task"] \in Registering =>
       pc["daemon"] = "wait" /\ queue = << >> /\ timer # "active"

\* How far a destruction has come.  It passes its first command only if there
\* is a timer.
InDestruction ==
  /\ pc["task"] = "post_stop" => posted = {} /\ queue \in {<< >>, <<"start">>}
  /\ pc["task"] = "post_delete" /\ ~halted =>
       /\ posted = {"stop"} /\ pc["daemon"] = "wait"
       /\ \/ queue = <<"stop">> /\ timer \in {"dormant", "active"}
          \/ queue = << >> /\ timer = "dormant"
  /\ pc["task"] = "destroyed" =>
       /\ posted = {"stop", "delete"} /\ pc["daemon"] = "wait"
       /\ \/ queue = <<"delete">> /\ timer = "dormant"
          \/ queue = << >> /\ timer = "deleted"
  /\ pc["task"] # "client" => open

\* One command at most is in the queue.
OneCommand ==
  /\ queue \in {<< >>, <<"start">>, <<"stop">>, <<"delete">>}
  /\ queue = <<"start">> => timer = "dormant"
  /\ queue = <<"stop">> => pc["task"] = "post_delete" /\ ~halted
  /\ queue = <<"delete">> => pc["task"] = "destroyed"

\* timer_created says whether there is a timer, until it is deleted.  A system
\* that has stopped was given a command for a handle without one.
Handle ==
  /\ timer = "none" => ~timer_created
  /\ timer \in {"null", "dormant", "active"} => timer_created /\ open
  /\ timer = "deleted" => (timer_created <=> pc["task"] = "destroyed")
  /\ timer = "null" => /\ pc["daemon"] = "wait" /\ queue = << >>
                       /\ pc["task"] = "post_start" \/ halted
  /\ pc["task"] = "post_start" => timer \in {"dormant", "null"}
  /\ halted => /\ timer \in {"none", "null", "deleted"}
               /\ pc["task"] \in {"client", "post_delete"}
               /\ pc["daemon"] = "wait" /\ queue = << >>

\* What is registered.
Registered ==
  /\ \A c \in Contexts :
       /\ pc[c] \in {"start"} \cup Registering => arg[c] \in Jobs
       /\ pc[c] \in Stored => callback_registered = arg[c]
       /\ pc[c] \in Registering \ {"mark"} => is_event_triggered
       /\ pc[c] = "mark" => ~is_event_triggered
  /\ pc["task"] # "store_ctx" /\ pc["daemon"] # "store_ctx" =>
       callback_registered = callback_ctx
  /\ Pending => callback_registered # NoJob /\ is_event_triggered

\* An event destroyed at rest has nothing to lose.
Rest ==
  AtRest =>
    /\ pc["task"] \in Destroying => ~is_event_triggered /\ pc["daemon"] = "wait"
    /\ is_event_triggered /\ ~halted /\ pc["daemon"] = "wait"
       /\ pc["task"] \notin Registering => Pending

IInv == /\ TypeOK /\ OwnArgument /\ InCallback /\ InRegistration
        /\ InDestruction /\ OneCommand /\ Handle /\ Registered /\ Rest

----------------------------------------------------------------------------
(* The invariant is inductive. *)

\* Facts about queues of at most one command.
LEMMA QueueFacts ==
  /\ \A x, y \in Commands : /\ Append(<< >>, x) = <<x>> /\ Tail(<<x>>) = << >>
                            /\ Head(<<x>>) = x /\ <<x>> # << >>
                            /\ <<x>> = <<y>> => x = y
                            /\ Len(<<x>>) = 1 /\ <<x>> \in Seq(Commands)
  /\ Len(<< >>) = 0 /\ << >> \in Seq(Commands)
  BY DEF Commands

\* With one command, something is pending in two cases.
LEMMA PendingIs ==
  /\ OneCommand => (Pending <=> timer = "active" \/ queue = <<"start">>)
  /\ OneCommand' => (Pending' <=> timer' = "active" \/ queue' = <<"start">>)
  BY DEF OneCommand, Pending

USE DEF Points, Timers, Commands, Contexts, Registering, Stored, Destroying

LEMMA InitIInv == Init => IInv
<1> SUFFICES ASSUME Init PROVE IInv
  OBVIOUS
<1>1. TypeOK
  <2>1. queue \in Seq(Commands) /\ Len(queue) <= QueueLength
    BY EventAssumption, QueueFacts DEF Init
  <2>2. ran \in (Jobs \cup {NoJob}) \X (Jobs \cup {NoJob})
    BY DEF Init
  <2> QED
    BY <2>1, <2>2 DEF Init, TypeOK
<1>2. ~Pending
  BY DEF Init, Pending
<1>3. OwnArgument /\ InCallback /\ InRegistration /\ InDestruction /\ OneCommand
  BY DEF Init, OwnArgument, InCallback, InRegistration, InDestruction, OneCommand
<1>4. Handle /\ Registered /\ Rest
  BY <1>2 DEF Init, Handle, Registered, Rest
<1> QED
  BY <1>1, <1>3, <1>4 DEF IInv

\* The calls of the clients.
LEMMA CallsIInv ==
  ASSUME IInv, NEW c \in Contexts,
         \/ CallCreate
         \/ CallStart(c)
         \/ CallRegister
         \/ Stop
         \/ CallbackReturns
         \/ CallDestroy
  PROVE  IInv'
<1>1. CASE CallCreate
  <2>1. TypeOK' /\ OneCommand'
    BY <1>1, EventAssumption, QueueFacts
    DEF CallCreate, Step, Runs, DaemonBlocked, event, IInv, TypeOK, InCallback,
        InRegistration, InDestruction, OneCommand, Handle
  <2>2. OwnArgument' /\ InCallback' /\ InRegistration' /\ InDestruction' /\ Handle'
    BY <1>1, <2>1, PendingIs, EventAssumption, QueueFacts
    DEF CallCreate, Step, Runs, DaemonBlocked, event, IInv,
        TypeOK, OwnArgument, InCallback, InRegistration, InDestruction,
        OneCommand, Handle, Registered, Rest
  <2>3. Registered' /\ Rest'
    BY <1>1, <2>1, PendingIs, EventAssumption, QueueFacts
    DEF CallCreate, Step, Runs, DaemonBlocked, event, IInv,
        TypeOK, OwnArgument, InCallback, InRegistration, InDestruction,
        OneCommand, Handle, Registered, Rest
  <2> QED
    BY <2>1, <2>2, <2>3 DEF IInv
<1>2. CASE CallStart(c)
  <2>1. TypeOK' /\ OneCommand'
    BY <1>2, EventAssumption, QueueFacts
    DEF CallStart, Step, Runs, DaemonBlocked, event, IInv, TypeOK, InCallback,
        InRegistration, InDestruction, OneCommand, Handle
  <2>2. OwnArgument' /\ InCallback' /\ InRegistration' /\ InDestruction' /\ Handle'
    BY <1>2, <2>1, PendingIs, EventAssumption, QueueFacts
    DEF CallStart, Step, Runs, DaemonBlocked, event, IInv,
        TypeOK, OwnArgument, InCallback, InRegistration, InDestruction,
        OneCommand, Handle, Registered, Rest
  <2>3. Registered' /\ Rest'
    BY <1>2, <2>1, PendingIs, EventAssumption, QueueFacts
    DEF CallStart, Step, Runs, DaemonBlocked, event, IInv,
        TypeOK, OwnArgument, InCallback, InRegistration, InDestruction,
        OneCommand, Handle, Registered, Rest
  <2> QED
    BY <2>1, <2>2, <2>3 DEF IInv
<1>3. CASE CallRegister
  <2>1. TypeOK' /\ OneCommand'
    BY <1>3, EventAssumption, QueueFacts
    DEF CallRegister, Step, Runs, DaemonBlocked, event, IInv, TypeOK, InCallback,
        InRegistration, InDestruction, OneCommand, Handle
  <2>2. OwnArgument' /\ InCallback' /\ InRegistration' /\ InDestruction' /\ Handle'
    BY <1>3, <2>1, PendingIs, EventAssumption, QueueFacts
    DEF CallRegister, Step, Runs, DaemonBlocked, event, IInv,
        TypeOK, OwnArgument, InCallback, InRegistration, InDestruction,
        OneCommand, Handle, Registered, Rest
  <2>3. Registered' /\ Rest'
    BY <1>3, <2>1, PendingIs, EventAssumption, QueueFacts
    DEF CallRegister, Step, Runs, DaemonBlocked, event, IInv,
        TypeOK, OwnArgument, InCallback, InRegistration, InDestruction,
        OneCommand, Handle, Registered, Rest
  <2> QED
    BY <2>1, <2>2, <2>3 DEF IInv
<1>4. CASE Stop
  <2>1. TypeOK' /\ OneCommand'
    BY <1>4, EventAssumption, QueueFacts
    DEF Stop, Step, Runs, DaemonBlocked, event, IInv, TypeOK, InCallback,
        InRegistration, InDestruction, OneCommand, Handle
  <2>2. OwnArgument' /\ InCallback' /\ InRegistration' /\ InDestruction' /\ Handle'
    BY <1>4, <2>1, PendingIs, EventAssumption, QueueFacts
    DEF Stop, Step, Runs, DaemonBlocked, event, IInv,
        TypeOK, OwnArgument, InCallback, InRegistration, InDestruction,
        OneCommand, Handle, Registered, Rest
  <2>3. Registered' /\ Rest'
    BY <1>4, <2>1, PendingIs, EventAssumption, QueueFacts
    DEF Stop, Step, Runs, DaemonBlocked, event, IInv,
        TypeOK, OwnArgument, InCallback, InRegistration, InDestruction,
        OneCommand, Handle, Registered, Rest
  <2> QED
    BY <2>1, <2>2, <2>3 DEF IInv
<1>5. CASE CallbackReturns
  <2>1. TypeOK' /\ OneCommand'
    BY <1>5, EventAssumption, QueueFacts
    DEF CallbackReturns, Step, Runs, DaemonBlocked, event, IInv, TypeOK, InCallback,
        InRegistration, InDestruction, OneCommand, Handle
  <2>2. OwnArgument' /\ InCallback' /\ InRegistration' /\ InDestruction' /\ Handle'
    BY <1>5, <2>1, PendingIs, EventAssumption, QueueFacts
    DEF CallbackReturns, Step, Runs, DaemonBlocked, event, IInv,
        TypeOK, OwnArgument, InCallback, InRegistration, InDestruction,
        OneCommand, Handle, Registered, Rest
  <2>3. Registered' /\ Rest'
    BY <1>5, <2>1, PendingIs, EventAssumption, QueueFacts
    DEF CallbackReturns, Step, Runs, DaemonBlocked, event, IInv,
        TypeOK, OwnArgument, InCallback, InRegistration, InDestruction,
        OneCommand, Handle, Registered, Rest
  <2> QED
    BY <2>1, <2>2, <2>3 DEF IInv
<1>6. CASE CallDestroy
  <2>1. TypeOK' /\ OneCommand'
    BY <1>6, EventAssumption, QueueFacts
    DEF CallDestroy, Step, Runs, DaemonBlocked, event, IInv, TypeOK, InCallback,
        InRegistration, InDestruction, OneCommand, Handle
  <2>2. OwnArgument' /\ InCallback' /\ InRegistration' /\ InDestruction' /\ Handle'
    BY <1>6, <2>1, PendingIs, EventAssumption, QueueFacts
    DEF CallDestroy, Step, Runs, DaemonBlocked, event, IInv,
        TypeOK, OwnArgument, InCallback, InRegistration, InDestruction,
        OneCommand, Handle, Registered, Rest
  <2>3. Registered' /\ Rest'
    BY <1>6, <2>1, PendingIs, EventAssumption, QueueFacts
    DEF CallDestroy, Step, Runs, DaemonBlocked, event, IInv,
        TypeOK, OwnArgument, InCallback, InRegistration, InDestruction,
        OneCommand, Handle, Registered, Rest
  <2> QED
    BY <2>1, <2>2, <2>3 DEF IInv
<1> QED
  BY <1>1, <1>2, <1>3, <1>4, <1>5, <1>6

\* The statements of a registration.
LEMMA RegisterIInv ==
  ASSUME IInv, NEW c \in Contexts,
         \/ Start(c)
         \/ Mark(c)
         \/ StoreCallback(c)
         \/ StoreCtx(c)
         \/ CreateTimer(c)
         \/ PostStart(c)
  PROVE  IInv'
<1>1. CASE Start(c)
  <2>1. TypeOK' /\ OneCommand'
    BY <1>1, EventAssumption, QueueFacts
    DEF Start, Step, Runs, DaemonBlocked, event, IInv, TypeOK, InCallback,
        InRegistration, InDestruction, OneCommand, Handle
  <2>2. OwnArgument' /\ InCallback' /\ InRegistration' /\ InDestruction' /\ Handle'
    BY <1>1, <2>1, PendingIs, EventAssumption, QueueFacts
    DEF Start, Step, Runs, DaemonBlocked, event, IInv,
        TypeOK, OwnArgument, InCallback, InRegistration, InDestruction,
        OneCommand, Handle, Registered, Rest
  <2>3. Registered' /\ Rest'
    BY <1>1, <2>1, PendingIs, EventAssumption, QueueFacts
    DEF Start, Step, Runs, DaemonBlocked, event, IInv,
        TypeOK, OwnArgument, InCallback, InRegistration, InDestruction,
        OneCommand, Handle, Registered, Rest
  <2> QED
    BY <2>1, <2>2, <2>3 DEF IInv
<1>2. CASE Mark(c)
  <2>1. TypeOK' /\ OneCommand'
    BY <1>2, EventAssumption, QueueFacts
    DEF Mark, Step, Runs, DaemonBlocked, event, IInv, TypeOK, InCallback,
        InRegistration, InDestruction, OneCommand, Handle
  <2>2. OwnArgument' /\ InCallback' /\ InRegistration' /\ InDestruction' /\ Handle'
    BY <1>2, <2>1, PendingIs, EventAssumption, QueueFacts
    DEF Mark, Step, Runs, DaemonBlocked, event, IInv,
        TypeOK, OwnArgument, InCallback, InRegistration, InDestruction,
        OneCommand, Handle, Registered, Rest
  <2>3. Registered' /\ Rest'
    BY <1>2, <2>1, PendingIs, EventAssumption, QueueFacts
    DEF Mark, Step, Runs, DaemonBlocked, event, IInv,
        TypeOK, OwnArgument, InCallback, InRegistration, InDestruction,
        OneCommand, Handle, Registered, Rest
  <2> QED
    BY <2>1, <2>2, <2>3 DEF IInv
<1>3. CASE StoreCallback(c)
  <2>1. TypeOK' /\ OneCommand'
    BY <1>3, EventAssumption, QueueFacts
    DEF StoreCallback, Step, Runs, DaemonBlocked, event, IInv, TypeOK, InCallback,
        InRegistration, InDestruction, OneCommand, Handle
  <2>2. OwnArgument' /\ InCallback' /\ InRegistration' /\ InDestruction' /\ Handle'
    BY <1>3, <2>1, PendingIs, EventAssumption, QueueFacts
    DEF StoreCallback, Step, Runs, DaemonBlocked, event, IInv,
        TypeOK, OwnArgument, InCallback, InRegistration, InDestruction,
        OneCommand, Handle, Registered, Rest
  <2>3. Registered' /\ Rest'
    BY <1>3, <2>1, PendingIs, EventAssumption, QueueFacts
    DEF StoreCallback, Step, Runs, DaemonBlocked, event, IInv,
        TypeOK, OwnArgument, InCallback, InRegistration, InDestruction,
        OneCommand, Handle, Registered, Rest
  <2> QED
    BY <2>1, <2>2, <2>3 DEF IInv
<1>4. CASE StoreCtx(c)
  <2>1. TypeOK' /\ OneCommand'
    BY <1>4, EventAssumption, QueueFacts
    DEF StoreCtx, Step, Runs, DaemonBlocked, event, IInv, TypeOK, InCallback,
        InRegistration, InDestruction, OneCommand, Handle
  <2>2. OwnArgument' /\ InCallback' /\ InRegistration' /\ InDestruction' /\ Handle'
    BY <1>4, <2>1, PendingIs, EventAssumption, QueueFacts
    DEF StoreCtx, Step, Runs, DaemonBlocked, event, IInv,
        TypeOK, OwnArgument, InCallback, InRegistration, InDestruction,
        OneCommand, Handle, Registered, Rest
  <2>3. Registered' /\ Rest'
    BY <1>4, <2>1, PendingIs, EventAssumption, QueueFacts
    DEF StoreCtx, Step, Runs, DaemonBlocked, event, IInv,
        TypeOK, OwnArgument, InCallback, InRegistration, InDestruction,
        OneCommand, Handle, Registered, Rest
  <2> QED
    BY <2>1, <2>2, <2>3 DEF IInv
<1>5. CASE CreateTimer(c)
  <2>1. TypeOK' /\ OneCommand'
    BY <1>5, EventAssumption, QueueFacts
    DEF CreateTimer, Step, Runs, DaemonBlocked, event, IInv, TypeOK, InCallback,
        InRegistration, InDestruction, OneCommand, Handle
  <2>2. OwnArgument' /\ InCallback' /\ InRegistration' /\ InDestruction' /\ Handle'
    BY <1>5, <2>1, PendingIs, EventAssumption, QueueFacts
    DEF CreateTimer, Step, Runs, DaemonBlocked, event, IInv,
        TypeOK, OwnArgument, InCallback, InRegistration, InDestruction,
        OneCommand, Handle, Registered, Rest
  <2>3. Registered' /\ Rest'
    BY <1>5, <2>1, PendingIs, EventAssumption, QueueFacts
    DEF CreateTimer, Step, Runs, DaemonBlocked, event, IInv,
        TypeOK, OwnArgument, InCallback, InRegistration, InDestruction,
        OneCommand, Handle, Registered, Rest
  <2> QED
    BY <2>1, <2>2, <2>3 DEF IInv
<1>6. CASE PostStart(c)
  <2>1. queue = << >>
    BY <1>6 DEF PostStart, Step, Runs, DaemonBlocked, event, Post, IInv, InCallback
  <2>2. Len(queue) < QueueLength
    BY <2>1, QueueFacts, EventAssumption
  <2>3. /\ timer \in {"dormant", "null"}
        /\ queue' = IF timer = "null" THEN << >> ELSE <<"start">>
        /\ halted' \in BOOLEAN /\ (halted' <=> timer = "null")
    BY <1>6, <2>1, <2>2, QueueFacts
    DEF PostStart, Post, Live, Step, IInv, InCallback, Handle
  <2>4. TypeOK' /\ OneCommand'
    BY <1>6, <2>1, <2>2, <2>3, EventAssumption, QueueFacts
    DEF PostStart, Step, Runs, DaemonBlocked, event, Post, IInv, TypeOK, InCallback,
        InRegistration, InDestruction, OneCommand, Handle
  <2>5. OwnArgument' /\ InCallback' /\ InRegistration' /\ InDestruction' /\ Handle'
    BY <1>6, <2>1, <2>2, <2>3, <2>4, PendingIs, EventAssumption, QueueFacts
    DEF PostStart, Step, Runs, DaemonBlocked, event, Post, IInv,
        TypeOK, OwnArgument, InCallback, InRegistration, InDestruction,
        OneCommand, Handle, Registered, Rest
  <2>6. Registered' /\ Rest'
    BY <1>6, <2>1, <2>2, <2>3, <2>4, PendingIs, EventAssumption, QueueFacts
    DEF PostStart, Step, Runs, DaemonBlocked, event, Post, IInv,
        TypeOK, OwnArgument, InCallback, InRegistration, InDestruction,
        OneCommand, Handle, Registered, Rest
  <2> QED
    BY <2>4, <2>5, <2>6 DEF IInv
<1> QED
  BY <1>1, <1>2, <1>3, <1>4, <1>5, <1>6

\* The statements of a destruction.
LEMMA DestroyIInv ==
  ASSUME IInv,
         \/ PostDestroy("post_stop", "stop")
         \/ PostDestroy("post_delete", "delete")
         \/ Destroyed
  PROVE  IInv'
<1>1. CASE PostDestroy("post_stop", "stop")
  <2>1. queue = << >>
    BY <1>1 DEF PostDestroy, Step, Runs, DaemonBlocked, event, DestroyNext,
        Post, IInv, InCallback
  <2>2. Len(queue) < QueueLength
    BY <2>1, QueueFacts, EventAssumption
  <2>3. /\ queue' = IF Live THEN <<"stop">> ELSE << >>
        /\ posted' = IF Live THEN {"stop"} ELSE {}
        /\ halted' \in BOOLEAN /\ (halted' <=> timer \in {"none", "null", "deleted"})
    BY <1>1, <2>1, <2>2, QueueFacts
    DEF PostDestroy, Post, Live, Step, IInv, TypeOK, InDestruction
  <2>4. TypeOK' /\ OneCommand'
    BY <1>1, <2>1, <2>2, <2>3, EventAssumption, QueueFacts
    DEF PostDestroy, Step, Runs, DaemonBlocked, event, DestroyNext,
        Post, Live, IInv, TypeOK, InCallback,
        InRegistration, InDestruction, OneCommand, Handle
  <2>5. OwnArgument' /\ InCallback' /\ InRegistration' /\ InDestruction' /\ Handle'
    BY <1>1, <2>1, <2>2, <2>3, <2>4, PendingIs, EventAssumption, QueueFacts
    DEF PostDestroy, Step, Runs, DaemonBlocked, event, DestroyNext, Post, Live, IInv,
        TypeOK, OwnArgument, InCallback, InRegistration, InDestruction,
        OneCommand, Handle, Registered, Rest
  <2>6. Registered' /\ Rest'
    BY <1>1, <2>1, <2>2, <2>3, <2>4, PendingIs, EventAssumption, QueueFacts
    DEF PostDestroy, Step, Runs, DaemonBlocked, event, DestroyNext, Post, Live, IInv,
        TypeOK, OwnArgument, InCallback, InRegistration, InDestruction,
        OneCommand, Handle, Registered, Rest
  <2> QED
    BY <2>4, <2>5, <2>6 DEF IInv
<1>2. CASE PostDestroy("post_delete", "delete")
  <2>1. queue = << >>
    BY <1>2 DEF PostDestroy, Step, Runs, DaemonBlocked, event, DestroyNext,
        Post, IInv, InCallback
  <2>2. Len(queue) < QueueLength
    BY <2>1, QueueFacts, EventAssumption
  <2>3. /\ timer = "dormant" /\ queue' = <<"delete">>
        /\ posted' = {"stop", "delete"} /\ halted' = FALSE
    <3>1. timer = "dormant" /\ posted = {"stop"}
      BY <1>2, <2>1, QueueFacts
      DEF PostDestroy, Post, Step, Runs, IInv, InDestruction
    <3>2. halted' = FALSE
      BY <1>2, <3>1 DEF PostDestroy, Post, Live
    <3> QED
      BY <1>2, <2>1, <2>2, <3>1, <3>2, QueueFacts DEF PostDestroy, Post, Live
  <2>4. TypeOK' /\ OneCommand'
    BY <1>2, <2>1, <2>2, <2>3, EventAssumption, QueueFacts
    DEF PostDestroy, Step, Runs, DaemonBlocked, event, DestroyNext,
        Post, IInv, TypeOK, InCallback,
        InRegistration, InDestruction, OneCommand, Handle
  <2>5. OwnArgument' /\ InCallback' /\ InRegistration' /\ InDestruction' /\ Handle'
    BY <1>2, <2>1, <2>2, <2>3, <2>4, PendingIs, EventAssumption, QueueFacts
    DEF PostDestroy, Step, Runs, DaemonBlocked, event, DestroyNext, Post, IInv,
        TypeOK, OwnArgument, InCallback, InRegistration, InDestruction,
        OneCommand, Handle, Registered, Rest
  <2>6. Registered' /\ Rest'
    BY <1>2, <2>1, <2>2, <2>3, <2>4, PendingIs, EventAssumption, QueueFacts
    DEF PostDestroy, Step, Runs, DaemonBlocked, event, DestroyNext, Post, IInv,
        TypeOK, OwnArgument, InCallback, InRegistration, InDestruction,
        OneCommand, Handle, Registered, Rest
  <2> QED
    BY <2>4, <2>5, <2>6 DEF IInv
<1>3. CASE Destroyed
  <2>1. TypeOK' /\ OneCommand'
    BY <1>3, EventAssumption, QueueFacts
    DEF Destroyed, Step, Runs, DaemonBlocked, event, IInv, TypeOK, InCallback,
        InRegistration, InDestruction, OneCommand, Handle
  <2>2. OwnArgument' /\ InCallback' /\ InRegistration' /\ InDestruction' /\ Handle'
    BY <1>3, <2>1, PendingIs, EventAssumption, QueueFacts
    DEF Destroyed, Step, Runs, DaemonBlocked, event, IInv,
        TypeOK, OwnArgument, InCallback, InRegistration, InDestruction,
        OneCommand, Handle, Registered, Rest
  <2>3. Registered' /\ Rest'
    BY <1>3, <2>1, PendingIs, EventAssumption, QueueFacts
    DEF Destroyed, Step, Runs, DaemonBlocked, event, IInv,
        TypeOK, OwnArgument, InCallback, InRegistration, InDestruction,
        OneCommand, Handle, Registered, Rest
  <2> QED
    BY <2>1, <2>2, <2>3 DEF IInv
<1> QED
  BY <1>1, <1>2, <1>3

\* The steps of the daemon.
LEMMA DaemonIInv ==
  ASSUME IInv,
         \/ TakeCommand
         \/ Expire
  PROVE  IInv'
<1>1. CASE TakeCommand
  <2>1. TypeOK' /\ OneCommand'
    BY <1>1, EventAssumption, QueueFacts
    DEF TakeCommand, event, DaemonRuns, Trigger, IInv, TypeOK, InCallback,
        InRegistration, InDestruction, OneCommand, Handle
  <2>2. OwnArgument' /\ InCallback' /\ InRegistration' /\ InDestruction' /\ Handle'
    BY <1>1, <2>1, PendingIs, EventAssumption, QueueFacts
    DEF TakeCommand, event, DaemonRuns, Trigger, IInv,
        TypeOK, OwnArgument, InCallback, InRegistration, InDestruction,
        OneCommand, Handle, Registered, Rest
  <2>3. Registered' /\ Rest'
    BY <1>1, <2>1, PendingIs, EventAssumption, QueueFacts
    DEF TakeCommand, event, DaemonRuns, Trigger, IInv,
        TypeOK, OwnArgument, InCallback, InRegistration, InDestruction,
        OneCommand, Handle, Registered, Rest
  <2> QED
    BY <2>1, <2>2, <2>3 DEF IInv
<1>2. CASE Expire
  <2>1. TypeOK' /\ OneCommand'
    BY <1>2, EventAssumption, QueueFacts
    DEF Expire, event, DaemonRuns, Trigger, IInv, TypeOK, InCallback,
        InRegistration, InDestruction, OneCommand, Handle
  <2>2. OwnArgument' /\ InCallback' /\ InRegistration' /\ InDestruction' /\ Handle'
    BY <1>2, <2>1, PendingIs, EventAssumption, QueueFacts
    DEF Expire, event, DaemonRuns, Trigger, IInv,
        TypeOK, OwnArgument, InCallback, InRegistration, InDestruction,
        OneCommand, Handle, Registered, Rest
  <2>3. Registered' /\ Rest'
    BY <1>2, <2>1, PendingIs, EventAssumption, QueueFacts
    DEF Expire, event, DaemonRuns, Trigger, IInv,
        TypeOK, OwnArgument, InCallback, InRegistration, InDestruction,
        OneCommand, Handle, Registered, Rest
  <2> QED
    BY <2>1, <2>2, <2>3 DEF IInv
<1> QED
  BY <1>1, <1>2

LEMMA StepIInv == IInv /\ [Next]_vars => IInv'
<1> SUFFICES ASSUME IInv, [Next]_vars PROVE IInv'
  OBVIOUS
<1>1. CASE UNCHANGED vars
  BY <1>1 DEF vars, event, IInv, TypeOK, OwnArgument, InCallback, InRegistration,
              InDestruction, OneCommand, Handle, Registered, Rest, Pending
<1>2. CASE Next
  BY <1>1, <1>2, CallsIInv, RegisterIInv, DestroyIInv, DaemonIInv
  DEF Next, Register, Daemon, Halt
<1> QED
  BY <1>1, <1>2

\* The invariant holds in every reachable state.
THEOREM Invariance == Safety => []IInv
  BY InitIInv, StepIInv, PTL DEF Safety

----------------------------------------------------------------------------
(* What follows. *)

\* The state of the port is well typed; in particular the queue never
\* overflows, whatever its length.
THEOREM TypeCorrect == Safety => []TypeOK
<1>1. IInv => TypeOK
  BY DEF IInv
<1> QED
  BY <1>1, Invariance, PTL

\* Every callback the timer runs is given its own argument
\* (pal_os_event_trigger_registered_callback).
THEOREM ArgumentsMatch == Safety => []OwnArgument
<1>1. IInv => OwnArgument
  BY DEF IInv
<1> QED
  BY <1>1, Invariance, PTL

\* xTimerStart is never given the handle of a timer that was deleted or was
\* never created, whenever the event was destroyed and from whichever context
\* it is started.
THEOREM StartsAreLive == Safety => []StartsLive
<1>1. IInv => StartsLive
  BY DEF IInv, StartsLive, InCallback, Handle
<1> QED
  BY <1>1, Invariance, PTL

\* If the event is destroyed only at rest, a start is never swallowed by a
\* mark that nothing will clear.
THEOREM MarksAreServed == ASSUME AtRest PROVE Safety => []MarkedIsPending
<1>1. IInv => MarkedIsPending
  BY AtRest DEF IInv, MarkedIsPending, Rest
<1> QED
  BY <1>1, Invariance, PTL

\* After pal_os_event_destroy no callback runs until the event is created
\* again, also when it was destroyed in the middle of an operation.
THEOREM SilentAfterDestroy == Safety => SilentWhenDestroyed
<1>1. IInv /\ [Next]_vars
        => [pc["daemon"] = "wait" /\ pc'["daemon"] = "client" => open]_vars
  <2> SUFFICES ASSUME IInv, Next, pc["daemon"] = "wait", pc'["daemon"] = "client"
               PROVE  open
    BY DEF vars
  <2>1. timer = "active" \/ queue = <<"start">>
    <3>1. CASE TakeCommand
      BY <3>1, QueueFacts DEF TakeCommand, Trigger, IInv, OneCommand
    <3>2. CASE Expire
      BY <3>2 DEF Expire
    <3>3. CASE ~Daemon
      BY <3>3
      DEF Next, Register, Daemon, Halt, CallCreate, CallStart, CallRegister, Stop,
          CallbackReturns, CallDestroy, Start, Mark, StoreCallback, StoreCtx,
          CreateTimer, PostStart, PostDestroy, Destroyed, Post, Step, vars, IInv, TypeOK
    <3> QED
      BY <3>1, <3>2, <3>3 DEF Daemon
  <2> QED
    BY <2>1 DEF IInv, OneCommand, Handle
<1> QED
  BY <1>1, Invariance, PTL DEF Safety, SilentWhenDestroyed

----------------------------------------------------------------------------
(* The event implements the one-shot. *)

\* The value of armed under the mapping.
Armed == IF Pending THEN callback_registered ELSE NoJob

LEMMA ArmedIs ==
  ASSUME IInv, IInv'
  PROVE  /\ Armed = IF timer = "active" \/ queue = <<"start">>
                    THEN callback_registered ELSE NoJob
         /\ Armed' = IF timer' = "active" \/ queue' = <<"start">>
                     THEN callback_registered' ELSE NoJob
  BY PendingIs DEF IInv, Armed

\* A registration arms the one-shot with its xTimerStart, and only then.
LEMMA RegisterMaps ==
  ASSUME IInv, IInv', NEW c \in Contexts, Register(c)
  PROVE  ran' = ran /\ (Armed' = Armed \/ (Armed = NoJob /\ Armed' \in Jobs))
<1>1. CASE Start(c) \/ Mark(c) \/ StoreCtx(c)
  BY <1>1, ArmedIs DEF Start, Mark, StoreCtx, Step, event
<1>2. CASE StoreCallback(c)
  BY <1>2, ArmedIs DEF StoreCallback, Step, IInv, InCallback, InRegistration
<1>3. CASE CreateTimer(c)
  BY <1>3, ArmedIs DEF CreateTimer, Step, IInv, InCallback, InRegistration
<1>4. CASE PostStart(c)
  <2>1. Armed = NoJob
    BY <1>4, ArmedIs
    DEF PostStart, Post, Step, Runs, DaemonBlocked, IInv, InCallback, InRegistration
  <2>2. callback_registered' \in Jobs
    BY <1>4 DEF PostStart, Post, Step, event, IInv, Registered
  <2> QED
    BY <1>4, <2>1, <2>2, ArmedIs DEF PostStart
<1> QED
  BY <1>1, <1>2, <1>3, <1>4 DEF Register

\* A command or an expiry runs what is armed, or leaves it as it is.
LEMMA DaemonMaps ==
  ASSUME AtRest, IInv, IInv', Daemon
  PROVE  \/ ran' = ran /\ Armed' = Armed
         \/ Armed # NoJob /\ ran'[1] = Armed /\ Armed' = NoJob
<1>1. Pending => callback_registered # NoJob /\ is_event_triggered
  BY DEF IInv, Registered
<1>2. CASE Expire
  BY <1>1, <1>2, ArmedIs, PendingIs DEF Expire, Trigger, event, IInv
<1>3. CASE TakeCommand
  <2>1. CASE queue = <<"start">>
    BY <1>1, <1>3, <2>1, ArmedIs, PendingIs, QueueFacts
    DEF TakeCommand, Trigger, event, IInv, OneCommand
  <2>2. CASE queue \in {<<"stop">>, <<"delete">>}
    <3>1. ~Pending
      BY <1>1, <2>2, QueueFacts, AtRest DEF IInv, OneCommand, Rest
    <3> QED
      BY <1>3, <2>2, <3>1, ArmedIs, PendingIs, QueueFacts DEF TakeCommand, event, IInv
  <2> QED
    BY <1>3, <2>1, <2>2 DEF TakeCommand, IInv, OneCommand
<1> QED
  BY <1>2, <1>3 DEF Daemon

\* The steps of the clients and of a destruction are not seen.
LEMMA OthersMap ==
  ASSUME AtRest, IInv, IInv', Next, ~Daemon, \A c \in Contexts : ~Register(c)
  PROVE  ran' = ran /\ Armed' = Armed
<1>1. CASE \/ CallCreate \/ CallRegister \/ Stop \/ CallbackReturns \/ CallDestroy
           \/ Destroyed \/ Halt \/ \E c \in Contexts : CallStart(c)
  BY <1>1, ArmedIs
  DEF CallCreate, CallRegister, Stop, CallbackReturns, CallDestroy, Destroyed, Halt,
      CallStart, event, vars
<1>2. ASSUME NEW p \in {"post_stop", "post_delete"}, NEW k \in {"stop", "delete"},
             PostDestroy(p, k)
      PROVE  ran' = ran /\ Armed' = Armed
  <2>1. queue = << >> /\ timer # "active"
    BY <1>2, AtRest, PendingIs
    DEF PostDestroy, Post, Step, Runs, DaemonBlocked, IInv, Rest, Registered
  <2>2. queue' # <<"start">> /\ timer' # "active"
    BY <1>2, <2>1, QueueFacts DEF PostDestroy, Post
  <2> QED
    BY <1>2, <2>1, <2>2, ArmedIs DEF PostDestroy
<1> QED
  BY <1>1, <1>2 DEF Next

\* If the event is destroyed only at rest, what is registered runs once, later
\* and with its own argument, and nothing is registered over it.
THEOREM Refinement == ASSUME AtRest PROVE Safety => E!Safety
<1>1. Init => E!Init
  BY DEF Init, E!Init, Pending
<1>2. IInv /\ IInv' /\ [Next]_vars => [E!Next]_E!vars
  <2> SUFFICES ASSUME IInv, IInv', [Next]_vars
               PROVE  [E!Next]_E!vars
    OBVIOUS
  <2>1. CASE UNCHANGED vars
    BY <2>1 DEF vars, event, E!vars, Pending
  <2>2. CASE \E c \in Contexts : Register(c)
    BY <2>2, RegisterMaps DEF E!Next, E!Arm, E!vars, Armed
  <2>3. CASE Daemon
    BY <2>3, AtRest, DaemonMaps DEF E!Next, E!Run, E!vars, Armed
  <2>4. CASE Next /\ ~Daemon /\ \A c \in Contexts : ~Register(c)
    BY <2>4, AtRest, OthersMap DEF E!vars, Armed
  <2> QED
    BY <2>1, <2>2, <2>3, <2>4
<1> QED
  BY <1>1, <1>2, Invariance, PTL DEF Safety, E!Safety
=============================================================================
