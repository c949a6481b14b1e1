------------------------------- MODULE PalI2c -------------------------------
(***************************************************************************)
(* The I2C port of the host library, COMPONENT_OPTIGA_CYHAL/pal_i2c.c: a   *)
(* word, g_entry_count, that serves as the lock of the bus, and the two    *)
(* blocking calls pal_i2c_write and pal_i2c_read, which report to the      *)
(* event handler of the upper layer before they return.                    *)
(*                                                                         *)
(* The program runs on one core under strict priorities and nothing blocks *)
(* inside a call, so calls nest: a call starts while another is under way  *)
(* either because a task of higher priority preempts it or because its     *)
(* event handler makes it, and it returns before the other goes on.  The   *)
(* stack of calls is the state; only the call on top of it steps.  Every   *)
(* access to g_entry_count, which is volatile, is a step.                  *)
(*                                                                         *)
(* The driver below (usb_i2c.c) is here a transfer that begins and ends,   *)
(* with success or not.                                                    *)
(*                                                                         *)
(* Each Mutant_... is a plausible slip in the definition after it, under   *)
(* which TLC must find a property violated; no specification uses one.     *)
(***************************************************************************)
EXTENDS Naturals, Sequences

CONSTANTS Calls,       \* the calls in use: a subset of {"write", "read"}
          MaxDepth,    \* bound on the nesting of calls
          MaxAttempts  \* transfers tried by one write

ASSUME CallAssumption ==
  /\ Calls \subseteq {"write", "read"} /\ Calls # {}
  /\ MaxDepth \in Nat \ {0}
  /\ MaxAttempts \in Nat \ {0}

VARIABLES stack,         \* the calls under way, the running one last
          g_entry_count  \* the lock word of the bus

vars == <<stack, g_entry_count>>

Points == {"test", "load", "store", "confirm",   \* pal_i2c_acquire
           "begin", "transfer", "decide",        \* the attempts
           "early_release", "handler",           \* the report
           "release", "last_release", "return"}

Events == {"none", "SUCCESS", "ERROR", "BUSY"}

\* A call: pc is its program point, reg the register of g_entry_count++,
\* attempts counts its transfers, failed is its i2c_status, events are the
\* events it gave to the handler and status is what it will return.
Frames == [call : {"write", "read"}, pc : Points, reg : Nat,
           attempts : 0..MaxAttempts, failed : BOOLEAN,
           events : Seq(Events), status : {"FAILURE", "SUCCESS", "I2C_BUSY"}]

NewFrame(c) == [call |-> c, pc |-> "test", reg |-> 0, attempts |-> 0,
                failed |-> FALSE, events |-> << >>, status |-> "FAILURE"]

Init == stack = << >> /\ g_entry_count = 0

Top == stack[Len(stack)]

At(p) == stack # << >> /\ Top.pc = p

\* The running call becomes f.
Become(f) == stack' = [stack EXCEPT ![Len(stack)] = f]

Move(p) == Become([Top EXCEPT !.pc = p])

----------------------------------------------------------------------------
(* Calls. *)

\* A call starts: the first one, one of a preempting task, or one that the
\* event handler of the running call makes.
Call(c) ==
  /\ Len(stack) < MaxDepth
  /\ stack' = Append(stack, NewFrame(c))
  /\ UNCHANGED g_entry_count

Return ==
  /\ At("return")
  /\ stack' = SubSeq(stack, 1, Len(stack) - 1)
  /\ UNCHANGED g_entry_count

----------------------------------------------------------------------------
(* pal_i2c_acquire; a refusal reports PAL_I2C_EVENT_BUSY. *)

Refused == [Top EXCEPT !.pc = "handler", !.status = "I2C_BUSY",
                       !.events = Append(@, "BUSY")]

\* The word is not tested.
Mutant_NotTested == At("test") /\ Move("load") /\ UNCHANGED g_entry_count

\* if (0 == g_entry_count)
Test ==
  /\ At("test")
  /\ IF g_entry_count = 0 THEN Move("load") ELSE Become(Refused)
  /\ UNCHANGED g_entry_count

\* g_entry_count++ is a load and a store.  (Far from the width of the word:
\* it counts calls that have not returned.)
Load ==
  /\ At("load")
  /\ Become([Top EXCEPT !.pc = "store", !.reg = g_entry_count])
  /\ UNCHANGED g_entry_count

Store ==
  /\ At("store")
  /\ g_entry_count' = Top.reg + 1
  /\ Move("confirm")

\* if (1 == g_entry_count)
Confirm ==
  /\ At("confirm")
  /\ IF g_entry_count = 1 THEN Move("begin") ELSE Become(Refused)
  /\ UNCHANGED g_entry_count

----------------------------------------------------------------------------
(* The transfers, and what is done with their result. *)

\* The attempt is not counted.
Mutant_NotCounted ==
  /\ At("begin")
  /\ Become([Top EXCEPT !.pc = "transfer"])
  /\ UNCHANGED g_entry_count

Begin ==
  /\ At("begin")
  /\ Become([Top EXCEPT !.pc = "transfer", !.attempts = @ + 1])
  /\ UNCHANGED g_entry_count

\* The last attempt is given up.
Mutant_OneAttemptLess ==
  /\ At("transfer")
  /\ \E failed \in BOOLEAN :
       Become([Top EXCEPT
         !.failed = failed,
         !.pc = IF failed /\ Top.call = "write" /\ Top.attempts + 1 < MaxAttempts
                THEN "begin" ELSE "decide"])
  /\ UNCHANGED g_entry_count

\* A write goes on to its next attempt though one has succeeded.
Mutant_NoBreak ==
  /\ At("transfer")
  /\ \E failed \in BOOLEAN :
       Become([Top EXCEPT
         !.failed = failed,
         !.pc = IF Top.call = "write" /\ Top.attempts < MaxAttempts
                THEN "begin" ELSE "decide"])
  /\ UNCHANGED g_entry_count

\* The driver returns.  A failed write is tried again, a read is not.
End ==
  /\ At("transfer")
  /\ \E failed \in BOOLEAN :
       Become([Top EXCEPT
         !.failed = failed,
         !.pc = IF failed /\ Top.call = "write" /\ Top.attempts < MaxAttempts
                THEN "begin" ELSE "decide"])
  /\ UNCHANGED g_entry_count

\* An error is reported with the bus still held.  A write that succeeded
\* gives the bus back before it reports, a read reports first.
Decide ==
  /\ At("decide")
  /\ IF Top.failed
     THEN Become([Top EXCEPT !.pc = "handler", !.events = Append(@, "ERROR")])
     ELSE IF Top.call = "write" THEN Move("early_release")
     ELSE Become([Top EXCEPT !.pc = "handler", !.events = Append(@, "SUCCESS")])
  /\ UNCHANGED g_entry_count

EarlyRelease ==
  /\ At("early_release")
  /\ g_entry_count' = 0
  /\ Become([Top EXCEPT !.pc = "handler", !.events = Append(@, "SUCCESS")])

----------------------------------------------------------------------------
(* After the handler. *)

LastEvent(f) == f.events[Len(f.events)]

\* The bus is not given back after an error.
Mutant_KeptAfterError ==
  /\ At("handler")
  /\ Become([Top EXCEPT
       !.status = IF LastEvent(Top) = "SUCCESS" THEN "SUCCESS" ELSE @,
       !.pc = IF Top.call = "read" THEN "last_release" ELSE "return"])
  /\ UNCHANGED g_entry_count

\* A write, too, releases the bus on every path.
Mutant_AlwaysReleased ==
  /\ At("handler")
  /\ Become([Top EXCEPT
       !.status = IF LastEvent(Top) = "SUCCESS" THEN "SUCCESS" ELSE @,
       !.pc = IF LastEvent(Top) = "ERROR" THEN "release" ELSE "last_release"])
  /\ UNCHANGED g_entry_count

\* The handler has returned.
HandlerDone ==
  /\ At("handler")
  /\ Become([Top EXCEPT
       !.status = IF LastEvent(Top) = "SUCCESS" THEN "SUCCESS" ELSE @,
       !.pc = IF LastEvent(Top) = "ERROR" THEN "release"
              ELSE IF Top.call = "read" THEN "last_release" ELSE "return"])
  /\ UNCHANGED g_entry_count

\* pal_i2c_release: after the report of an error, and at the end of
\* pal_i2c_read on every path, the refused one included.
Release ==
  /\ At("release") \/ At("last_release")
  /\ g_entry_count' = 0
  /\ Move(IF Top.pc = "release" /\ Top.call = "read" THEN "last_release" ELSE "return")

Next == \/ \E c \in Calls : Call(c)
        \/ Test \/ Load \/ Store \/ Confirm
        \/ Begin \/ End \/ Decide \/ EarlyRelease
        \/ HandlerDone \/ Release \/ Return

Spec == Init /\ [][Next]_vars

----------------------------------------------------------------------------
(* Correctness. *)

TypeOK == stack \in Seq(Frames) /\ g_entry_count \in Nat

\* A call that has acquired the bus holds it until it writes the word back.
Holds(f) ==
  \/ f.pc \in {"confirm", "begin", "transfer", "decide", "early_release", "release"}
  \/ f.pc = "handler" /\ LastEvent(f) = "ERROR"
  \/ f.pc \in {"handler", "last_release"} /\ f.call = "read" /\ LastEvent(f) # "BUSY"

\* At most one call is using the wires, however calls nest and preempt: what
\* "Acquire the I2C bus before read/write" (pal_i2c.c:135, 187) is for.
OneTransfer ==
  \A i, j \in DOMAIN stack :
    stack[i].pc = "transfer" /\ stack[j].pc = "transfer" => i = j

\* With writes only: a call is refused only if a call below it on the stack
\* holds the bus.  (A refused read clears the word also under a write that is
\* between its increment and its second test, which is then refused although
\* nobody holds the bus.)
RefusedOnlyIfHeld ==
  \A i \in DOMAIN stack :
    stack[i].pc = "handler" /\ LastEvent(stack[i]) = "BUSY"
      => \E j \in 1..(i - 1) : Holds(stack[j])

\* When no call is under way the bus is free: on no path, in no nesting, does
\* a call leave the word set behind it, which would refuse every later call.
FreeAtRest == stack = << >> => g_entry_count = 0

\* A call gives exactly one event to the handler, the one that agrees with
\* the status it returns, and a write reports an error only after its last
\* attempt has failed.
OneAnswer ==
  \A i \in DOMAIN stack :
    LET f == stack[i]
    IN  f.pc = "return" =>
          /\ f.events = << CASE f.status = "SUCCESS"  -> "SUCCESS"
                             [] f.status = "FAILURE"  -> "ERROR"
                             [] f.status = "I2C_BUSY" -> "BUSY" >>
          /\ f.status = "FAILURE" =>
               f.attempts = IF f.call = "write" THEN MaxAttempts ELSE 1

\* At most so many steps of its own are left to a call before it returns.
StepsToReturn(f) ==
  CASE f.pc = "return"        -> 0
    [] f.pc = "last_release"  -> 1
    [] f.pc = "release"       -> 2
    [] f.pc = "handler"       -> 3
    [] f.pc = "early_release" -> 4
    [] f.pc = "decide"        -> 5
    [] f.pc = "transfer"      -> 2 * (MaxAttempts - f.attempts) + 6
    [] f.pc = "begin"         -> 2 * (MaxAttempts - f.attempts) + 5
    [] f.pc = "confirm"       -> 2 * MaxAttempts + 6
    [] f.pc = "store"         -> 2 * MaxAttempts + 7
    [] f.pc = "load"          -> 2 * MaxAttempts + 8
    [] f.pc = "test"          -> 2 * MaxAttempts + 9

\* The calls that are under way before and after a step are as they were, but
\* for the running one, which has fewer steps left.
CallAdvances ==
  \A i \in DOMAIN stack \cap DOMAIN stack' : stack'[i] # stack[i] =>
    i = Len(stack) /\ StepsToReturn(stack'[i]) < StepsToReturn(stack[i])
=============================================================================
