------------------------------ MODULE I2cSystem ------------------------------
(***************************************************************************)
(* The I2C port on its driver: pal_i2c.c calling usb_i2c.c.  The transfer  *)
(* that PalI2c leaves abstract is a call of CyI2cMaster, begun by Begin    *)
(* and returned from by End; the running call of the port, if it is at its *)
(* transfer, runs the last of the driver's calls.  message is history.     *)
(***************************************************************************)
EXTENDS PalI2c, CyI2cMaster

VARIABLE message   \* per call of the port: its length, how often it went out whole

systemVars == <<stack, g_entry_count, drv, state, owner, message>>

Messages == [length : Lengths, whole : Nat]

SystemInit == Init /\ DriverInit /\ message = << >>

SystemCall(c, n) ==
  /\ Call(c)
  /\ message' = Append(message, [length |-> n, whole |-> 0])
  /\ UNCHANGED driverVars

SystemReturn ==
  /\ Return
  /\ message' = SubSeq(message, 1, Len(message) - 1)
  /\ UNCHANGED driverVars

\* The read path calls the driver's write.
Mutant_ReadWrites ==
  /\ Begin
  /\ Enter("write", message[Len(message)].length)
  /\ UNCHANGED message

\* The driver is given the call's message, the same one at every attempt.
BeginTransfer ==
  /\ Begin
  /\ Enter(Top.call, message[Len(message)].length)
  /\ UNCHANGED message

TransferStep ==
  /\ At("transfer")
  /\ DriverStep
  /\ UNCHANGED <<stack, g_entry_count, message>>

\* i2c_status is what the driver returned.
EndTransfer ==
  /\ End
  /\ Leave
  /\ stack'[Len(stack)].failed = (Running.status # "SUCCESS")
  /\ message' = [message EXCEPT ![Len(message)].whole =
                   IF Whole(Running) THEN @ + 1 ELSE @]

PortStep ==
  /\ Test \/ Load \/ Store \/ Confirm \/ Decide \/ EarlyRelease
     \/ HandlerDone \/ Release
  /\ UNCHANGED <<drv, state, owner, message>>

SystemNext == \/ \E c \in Calls, n \in Lengths : SystemCall(c, n)
              \/ BeginTransfer \/ TransferStep \/ EndTransfer
              \/ PortStep \/ SystemReturn

SystemSpec == SystemInit /\ [][SystemNext]_systemVars

----------------------------------------------------------------------------
(* Correctness. *)

\* The calls of the port that are at their transfer.
Transferring == {i \in DOMAIN stack : stack[i].pc = "transfer"}

\* home tells which call of the port each call of the driver works for: in
\* the order of the stacks, for each call at its transfer, moving its message
\* in its direction.
Serves(home) ==
  /\ \A k \in DOMAIN drv :
       /\ home[k] \in Transferring
       /\ drv[k].op = stack[home[k]].call
       /\ drv[k].size = message[home[k]].length
       /\ \A l \in 1..(k - 1) : home[l] < home[k]
  /\ \A i \in Transferring : \E k \in DOMAIN drv : home[k] = i

\* The variables have their types, and the calls of the driver are those that
\* the port is waiting for, each with its own message: no call of the port
\* returns on the result of another's (pal_i2c.c:139, 193).
SystemTypeOK ==
  /\ TypeOK /\ DriverTypeOK
  /\ message \in Seq(Messages) /\ Len(message) = Len(stack)
  /\ \E home \in [DOMAIN drv -> DOMAIN stack] : Serves(home)

\* A call of the port that returns SUCCESS put its message on the wires whole
\* exactly once, over all its attempts, and one that fails or is refused never:
\* also when reads overlap and break each other's frames (pal_i2c.c:131-226).
DeliveredOnce ==
  \A i \in DOMAIN stack :
    stack[i].pc = "return" =>
      message[i].whole = IF stack[i].status = "SUCCESS" THEN 1 ELSE 0

\* Whatever calls are nested in it, a step changes only the running call, of
\* the port and of the driver, and brings it nearer to its return: a write
\* that keeps failing or losing the bus runs out of attempts, and a transfer
\* out of bytes (pal_i2c.c:138-142, usb_i2c.c:57-138).
CallsEnd == [][CallAdvances /\ TransferAdvances]_systemVars
=============================================================================
