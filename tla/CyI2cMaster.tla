----------------------------- MODULE CyI2cMaster -----------------------------
(***************************************************************************)
(* The driver of the I2C master, usb_i2c.c: cyi2c_master_read and          *)
(* cyi2c_master_write frame a message by START (or ReSTART) and STOP, move *)
(* its bytes one at a time and return the status of the first step that    *)
(* failed.  Both ask I2C_context.state, which all calls share, what the    *)
(* transfer before left behind.                                            *)
(*                                                                         *)
(* A call may be preempted between any two calls of the PDL, and a call    *)
(* made meanwhile returns before it goes on; drv is the stack of calls.    *)
(* The PDL is external: each of its functions is one step, which does      *)
(* nothing but say NOT_READY in the wrong state of the context, and else   *)
(* succeeds, is not acknowledged by the slave, or loses the bus.           *)
(*                                                                         *)
(* owner and the fields got and nak are history: what was seen on wires.   *)
(***************************************************************************)
EXTENDS Integers, Sequences

CONSTANT Lengths   \* lengths of messages

ASSUME LengthAssumption == Lengths \subseteq Nat

VARIABLES drv,     \* the driver calls under way, the running one last
          state,   \* I2C_context.state
          owner    \* the call that started the frame on the wires, 0 if none

driverVars == <<drv, state, owner>>

Ops == {"write", "read"}

\* CY_SCB_I2C_IDLE, and the states of a master that holds the bus: an address
\* that is not acknowledged, a write, a read.
States == {"IDLE", "ADDR", "write", "read"}

\* A driver call: left counts size down.  got counts what went over the wires
\* in the frame this call started, its address and the bytes up to a NAK; last
\* is how the last of them was answered.
Xfers == [op : Ops, pc : {"choose", "start", "restart", "bytes", "stop", "done"},
          size : Nat, left : Nat, status : {"SUCCESS", "ERROR"},
          got : Nat, last : {"ACK", "NAK"}]

DriverInit == drv = << >> /\ state = "IDLE" /\ owner = 0

Me == Len(drv)

Running == drv[Me]

Doing(p) == drv # << >> /\ Running.pc = p

\* The running call becomes f.
Turn(f) == drv' = [drv EXCEPT ![Me] = f]

----------------------------------------------------------------------------
(* Entry: interrupts and TX FIFO are cleared, which changes nothing here:  *)
(* both are empty between two calls of the PDL.                            *)

Enter(op, n) ==
  /\ drv' = Append(drv, [op |-> op, pc |-> "choose", size |-> n, left |-> n,
                         status |-> "SUCCESS", got |-> 0, last |-> "ACK"])
  /\ UNCHANGED <<state, owner>>

\* START on an idle bus, else ReSTART: decided before the call that does it.
Choose ==
  /\ Doing("choose")
  /\ Turn([Running EXCEPT !.pc = IF state = "IDLE" THEN "start" ELSE "restart"])
  /\ UNCHANGED <<state, owner>>

\* A failed step: the bytes that are left are not moved.
Fail == Turn([Running EXCEPT !.status = "ERROR", !.pc = "stop"])

NotReady == Fail /\ UNCHANGED <<state, owner>>

\* Arbitration lost, or an error on the bus: the PDL has given up the bus.
Lost == Fail /\ state' = "IDLE" /\ owner' = 0

----------------------------------------------------------------------------
(* Cy_SCB_I2C_MasterSendStart and Cy_SCB_I2C_MasterSendReStart.            *)

Addressed ==
  /\ Turn([Running EXCEPT !.got = 1,
                          !.pc = IF Running.left > 0 THEN "bytes" ELSE "stop"])
  /\ state' = Running.op
  /\ owner' = Me

AddressNak == Fail /\ state' = "ADDR" /\ owner' = Me

Start ==
  /\ Doing("start")
  /\ IF state = "IDLE" THEN Addressed \/ AddressNak \/ Lost ELSE NotReady

Restart ==
  /\ Doing("restart")
  /\ IF state # "IDLE" THEN Addressed \/ AddressNak \/ Lost ELSE NotReady

----------------------------------------------------------------------------
(* Cy_SCB_I2C_MasterReadByte and Cy_SCB_I2C_MasterWriteByte.               *)

\* Every byte is answered with ACK.
Mutant_AlwaysAck(f) == "ACK"

\* The last byte of a read is answered with NAK.
Answer(f) == IF f.op = "read" /\ f.left = 1 THEN "NAK" ELSE "ACK"

\* One more byte in the frame on the wires, if its slave still listens.
OneMore(f, answer) ==
  IF f.last = "NAK" THEN f ELSE [f EXCEPT !.got = @ + 1, !.last = answer]

ByteMoved ==
  /\ drv' = [[drv EXCEPT ![owner] = OneMore(@, Answer(Running))]
               EXCEPT ![Me].left = @ - 1,
                      ![Me].pc = IF Running.left > 1 THEN "bytes" ELSE "stop"]
  /\ UNCHANGED <<state, owner>>

\* The slave does not acknowledge a byte that was written.
ByteNak == Running.op = "write" /\ Fail /\ UNCHANGED <<state, owner>>

Byte ==
  /\ Doing("bytes")
  /\ IF state = Running.op THEN ByteMoved \/ ByteNak \/ Lost ELSE NotReady

----------------------------------------------------------------------------
(* Cy_SCB_I2C_MasterSendStop, whose result is ignored.  Every caller asks  *)
(* for it (send_stop is true).                                             *)

\* STOP is sent only after a success.
Mutant_StopIfOk ==
  /\ Doing("stop")
  /\ Turn([Running EXCEPT !.pc = "done"])
  /\ IF Running.status = "SUCCESS" THEN state' = "IDLE" /\ owner' = 0
                   ELSE UNCHANGED <<state, owner>>

Stop ==
  /\ Doing("stop")
  /\ Turn([Running EXCEPT !.pc = "done"])
  /\ state' = "IDLE"
  /\ owner' = 0

Leave ==
  /\ Doing("done")
  /\ drv' = SubSeq(drv, 1, Me - 1)
  /\ UNCHANGED <<state, owner>>

DriverStep == Choose \/ Start \/ Restart \/ Byte \/ Stop

DriverNext == \/ \E op \in Ops, n \in Lengths : Enter(op, n)
              \/ DriverStep \/ Leave

DriverSpec == DriverInit /\ [][DriverNext]_driverVars

----------------------------------------------------------------------------
(* Correctness. *)

DriverTypeOK ==
  /\ drv \in Seq(Xfers)
  /\ state \in States
  /\ owner \in 0..Len(drv)

\* The message of f was on the wires whole: address and bytes in one frame,
\* and of a read the last byte, and no other, was answered with NAK.
Whole(f) ==
  /\ f.got = f.size + 1
  /\ f.op = "read" /\ f.size > 0 => f.last = "NAK"

\* A call returns SUCCESS only if its message was on the wires whole, in the
\* frame it started itself: whatever calls nested in it at whatever point left
\* in I2C_context.state, it never goes on in a frame of theirs (lines 57-138).
NoFalseSuccess ==
  \A i \in DOMAIN drv :
    drv[i].pc \in {"stop", "done"} => (drv[i].status = "SUCCESS" <=> Whole(drv[i]))

\* Between calls the bus is idle and the context says so: no path, in no
\* nesting, returns without STOP and lets the next call begin with a ReSTART.
WiresFreeAtRest == drv = << >> => state = "IDLE" /\ owner = 0

\* At most so many steps of its own are left to a call before it is done.
StepsToDone(f) ==
  CASE f.pc = "choose"               -> f.left + 4
    [] f.pc \in {"start", "restart"} -> f.left + 3
    [] f.pc = "bytes"                -> f.left + 2
    [] f.pc = "stop"                 -> 1
    [] f.pc = "done"                 -> 0

\* As CallAdvances in PalI2c, for the calls of the driver.
TransferAdvances ==
  \A k \in DOMAIN drv \cap DOMAIN drv' : drv'[k] # drv[k] =>
    k = Me /\ StepsToDone(drv'[k]) < StepsToDone(drv[k])
=============================================================================
