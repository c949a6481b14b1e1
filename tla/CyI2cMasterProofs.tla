-------------------------- MODULE CyI2cMasterProofs --------------------------
(***************************************************************************)
(* Proofs about CyI2cMaster for any nesting of calls and any lengths.  The *)
(* argument is Framing: a call that is moving bytes either owns the frame  *)
(* on the wires, or a call above it does, or the bus is idle and its next  *)
(* byte is refused.  Hence no call goes on in a frame that is not its own. *)
(***************************************************************************)
EXTENDS CyI2cMaster, SequenceTheorems, TLAPS

\* What a call has done at each of its points.
XferOK(f) ==
  /\ f.left <= f.size
  /\ f.pc \in {"choose", "start", "restart"} =>
       f.status = "SUCCESS" /\ f.left = f.size /\ f.got = 0 /\ f.last = "ACK"
  /\ f.pc = "bytes" =>
       /\ f.status = "SUCCESS" /\ f.last = "ACK"
       /\ f.left > 0 /\ f.got = f.size - f.left + 1
  /\ f.pc \in {"stop", "done"} =>
       IF f.status = "SUCCESS" THEN Whole(f) ELSE f.got <= f.size

\* The frame on the wires is that of a call that has not sent its STOP.
Framing ==
  /\ state = "IDLE" <=> owner = 0
  /\ owner > 0 => drv[owner].pc \in {"bytes", "stop"}
  /\ \A i \in DOMAIN drv :
       drv[i].pc = "bytes" => \/ owner = 0
                              \/ owner = i /\ state = drv[i].op
                              \/ owner > i

DriverIInv ==
  /\ DriverTypeOK
  /\ \A i \in DOMAIN drv : XferOK(drv[i])
  /\ Framing

----------------------------------------------------------------------------
(* How a step changes the stack of calls. *)

LEMMA XferTurned ==
  ASSUME drv \in Seq(Xfers), drv # << >>, NEW f \in Xfers, Turn(f)
  PROVE  /\ drv' \in Seq(Xfers)
         /\ Me \in Nat \ {0} /\ Len(drv') = Me
         /\ DOMAIN drv = 1..Me /\ DOMAIN drv' = 1..Me
         /\ drv'[Me] = f
         /\ \A i \in 1..Me : i # Me => drv'[i] = drv[i]
BY DEF Turn, Me

LEMMA XferPushed ==
  ASSUME drv \in Seq(Xfers), NEW f \in Xfers, drv' = Append(drv, f)
  PROVE  /\ drv' \in Seq(Xfers)
         /\ Me \in Nat /\ Len(drv') = Me + 1
         /\ DOMAIN drv = 1..Me /\ DOMAIN drv' = 1..(Me + 1)
         /\ drv'[Me + 1] = f
         /\ \A i \in 1..Me : drv'[i] = drv[i]
BY DEF Me

LEMMA XferPopped ==
  ASSUME drv \in Seq(Xfers), drv # << >>, drv' = SubSeq(drv, 1, Me - 1)
  PROVE  /\ drv' \in Seq(Xfers)
         /\ Me \in Nat \ {0} /\ Len(drv') = Me - 1
         /\ DOMAIN drv = 1..Me /\ DOMAIN drv' = 1..(Me - 1)
         /\ \A i \in 1..(Me - 1) : drv'[i] = drv[i]
<1>1. drv' = SubSeq(drv, 1, Len(drv) - 1) /\ Len(drv) \in Nat \ {0}
  BY DEF Me
<1> DEFINE n == Len(drv) - 1
<1>a. n \in Nat /\ \A i \in 1..n : drv[i] \in Xfers
  BY <1>1
<1>b. /\ SubSeq(drv, 1, n) \in Seq(Xfers)
      /\ Len(SubSeq(drv, 1, n)) = IF 1 <= n THEN n - 1 + 1 ELSE 0
      /\ \A i \in 1..(n - 1 + 1) : SubSeq(drv, 1, n)[i] = drv[1 + i - 1]
  <2> HIDE DEF n
  <2>1. QED
    BY <1>a, SubSeqProperties
<1>c. n - 1 + 1 = n /\ \A i \in 1..n : 1 + i - 1 = i
  BY <1>a
<1>d. ASSUME NEW k \in Nat PROVE (IF 1 <= k THEN k - 1 + 1 ELSE 0) = k
  OBVIOUS
<1>e. drv' = SubSeq(drv, 1, n)
  BY <1>1
<1>2. /\ drv' \in Seq(Xfers)
      /\ Len(drv') = Len(drv) - 1
      /\ \A i \in 1..(Len(drv) - 1) : drv'[i] = drv[i]
  <2>1. drv' \in Seq(Xfers) /\ Len(drv') = n
    <3> HIDE DEF n
    <3>1. QED
      BY <1>a, <1>b, <1>d, <1>e
  <2>2. \A i \in 1..n : drv'[i] = drv[i]
    <3> HIDE DEF n
    <3>1. QED
      BY <1>b, <1>c, <1>e
  <2>3. QED
    BY <2>1, <2>2
<1>3. DOMAIN drv = 1..Len(drv) /\ DOMAIN drv' = 1..Len(drv')
  BY <1>2
<1>4. QED
  BY <1>1, <1>2, <1>3 DEF Me

LEMMA RunningOK ==
  ASSUME DriverIInv, drv # << >>
  PROVE  /\ Running \in Xfers /\ XferOK(Running)
         /\ Me \in Nat \ {0} /\ DOMAIN drv = 1..Me /\ owner \in 0..Me
         /\ Running = drv[Me]
<1>1. drv \in Seq(Xfers) /\ owner \in 0..Len(drv)
  BY DEF DriverIInv, DriverTypeOK
<1>2. Me \in Nat \ {0} /\ DOMAIN drv = 1..Me
  BY <1>1 DEF Me
<1>3. drv[Me] \in Xfers
  BY <1>1, <1>2
<1>4. QED
  BY <1>1, <1>2, <1>3 DEF DriverIInv, Running, Me

\* A step of the running call keeps the invariant if the call's new frame is
\* right and the frame on the wires is still accounted for.
LEMMA TurnIInv ==
  ASSUME DriverIInv, drv # << >>, NEW f \in Xfers, Turn(f), XferOK(f),
         state' \in States, owner' \in 0..Me,
         state' = "IDLE" <=> owner' = 0,
         owner' = Me => f.pc \in {"bytes", "stop"},
         owner' \notin {0, Me} => owner' = owner,
         f.pc = "bytes" => owner' = 0 \/ (owner' = Me /\ state' = f.op),
         owner' = owner \/ owner' = 0 \/ owner' = Me,
         owner' = owner => state' = state \/ owner' = Me
  PROVE  DriverIInv'
<1> USE RunningOK
<1>1. /\ drv' \in Seq(Xfers) /\ Len(drv') = Me
      /\ DOMAIN drv' = 1..Me /\ drv'[Me] = f
      /\ \A i \in 1..Me : i # Me => drv'[i] = drv[i]
  BY XferTurned DEF DriverIInv, DriverTypeOK
<1>2. DriverTypeOK'
  BY <1>1 DEF DriverTypeOK
<1>3. \A i \in DOMAIN drv' : XferOK(drv'[i])
  BY <1>1 DEF DriverIInv
<1>4. owner' > 0 => drv'[owner'].pc \in {"bytes", "stop"}
  BY <1>1 DEF DriverIInv, Framing
<1>5. ASSUME NEW i \in 1..Me, drv'[i].pc = "bytes"
      PROVE  owner' = 0 \/ (owner' = i /\ state' = drv'[i].op) \/ owner' > i
  <2>1. CASE i = Me
    BY <1>1, <1>5, <2>1
  <2>2. CASE i # Me
    <3>1. drv[i].pc = "bytes" /\ drv'[i] = drv[i] /\ i < Me
      BY <1>1, <1>5, <2>2
    <3>2. owner = 0 \/ (owner = i /\ state = drv[i].op) \/ owner > i
      BY <3>1 DEF DriverIInv, Framing
    <3>3. QED
      BY <3>1, <3>2
  <2>3. QED
    BY <2>1, <2>2
<1>6. Framing'
  BY <1>1, <1>4, <1>5 DEF Framing
<1>7. QED
  BY <1>2, <1>3, <1>6 DEF DriverIInv, XferOK
----------------------------------------------------------------------------
(* Every step keeps the invariant. *)

LEMMA DriverInitIInv == DriverInit => DriverIInv
BY DEF DriverInit, DriverIInv, DriverTypeOK, Framing, States

LEMMA EnterIInv ==
  ASSUME DriverIInv, NEW op \in Ops, NEW n \in Lengths, Enter(op, n)
  PROVE  DriverIInv'
<1> DEFINE f == [op |-> op, pc |-> "choose", size |-> n, left |-> n,
                 status |-> "SUCCESS", got |-> 0, last |-> "ACK"]
<1>1. f \in Xfers /\ XferOK(f) /\ f.pc = "choose" /\ drv' = Append(drv, f)
  BY LengthAssumption DEF Enter, Xfers, XferOK
<1> HIDE DEF f
<1>2. drv \in Seq(Xfers) /\ owner \in 0..Me
  BY DEF DriverIInv, DriverTypeOK, Me
<1>3. /\ drv' \in Seq(Xfers)
      /\ Me \in Nat /\ Len(drv') = Me + 1
      /\ DOMAIN drv = 1..Me /\ DOMAIN drv' = 1..(Me + 1)
      /\ drv'[Me + 1] = f
      /\ \A i \in 1..Me : drv'[i] = drv[i]
  BY <1>1, <1>2, XferPushed
<1>4. DriverTypeOK'
  BY <1>2, <1>3 DEF Enter, DriverIInv, DriverTypeOK
<1>5. \A i \in DOMAIN drv' : XferOK(drv'[i])
  BY <1>1, <1>3 DEF DriverIInv
<1>6. Framing'
  BY <1>1, <1>2, <1>3 DEF Enter, DriverIInv, Framing
<1>7. QED
  BY <1>4, <1>5, <1>6 DEF DriverIInv, XferOK

LEMMA LeaveIInv == ASSUME DriverIInv, Leave PROVE DriverIInv'
<1>1. drv # << >> /\ drv[Me].pc = "done"
  BY DEF Leave, Doing, Running
<1>2. drv \in Seq(Xfers) /\ owner \in 0..Me /\ owner # Me
  BY <1>1, RunningOK DEF DriverIInv, DriverTypeOK, Framing, Me
<1>3. /\ drv' \in Seq(Xfers)
      /\ Me \in Nat \ {0} /\ Len(drv') = Me - 1
      /\ DOMAIN drv = 1..Me /\ DOMAIN drv' = 1..(Me - 1)
      /\ \A i \in 1..(Me - 1) : drv'[i] = drv[i]
  BY <1>1, <1>2, XferPopped DEF Leave
<1>4. DriverTypeOK'
  BY <1>2, <1>3 DEF Leave, DriverIInv, DriverTypeOK
<1>5. \A i \in DOMAIN drv' : XferOK(drv'[i])
  BY <1>3 DEF DriverIInv
<1>6. Framing'
  BY <1>2, <1>3 DEF Leave, DriverIInv, Framing
<1>7. QED
  BY <1>4, <1>5, <1>6 DEF DriverIInv, XferOK

LEMMA ChooseIInv == ASSUME DriverIInv, Choose PROVE DriverIInv'
<1> DEFINE f == [Running EXCEPT !.pc = IF state = "IDLE" THEN "start" ELSE "restart"]
<1>1. drv # << >> /\ Running.pc = "choose" /\ Turn(f) /\ UNCHANGED <<state, owner>>
  BY DEF Choose, Doing
<1>2. f \in Xfers /\ XferOK(f) /\ f.pc \notin {"bytes", "stop"}
  BY <1>1, RunningOK DEF Xfers, XferOK
<1> HIDE DEF f
<1>3. owner # Me /\ state \in States /\ (state = "IDLE" <=> owner = 0)
  BY <1>1, RunningOK DEF DriverIInv, DriverTypeOK, Framing
<1>4. QED
  BY <1>1, <1>2, <1>3, RunningOK, TurnIInv

\* A step that fails at any point before STOP; the bus is kept or given up.
LEMMA FailIInv ==
  ASSUME DriverIInv, drv # << >>, Running.pc \in {"start", "restart", "bytes"},
         Fail,
         \/ UNCHANGED <<state, owner>>
         \/ state' = "IDLE" /\ owner' = 0
         \/ state' = "ADDR" /\ owner' = Me
  PROVE  DriverIInv'
<1> DEFINE f == [Running EXCEPT !.status = "ERROR", !.pc = "stop"]
<1>1. Turn(f)
  BY DEF Fail
<1>a. /\ f \in Xfers /\ f.pc = "stop" /\ f.status = "ERROR"
      /\ f.left = Running.left /\ f.size = Running.size /\ f.got = Running.got
  BY RunningOK DEF Xfers
<1> HIDE DEF f
<1>2. XferOK(f)
  BY <1>a, RunningOK DEF XferOK, Xfers
<1>3. state \in States /\ (state = "IDLE" <=> owner = 0)
  BY DEF DriverIInv, DriverTypeOK, Framing
<1>4. QED
  BY <1>1, <1>a, <1>2, <1>3, RunningOK, TurnIInv DEF States

LEMMA AddressedIInv ==
  ASSUME DriverIInv, drv # << >>, Running.pc \in {"start", "restart"}, Addressed
  PROVE  DriverIInv'
<1> DEFINE f == [Running EXCEPT !.got = 1,
                                !.pc = IF Running.left > 0 THEN "bytes" ELSE "stop"]
<1>1. Turn(f) /\ state' = f.op /\ owner' = Me
  BY RunningOK DEF Addressed, Xfers
<1>a. /\ f \in Xfers /\ f.pc = IF f.left > 0 THEN "bytes" ELSE "stop"
      /\ f.left = Running.left /\ f.size = Running.size /\ f.got = 1
      /\ f.status = Running.status /\ f.last = Running.last
  BY RunningOK DEF Xfers
<1> HIDE DEF f
<1>2. XferOK(f) /\ f.op \in Ops
  BY <1>a, RunningOK DEF XferOK, Whole, Xfers
<1>3. QED
  BY <1>1, <1>a, <1>2, RunningOK, TurnIInv DEF States, Ops

LEMMA StartIInv == ASSUME DriverIInv, Start \/ Restart PROVE DriverIInv'
<1>1. drv # << >> /\ Running.pc \in {"start", "restart"}
  BY DEF Start, Restart, Doing
<1>2. Addressed \/ AddressNak \/ Lost \/ NotReady
  BY DEF Start, Restart
<1>3. CASE Addressed
  BY <1>1, <1>3, AddressedIInv
<1>4. CASE AddressNak \/ Lost \/ NotReady
  BY <1>1, <1>4, FailIInv DEF AddressNak, Lost, NotReady
<1>5. QED
  BY <1>2, <1>3, <1>4

LEMMA ByteMovedIInv ==
  ASSUME DriverIInv, drv # << >>, Running.pc = "bytes", state = Running.op, ByteMoved
  PROVE  DriverIInv'
<1> DEFINE f == [Running EXCEPT !.got = @ + 1, !.last = Answer(Running), !.left = @ - 1,
                                !.pc = IF Running.left > 1 THEN "bytes" ELSE "stop"]
<1>1. owner = Me
  BY RunningOK DEF DriverIInv, Framing, Xfers, Ops
<1>2. Running.last = "ACK"
  BY RunningOK DEF XferOK
<1>3. Turn(f)
  BY <1>1, <1>2, RunningOK DEF ByteMoved, Turn, OneMore, Running, Xfers, Answer
<1>a. /\ Running.left - 1 \in Nat /\ Running.got + 1 \in Nat
      /\ Running.left > 1 <=> Running.left - 1 > 0
      /\ Answer(Running) \in {"ACK", "NAK"} /\ Running \in Xfers
  BY RunningOK DEF XferOK, Answer, Xfers
<1>b. /\ f \in Xfers /\ f.pc = IF f.left > 0 THEN "bytes" ELSE "stop"
      /\ f.left = Running.left - 1 /\ f.size = Running.size
      /\ f.got = Running.got + 1 /\ f.status = Running.status
      /\ f.op = Running.op /\ f.last = Answer(Running)
  BY <1>a, RunningOK DEF Xfers
<1> HIDE DEF f
<1>4. XferOK(f)
  BY <1>a, <1>b, RunningOK DEF XferOK, Whole, Answer, Xfers
<1>5. UNCHANGED <<state, owner>> /\ state \in States /\ (state = "IDLE" <=> owner = 0)
  BY DEF ByteMoved, DriverIInv, DriverTypeOK, Framing
<1>6. QED
  BY <1>1, <1>3, <1>b, <1>4, <1>5, RunningOK, TurnIInv

LEMMA ByteIInv == ASSUME DriverIInv, Byte PROVE DriverIInv'
<1>1. drv # << >> /\ Running.pc = "bytes"
  BY DEF Byte, Doing
<1>2. CASE state = Running.op /\ ByteMoved
  BY <1>1, <1>2, ByteMovedIInv
<1>3. CASE ByteNak \/ Lost \/ NotReady
  BY <1>1, <1>3, FailIInv DEF ByteNak, Lost, NotReady
<1>4. QED
  BY <1>2, <1>3 DEF Byte

LEMMA StopIInv == ASSUME DriverIInv, Stop PROVE DriverIInv'
<1> DEFINE f == [Running EXCEPT !.pc = "done"]
<1>1. /\ drv # << >> /\ Running.pc = "stop" /\ Turn(f)
      /\ state' = "IDLE" /\ owner' = 0
  BY DEF Stop, Doing
<1>2. f \in Xfers /\ XferOK(f) /\ f.pc = "done"
  BY <1>1, RunningOK DEF Xfers, XferOK, Whole
<1> HIDE DEF f
<1>3. owner = 0 => state = "IDLE"
  BY DEF DriverIInv, Framing
<1>4. QED
  BY <1>1, <1>2, <1>3, RunningOK, TurnIInv DEF States

LEMMA DriverNextIInv ==
  ASSUME DriverIInv, [DriverNext]_driverVars
  PROVE  DriverIInv'
<1>1. ASSUME NEW op \in Ops, NEW n \in Lengths, Enter(op, n) PROVE DriverIInv'
  BY <1>1, EnterIInv
<1>2. CASE DriverStep
  BY <1>2, ChooseIInv, StartIInv, ByteIInv, StopIInv DEF DriverStep
<1>3. CASE Leave
  BY <1>3, LeaveIInv
<1>4. CASE UNCHANGED driverVars
  BY <1>4 DEF driverVars, DriverIInv, DriverTypeOK, Framing, XferOK
<1>5. QED
  BY <1>1, <1>2, <1>3, <1>4 DEF DriverNext

\* The invariant holds in every state of the driver.
LEMMA DriverInvariant == DriverSpec => []DriverIInv
<1>1. QED
  BY DriverInitIInv, DriverNextIInv, PTL DEF DriverSpec

----------------------------------------------------------------------------
(* The theorems. *)

\* The variables of the driver keep their types; the frame on the wires, if
\* there is one, belongs to a call that is under way.
THEOREM DriverTypeCorrect == DriverSpec => []DriverTypeOK
<1>1. DriverIInv => DriverTypeOK
  BY DEF DriverIInv
<1>2. QED
  BY <1>1, DriverInvariant, PTL

\* SUCCESS means that the message was on the wires whole, in a frame of its
\* own, for messages of any length and any nesting of calls.
THEOREM SuccessIsTrue == DriverSpec => []NoFalseSuccess
<1>1. DriverIInv => NoFalseSuccess
  <2>1. ASSUME DriverIInv, NEW i \in DOMAIN drv, drv[i].pc \in {"stop", "done"}
        PROVE  drv[i].status = "SUCCESS" <=> Whole(drv[i])
    <3>1. drv[i] \in Xfers /\ XferOK(drv[i])
      BY <2>1 DEF DriverIInv, DriverTypeOK
    <3>2. QED
      BY <2>1, <3>1, LengthAssumption DEF XferOK, Whole, Xfers
  <2>2. QED
    BY <2>1 DEF NoFalseSuccess
<1>2. QED
  BY <1>1, DriverInvariant, PTL

\* Between calls the bus is idle and the context says so.
THEOREM WiresIdleBetweenCalls == DriverSpec => []WiresFreeAtRest
<1>1. DriverIInv => WiresFreeAtRest
  BY DEF DriverIInv, DriverTypeOK, Framing, WiresFreeAtRest
<1>2. QED
  BY <1>1, DriverInvariant, PTL

----------------------------------------------------------------------------
(* A step works on the running call, which comes nearer to its end.        *)

\* The running call becomes f, which works for the same caller and has fewer
\* steps left.
LEMMA TurnWorks ==
  ASSUME DriverIInv, drv # << >>, NEW f \in Xfers, Turn(f),
         f.op = Running.op, f.size = Running.size,
         StepsToDone(f) < StepsToDone(Running)
  PROVE  /\ TransferAdvances
         /\ DOMAIN drv' = DOMAIN drv
         /\ \A k \in DOMAIN drv : drv'[k].op = drv[k].op /\ drv'[k].size = drv[k].size
BY XferTurned, RunningOK DEF TransferAdvances, DriverIInv, DriverTypeOK

LEMMA DriverStepWorks ==
  ASSUME DriverIInv, DriverStep
  PROVE  /\ TransferAdvances
         /\ DOMAIN drv' = DOMAIN drv
         /\ \A k \in DOMAIN drv : drv'[k].op = drv[k].op /\ drv'[k].size = drv[k].size
<1>1. drv # << >> /\ Running.pc \in {"choose", "start", "restart", "bytes", "stop"}
  BY DEF DriverStep, Choose, Start, Restart, Byte, Stop, Doing
<1>2. Running \in Xfers /\ XferOK(Running) /\ Running.left \in Nat
  BY <1>1, RunningOK DEF Xfers
<1>3. ASSUME Running.pc \in {"start", "restart", "bytes"}, Fail
      PROVE  \E f \in Xfers : /\ Turn(f) /\ f.op = Running.op /\ f.size = Running.size
                              /\ StepsToDone(f) < StepsToDone(Running)
  <2> DEFINE f == [Running EXCEPT !.status = "ERROR", !.pc = "stop"]
  <2>1. Turn(f) /\ f \in Xfers /\ f.op = Running.op /\ f.size = Running.size /\ f.pc = "stop"
    BY <1>2, <1>3 DEF Fail, Xfers
  <2> HIDE DEF f
  <2>2. StepsToDone(f) = 1 /\ StepsToDone(Running) > 1
    BY <1>2, <1>3, <2>1 DEF StepsToDone
  <2>3. QED
    BY <2>1, <2>2
<1>4. ASSUME Running.pc \in {"start", "restart"}, Addressed
      PROVE  \E f \in Xfers : /\ Turn(f) /\ f.op = Running.op /\ f.size = Running.size
                              /\ StepsToDone(f) < StepsToDone(Running)
  <2> DEFINE f == [Running EXCEPT !.got = 1,
                                  !.pc = IF Running.left > 0 THEN "bytes" ELSE "stop"]
  <2>1. /\ Turn(f) /\ f \in Xfers /\ f.op = Running.op /\ f.size = Running.size
        /\ f.pc \in {"bytes", "stop"} /\ f.left = Running.left
    BY <1>2, <1>4 DEF Addressed, Xfers
  <2> HIDE DEF f
  <2>2. StepsToDone(f) < StepsToDone(Running)
    BY <1>2, <1>4, <2>1 DEF StepsToDone
  <2>3. QED
    BY <2>1, <2>2
<1>5. CASE Choose
  <2> DEFINE f == [Running EXCEPT !.pc = IF state = "IDLE" THEN "start" ELSE "restart"]
  <2>1. /\ Turn(f) /\ f \in Xfers /\ f.op = Running.op /\ f.size = Running.size
        /\ f.pc \in {"start", "restart"} /\ f.left = Running.left
    BY <1>2, <1>5 DEF Choose, Xfers
  <2> HIDE DEF f
  <2>2. StepsToDone(f) < StepsToDone(Running)
    BY <1>2, <1>5, <2>1 DEF StepsToDone, Choose, Doing
  <2>3. QED
    BY <1>1, <2>1, <2>2, TurnWorks
<1>6. CASE Start \/ Restart
  BY <1>1, <1>3, <1>4, <1>6, TurnWorks
     DEF Start, Restart, Doing, AddressNak, Lost, NotReady
<1>7. CASE Byte /\ Fail
  BY <1>1, <1>3, <1>7, TurnWorks DEF Byte, Doing
\* The byte is in the call's own frame: Framing.
<1>8. CASE Byte /\ state = Running.op /\ ByteMoved
  <2> DEFINE f == [Running EXCEPT !.got = @ + 1, !.last = Answer(Running), !.left = @ - 1,
                                  !.pc = IF Running.left > 1 THEN "bytes" ELSE "stop"]
  <2>1. Running.pc = "bytes" /\ Running.last = "ACK" /\ Running.left > 0
    BY <1>2, <1>8 DEF Byte, Doing, XferOK
  <2>2. owner = Me
    BY <1>1, <1>8, <2>1, RunningOK DEF DriverIInv, Framing, Xfers, Ops
  <2>3. Turn(f)
    BY <1>1, <1>8, <2>1, <2>2, RunningOK
       DEF ByteMoved, Turn, OneMore, Running, Xfers, Answer
  <2>a. /\ Running.left - 1 \in Nat /\ Running.got + 1 \in Nat
        /\ Answer(Running) \in {"ACK", "NAK"}
    BY <1>2, <2>1 DEF Answer, Xfers
  <2>4. /\ f \in Xfers /\ f.op = Running.op /\ f.size = Running.size
        /\ f.pc \in {"bytes", "stop"} /\ f.left = Running.left - 1
    BY <1>2, <2>a DEF Xfers
  <2> HIDE DEF f
  <2>5. StepsToDone(f) < StepsToDone(Running)
    BY <1>2, <2>1, <2>4 DEF StepsToDone
  <2>6. QED
    BY <1>1, <2>3, <2>4, <2>5, TurnWorks
<1>9. CASE Stop
  <2> DEFINE f == [Running EXCEPT !.pc = "done"]
  <2>1. /\ Turn(f) /\ f \in Xfers /\ f.op = Running.op /\ f.size = Running.size
        /\ f.pc = "done" /\ Running.pc = "stop"
    BY <1>2, <1>9 DEF Stop, Doing, Xfers
  <2> HIDE DEF f
  <2>2. StepsToDone(f) < StepsToDone(Running)
    BY <2>1 DEF StepsToDone
  <2>3. QED
    BY <1>1, <2>1, <2>2, TurnWorks
<1>10. Byte => Fail \/ (state = Running.op /\ ByteMoved)
  BY DEF Byte, ByteNak, Lost, NotReady
<1>11. QED
  BY <1>5, <1>6, <1>7, <1>8, <1>9, <1>10 DEF DriverStep

\* A call that begins or returns leaves the others as they are.
LEMMA DriverAdvances ==
  ASSUME DriverIInv, [DriverNext]_driverVars
  PROVE  TransferAdvances
<1>1. ASSUME NEW op \in Ops, NEW n \in Lengths, Enter(op, n) PROVE TransferAdvances
  <2> DEFINE f == [op |-> op, pc |-> "choose", size |-> n, left |-> n,
                   status |-> "SUCCESS", got |-> 0, last |-> "ACK"]
  <2>1. f \in Xfers /\ drv' = Append(drv, f)
    BY <1>1, LengthAssumption DEF Enter, Xfers
  <2> HIDE DEF f
  <2>2. QED
    BY <2>1, XferPushed DEF TransferAdvances, DriverIInv, DriverTypeOK
<1>2. CASE Leave
  BY <1>2, XferPopped DEF Leave, Doing, TransferAdvances, DriverIInv, DriverTypeOK
<1>3. CASE UNCHANGED driverVars
  BY <1>3 DEF driverVars, TransferAdvances
<1>4. QED
  BY <1>1, <1>2, <1>3, DriverStepWorks DEF DriverNext
=============================================================================
