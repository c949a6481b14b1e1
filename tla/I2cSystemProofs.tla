--------------------------- MODULE I2cSystemProofs ---------------------------
(***************************************************************************)
(* Proofs about I2cSystem: the port and its driver, put together, behave   *)
(* as each does alone, and a message is delivered exactly once.  Messaging *)
(* is the link between them: how often the message of a call has gone out  *)
(* whole follows from where the call is.                                   *)
(***************************************************************************)
EXTENDS I2cSystem, PalI2cProofs, CyI2cMasterProofs

\* The last transfer of f succeeded, and the call has not forgotten it.
Sent(f) ==
  \/ f.pc = "decide" /\ ~f.failed
  \/ f.pc = "early_release"
  \/ f.pc \in Late /\ f.events = <<"SUCCESS">>

Messaging ==
  /\ message \in Seq(Messages) /\ Len(message) = Len(stack)
  /\ \A i \in DOMAIN stack : message[i].whole = IF Sent(stack[i]) THEN 1 ELSE 0

SystemIInv == IInv /\ DriverIInv /\ Messaging

----------------------------------------------------------------------------
(* The parts. *)

\* Every step is one of the port, or leaves it alone.
LEMMA PortSteps ==
  ASSUME [SystemNext]_systemVars
  PROVE  [Next]_vars
BY DEF SystemNext, systemVars, SystemCall, BeginTransfer, TransferStep,
       EndTransfer, PortStep, SystemReturn, Next, vars

\* Every step is one of the driver, or leaves it alone: what the port asks
\* for is an operation and a length that the driver knows.
LEMMA DriverSteps ==
  ASSUME SystemIInv, [SystemNext]_systemVars
  PROVE  [DriverNext]_driverVars
<1>1. ASSUME BeginTransfer PROVE DriverNext
  <2>1. stack # << >> /\ Top \in Frames
    BY <1>1, TopFrame DEF BeginTransfer, Begin, At, SystemIInv, IInv
  <2>2. Top.call \in Ops
    BY <2>1 DEF Frames, Ops
  <2>3. Len(stack) \in DOMAIN message /\ message[Len(stack)] \in Messages
    BY <2>1 DEF SystemIInv, Messaging, IInv, Shape
  <2>4. message[Len(message)].length \in Lengths
    BY <2>3 DEF SystemIInv, Messaging, Messages
  <2>5. QED
    BY <1>1, <2>2, <2>4 DEF BeginTransfer, DriverNext
<1>2. ASSUME NEW c \in Calls, NEW n \in Lengths, SystemCall(c, n)
      PROVE  UNCHANGED driverVars
  BY <1>2 DEF SystemCall
<1>3. ASSUME TransferStep \/ EndTransfer PROVE DriverNext
  BY <1>3 DEF TransferStep, EndTransfer, DriverNext
<1>4. ASSUME PortStep \/ SystemReturn \/ UNCHANGED systemVars
      PROVE  UNCHANGED driverVars
  BY <1>4 DEF PortStep, SystemReturn, systemVars, driverVars
<1>5. QED
  BY <1>1, <1>2, <1>3, <1>4 DEF SystemNext

----------------------------------------------------------------------------
(* Messaging is kept. *)

\* A step of the running call that neither sends its message nor forgets it.
LEMMA KeepsMessaging ==
  ASSUME Shape, Messaging, stack # << >>, NEW f \in Frames, Become(f),
         Sent(f) <=> Sent(Top), UNCHANGED message
  PROVE  Messaging'
<1>1. /\ DOMAIN stack' = DOMAIN stack /\ Len(stack') = Len(stack)
      /\ stack'[Len(stack)] = f
      /\ \A i \in DOMAIN stack : i # Len(stack) => stack'[i] = stack[i]
  BY Became DEF Shape
<1>2. \A i \in DOMAIN stack : Sent(stack'[i]) <=> Sent(stack[i])
  BY <1>1 DEF Top
<1>3. QED
  BY <1>1, <1>2 DEF Messaging

LEMMA CallMessaging ==
  ASSUME Shape, Messaging, NEW c \in Calls, NEW n \in Lengths, SystemCall(c, n)
  PROVE  Messaging'
<1> DEFINE m == [length |-> n, whole |-> 0]
<1>1. NewFrame(c) \in Frames /\ NewFrame(c).pc = "test"
  BY CallAssumption DEF NewFrame, Frames, Points
<1>2. ~Sent(NewFrame(c))
  BY <1>1 DEF Sent, Late
<1>3. /\ DOMAIN stack = 1..Len(stack) /\ DOMAIN stack' = 1..(Len(stack) + 1)
      /\ Len(stack) \in Nat /\ Len(stack') = Len(stack) + 1
      /\ stack'[Len(stack) + 1] = NewFrame(c)
      /\ \A i \in DOMAIN stack : stack'[i] = stack[i]
  BY <1>1, Pushed DEF Shape, SystemCall, Call
<1>4. m \in Messages /\ m.whole = 0 /\ message' = Append(message, m)
  BY DEF Messages, SystemCall
<1> HIDE DEF m
<1>5. /\ message' \in Seq(Messages) /\ Len(message') = Len(stack) + 1
      /\ message'[Len(stack) + 1] = m
      /\ \A i \in 1..Len(stack) : message'[i] = message[i]
  BY <1>3, <1>4 DEF Messaging
<1>6. \A i \in 1..(Len(stack) + 1) :
        message'[i].whole = IF Sent(stack'[i]) THEN 1 ELSE 0
  BY <1>2, <1>3, <1>4, <1>5 DEF Messaging
<1>7. QED
  BY <1>3, <1>5, <1>6 DEF Messaging

LEMMA MessagePopped ==
  ASSUME message \in Seq(Messages), message # << >>,
         message' = SubSeq(message, 1, Len(message) - 1)
  PROVE  /\ message' \in Seq(Messages)
         /\ Len(message') = Len(message) - 1
         /\ \A i \in 1..(Len(message) - 1) : message'[i] = message[i]
<1> DEFINE n == Len(message) - 1
<1>1. n \in Nat /\ message' = SubSeq(message, 1, n) /\ \A i \in 1..n : message[i] \in Messages
  OBVIOUS
<1>2. n - 1 + 1 = n /\ (IF 1 <= n THEN n - 1 + 1 ELSE 0) = n /\ \A i \in 1..n : 1 + i - 1 = i
  <2> HIDE DEF n
  <2>1. QED
    BY <1>1
<1> HIDE DEF n
<1>3. /\ SubSeq(message, 1, n) \in Seq(Messages)
      /\ Len(SubSeq(message, 1, n)) = IF 1 <= n THEN n - 1 + 1 ELSE 0
      /\ \A i \in 1..(n - 1 + 1) : SubSeq(message, 1, n)[i] = message[1 + i - 1]
  BY <1>1, SubSeqProperties
<1>4. message' \in Seq(Messages) /\ Len(message') = n /\ \A i \in 1..n : message'[i] = message[i]
  BY <1>1, <1>2, <1>3
<1>5. QED
  BY <1>4 DEF n

LEMMA ReturnMessaging ==
  ASSUME Shape, Messaging, SystemReturn
  PROVE  Messaging'
<1>1. stack # << >> /\ stack' = SubSeq(stack, 1, Len(stack) - 1)
  BY DEF SystemReturn, Return, At
<1>2. /\ Len(stack) \in Nat \ {0}
      /\ DOMAIN stack = 1..Len(stack) /\ DOMAIN stack' = 1..(Len(stack) - 1)
      /\ stack' \in Seq(Frames)
      /\ \A i \in DOMAIN stack' : stack'[i] = stack[i]
  BY <1>1, Popped DEF Shape
<1>3. Len(stack') = Len(stack) - 1
  <2>1. stack' \in Seq(Frames) /\ DOMAIN stack' = 1..(Len(stack) - 1) /\ Len(stack) - 1 \in Nat
    BY <1>2
  <2>2. DOMAIN stack' = 1..Len(stack') /\ Len(stack') \in Nat
    BY <2>1
  <2>3. QED
    BY <2>1, <2>2
<1>4. /\ message' \in Seq(Messages) /\ Len(message') = Len(stack) - 1
      /\ \A i \in 1..(Len(stack) - 1) : message'[i] = message[i]
  BY <1>2, MessagePopped DEF Messaging, SystemReturn
<1>5. \A i \in 1..(Len(stack) - 1) :
        message'[i].whole = IF Sent(stack'[i]) THEN 1 ELSE 0
  <2>1. \A i \in 1..(Len(stack) - 1) : i \in 1..Len(stack)
    BY <1>2
  <2>2. QED
    BY <1>2, <1>4, <2>1 DEF Messaging
<1>6. QED
  BY <1>2, <1>3, <1>4, <1>5 DEF Messaging

\* The driver returns: the message went out whole exactly if it says so.
LEMMA EndMessaging ==
  ASSUME SystemIInv, EndTransfer
  PROVE  Messaging'
<1>1. /\ stack # << >> /\ Top \in Frames /\ Top.pc = "transfer" /\ Shape
      /\ ~Sent(Top)
  BY TopFrame DEF EndTransfer, End, At, SystemIInv, IInv, Sent, Late
<1>2. Whole(Running) <=> Running.status = "SUCCESS"
  <2>1. drv # << >> /\ Running.pc = "done" /\ Running \in Xfers /\ XferOK(Running)
    BY RunningOK DEF EndTransfer, Leave, Doing, SystemIInv
  <2>2. QED
    BY <2>1 DEF XferOK, Whole, Xfers
<1>3. PICK failed \in BOOLEAN :
        Become([Top EXCEPT
          !.failed = failed,
          !.pc = IF failed /\ Top.call = "write" /\ Top.attempts < MaxAttempts
                 THEN "begin" ELSE "decide"])
  BY DEF EndTransfer, End
<1> DEFINE again == failed /\ Top.call = "write" /\ Top.attempts < MaxAttempts
           f == [Top EXCEPT !.failed = failed,
                            !.pc = IF again THEN "begin" ELSE "decide"]
<1>4. /\ f \in Frames /\ f.pc = (IF again THEN "begin" ELSE "decide")
      /\ f.failed = failed
  BY <1>1 DEF Frames, Points
<1>5. Become(f)
  BY <1>3
<1> HIDE DEF f
<1>6. Sent(f) <=> ~failed
  BY <1>4 DEF Sent, Late
<1>7. /\ DOMAIN stack' = DOMAIN stack /\ Len(stack') = Len(stack)
      /\ DOMAIN stack = 1..Len(stack) /\ Len(stack) \in Nat \ {0}
      /\ stack'[Len(stack)] = f
      /\ \A i \in DOMAIN stack : i # Len(stack) => stack'[i] = stack[i]
  BY <1>1, <1>4, <1>5, Became DEF Shape
<1>8. failed <=> Running.status # "SUCCESS"
  BY <1>4, <1>7 DEF EndTransfer
<1> DEFINE last == Len(stack)
           m == [message[last] EXCEPT !.whole = IF Whole(Running) THEN @ + 1 ELSE @]
<1>9. message[last] \in Messages /\ message[last].whole = 0
  BY <1>1, <1>7 DEF SystemIInv, Messaging, Top
<1>10. m \in Messages /\ m.whole = IF Whole(Running) THEN 1 ELSE 0
  BY <1>9 DEF Messages
<1>11. message' = [message EXCEPT ![last] = m]
  BY DEF EndTransfer, SystemIInv, Messaging
<1> HIDE DEF m
<1>12. /\ message' \in Seq(Messages) /\ Len(message') = Len(stack)
       /\ message'[last] = m
       /\ \A i \in 1..Len(stack) : i # last => message'[i] = message[i]
  BY <1>7, <1>10, <1>11 DEF SystemIInv, Messaging
<1>13. \A i \in 1..Len(stack) : message'[i].whole = IF Sent(stack'[i]) THEN 1 ELSE 0
  BY <1>2, <1>6, <1>7, <1>8, <1>10, <1>12 DEF SystemIInv, Messaging
<1>14. QED
  BY <1>7, <1>12, <1>13 DEF Messaging

\* A step of the port other than its transfer.
LEMMA PortMessaging ==
  ASSUME IInv, Messaging, UNCHANGED message,
         Begin \/ Test \/ Load \/ Store \/ Confirm \/ Decide \/ EarlyRelease
           \/ HandlerDone \/ Release
  PROVE  Messaging'
<1> USE DEF At
<1>1. stack # << >>
  BY DEF Begin, Test, Load, Store, Confirm, Decide, EarlyRelease, HandlerDone,
         Release
<1>2. Top \in Frames /\ FrameOK(Top) /\ Shape
  BY <1>1, TopFrame DEF IInv
<1>3. \A e \in Events : <<e>> = <<"SUCCESS">> <=> e = "SUCCESS"
  <2>1. \A e \in Events : <<e>>[1] = e
    OBVIOUS
  <2>2. <<"SUCCESS">>[1] = "SUCCESS"
    OBVIOUS
  <2>3. QED
    BY <2>1, <2>2
<1>4. ASSUME Top.pc \notin Late \cup {"decide", "early_release"},
             NEW f \in Frames, Become(f),
             f.pc \notin Late \cup {"decide", "early_release"}
      PROVE  Messaging'
  <2>1. ~Sent(Top) /\ ~Sent(f)
    BY <1>4 DEF Sent
  <2>2. QED
    BY <1>1, <1>2, <1>4, <2>1, KeepsMessaging
<1>5. ASSUME NEW p \in Points, Top.pc \notin Late \cup {"decide", "early_release"},
             p \notin Late \cup {"decide", "early_release"}, Move(p)
      PROVE  Messaging'
  <2>1. Moved([Top EXCEPT !.pc = p], p)
    BY <1>2, MovedFrame
  <2>2. QED
    BY <1>4, <1>5, <2>1 DEF Move, Moved
<1>6. ASSUME NEW e \in Events, NEW f, NEW status, Become(f), Reports(f, e, status),
             Sent(Top) <=> e = "SUCCESS"
      PROVE  Messaging'
  <2>1. f \in Frames /\ (Sent(f) <=> e = "SUCCESS")
    BY <1>3, <1>6 DEF Reports, Sent, Late
  <2>2. QED
    BY <1>1, <1>2, <1>6, <2>1, KeepsMessaging
<1>7. ASSUME Top.pc \in {"test", "confirm"}, Become(Refused)
      PROVE  Messaging'
  <2>1. Reports(Refused, "BUSY", "I2C_BUSY") /\ ~Sent(Top)
    BY <1>2, <1>7, RefusedFrame DEF FrameOK, Late, Sent
  <2>2. QED
    BY <1>6, <1>7, <2>1 DEF Events
<1>8. CASE Test
  BY <1>5, <1>7, <1>8 DEF Test, Points, Late
<1>9. CASE Confirm
  BY <1>5, <1>7, <1>9 DEF Confirm, Points, Late
<1>10. CASE Store
  BY <1>5, <1>10 DEF Store, Points, Late
<1>11. CASE Load
  <2> DEFINE f == [Top EXCEPT !.pc = "store", !.reg = g_entry_count]
  <2>1. g_entry_count \in Nat
    BY DEF IInv, Guarded
  <2>2. f \in Frames /\ f.pc = "store" /\ Become(f)
    BY <1>2, <1>11, <2>1 DEF Load, Frames, Points
  <2> HIDE DEF f
  <2>3. QED
    BY <1>4, <1>11, <2>2 DEF Load, Late
<1>12. CASE Begin
  <2> DEFINE f == [Top EXCEPT !.pc = "transfer", !.attempts = @ + 1]
  <2>1. Top.attempts + 1 \in 0..MaxAttempts
    BY <1>2, <1>12, CallAssumption DEF Begin, Frames, FrameOK
  <2>2. f \in Frames /\ f.pc = "transfer" /\ Become(f)
    BY <1>2, <1>12, <2>1 DEF Begin, Frames, Points
  <2> HIDE DEF f
  <2>3. QED
    BY <1>4, <1>12, <2>2 DEF Begin, Late
<1>13. CASE Decide
  <2>1. Top.pc = "decide" /\ Top.events = << >>
    BY <1>2, <1>13 DEF Decide, FrameOK, Late
  <2>2. CASE Top.failed
    <3> DEFINE f == [Top EXCEPT !.pc = "handler", !.events = Append(@, "ERROR")]
    <3>1. Reports(f, "ERROR", Top.status) /\ Become(f)
      BY <1>2, <1>13, <2>1, <2>2, ReportingFrame DEF Decide, Events
    <3>2. ~Sent(Top)
      BY <2>1, <2>2 DEF Sent, Late
    <3> HIDE DEF f
    <3>3. QED
      BY <1>6, <3>1, <3>2 DEF Events
  <2>3. CASE ~Top.failed /\ Top.call = "write"
    <3>1. Moved([Top EXCEPT !.pc = "early_release"], "early_release")
      BY <1>2, MovedFrame DEF Points
    <3>2. Become([Top EXCEPT !.pc = "early_release"])
      BY <1>13, <2>3 DEF Decide, Move
    <3>3. Sent(Top) /\ Sent([Top EXCEPT !.pc = "early_release"])
      BY <2>1, <2>3, <3>1 DEF Sent, Moved
    <3>4. QED
      BY <1>1, <1>2, <3>1, <3>2, <3>3, KeepsMessaging DEF Moved
  <2>4. CASE ~Top.failed /\ Top.call # "write"
    <3> DEFINE f == [Top EXCEPT !.pc = "handler", !.events = Append(@, "SUCCESS")]
    <3>1. Reports(f, "SUCCESS", Top.status) /\ Become(f)
      BY <1>2, <1>13, <2>1, <2>4, ReportingFrame DEF Decide, Events
    <3>2. Sent(Top)
      BY <2>1, <2>4 DEF Sent
    <3> HIDE DEF f
    <3>3. QED
      BY <1>6, <3>1, <3>2 DEF Events
  <2>5. QED
    BY <2>2, <2>3, <2>4
<1>14. CASE EarlyRelease
  <2> DEFINE f == [Top EXCEPT !.pc = "handler", !.events = Append(@, "SUCCESS")]
  <2>1. Top.pc = "early_release" /\ Top.events = << >>
    BY <1>2, <1>14 DEF EarlyRelease, FrameOK, Late
  <2>2. Reports(f, "SUCCESS", Top.status) /\ Become(f)
    BY <1>2, <1>14, <2>1, ReportingFrame DEF EarlyRelease, Events
  <2>3. Sent(Top)
    BY <2>1 DEF Sent
  <2> HIDE DEF f
  <2>4. QED
    BY <1>6, <2>2, <2>3 DEF Events
\* After the report the events stay as they are.
<1>15. ASSUME Top.pc \in Late, NEW f \in Frames, Become(f), f.pc \in Late,
              f.events = Top.events
       PROVE  Messaging'
  <2>1. Sent(f) <=> Sent(Top)
    BY <1>15 DEF Sent, Late
  <2>2. QED
    BY <1>1, <1>2, <1>15, <2>1, KeepsMessaging
<1>16. CASE HandlerDone
  <2> DEFINE last == LastEvent(Top)
             p == IF last = "ERROR" THEN "release"
                  ELSE IF Top.call = "read" THEN "last_release" ELSE "return"
             f == [Top EXCEPT
                    !.status = IF last = "SUCCESS" THEN "SUCCESS" ELSE @,
                    !.pc = p]
  <2>1. Become(f)
    BY <1>16 DEF HandlerDone
  <2>2. f \in Frames /\ f.pc = p /\ f.events = Top.events
    BY <1>2 DEF Frames, Points
  <2>3. Top.pc \in Late /\ f.pc \in Late
    BY <1>16, <2>2 DEF HandlerDone, Late
  <2> HIDE DEF f
  <2>4. QED
    BY <1>15, <2>1, <2>2, <2>3
<1>17. ASSUME NEW p \in Points, Top.pc \in Late, p \in Late, Move(p)
       PROVE  Messaging'
  <2>1. Moved([Top EXCEPT !.pc = p], p)
    BY <1>2, MovedFrame
  <2>2. QED
    BY <1>15, <1>17, <2>1 DEF Move, Moved
<1>18. CASE Release
  BY <1>17, <1>18 DEF Release, Points, Late
<1>19. QED
  BY <1>8, <1>9, <1>10, <1>11, <1>12, <1>13, <1>14, <1>16, <1>18

LEMMA MessagingKept ==
  ASSUME SystemIInv, [SystemNext]_systemVars
  PROVE  Messaging'
<1>1. ASSUME NEW c \in Calls, NEW n \in Lengths, SystemCall(c, n)
      PROVE  Messaging'
  BY <1>1, CallMessaging DEF SystemIInv, IInv
<1>2. CASE SystemReturn
  BY <1>2, ReturnMessaging DEF SystemIInv, IInv
<1>3. CASE BeginTransfer \/ PortStep
  BY <1>3, PortMessaging DEF SystemIInv, BeginTransfer, PortStep
<1>4. CASE EndTransfer
  BY <1>4, EndMessaging
<1>5. CASE TransferStep \/ UNCHANGED systemVars
  BY <1>5 DEF TransferStep, systemVars, SystemIInv, Messaging, Sent
<1>6. QED
  BY <1>1, <1>2, <1>3, <1>4, <1>5 DEF SystemNext

LEMMA SystemInvariant == SystemSpec => []SystemIInv
<1>1. SystemInit => SystemIInv
  <2>1. SystemInit => Messaging
    BY DEF SystemInit, Init, Messaging
  <2>2. QED
    BY <2>1, InitIInv, DriverInitIInv DEF SystemInit, SystemIInv
<1>2. SystemIInv /\ [SystemNext]_systemVars => SystemIInv'
  BY PortSteps, DriverSteps, MessagingKept, NextIInv, DriverNextIInv DEF SystemIInv
<1>3. QED
  BY <1>1, <1>2, PTL DEF SystemSpec

----------------------------------------------------------------------------
(* Who works for whom. *)

Working == \E home \in [DOMAIN drv -> DOMAIN stack] : Serves(home)

\* A step that begins and ends no transfer.
LEMMA SameTransfers ==
  ASSUME Working, Transferring' = Transferring, DOMAIN drv' = DOMAIN drv,
         \A i \in Transferring :
           stack'[i].call = stack[i].call /\ message'[i].length = message[i].length,
         \A k \in DOMAIN drv : drv'[k].op = drv[k].op /\ drv'[k].size = drv[k].size
  PROVE  Working'
<1>1. PICK home \in [DOMAIN drv -> DOMAIN stack] : Serves(home)
  BY DEF Working
<1>2. home \in [DOMAIN drv' -> DOMAIN stack']
  <2>1. \A k \in DOMAIN drv : home[k] \in Transferring'
    BY <1>1 DEF Serves
  <2>2. QED
    BY <1>1, <2>1 DEF Transferring
<1>3. /\ \A k \in DOMAIN drv' :
           /\ home[k] \in Transferring'
           /\ drv'[k].op = stack'[home[k]].call
           /\ drv'[k].size = message'[home[k]].length
           /\ \A l \in 1..(k - 1) : home[l] < home[k]
      /\ \A i \in Transferring' : \E k \in DOMAIN drv' : home[k] = i
  BY <1>1 DEF Serves
<1>4. QED
  BY <1>2, <1>3 DEF Working, Serves

\* The steps of the port other than its transfer.
LEMMA PortTransfers ==
  ASSUME Shape, PortStep
  PROVE  /\ Transferring' = Transferring
         /\ \A i \in Transferring : stack'[i] = stack[i]
<1> USE DEF At
<1>1. stack # << >> /\ Top.pc # "transfer"
  BY DEF PortStep, Test, Load, Store, Confirm, Decide, EarlyRelease, HandlerDone,
         Release
<1>2. Top \in Frames /\ Refused.pc = "handler"
  BY <1>1, TopFrame DEF Frames, Refused
<1>3. \A p \in Points : [Top EXCEPT !.pc = p].pc = p
  BY <1>2 DEF Frames
<1>4. ASSUME NEW f, Become(f), f.pc # "transfer"
      PROVE  /\ Transferring' = Transferring
             /\ \A i \in Transferring : stack'[i] = stack[i]
  <2>1. /\ DOMAIN stack' = DOMAIN stack /\ stack'[Len(stack)] = f
        /\ Len(stack) \in DOMAIN stack
        /\ \A i \in DOMAIN stack : i # Len(stack) => stack'[i] = stack[i]
    BY <1>1, <1>4 DEF Become, Shape
  <2>2. QED
    BY <1>1, <1>4, <2>1 DEF Transferring, Top
<1>5. \E f : Become(f) /\ f.pc # "transfer"
  <2>1. CASE Test \/ Store \/ Confirm \/ Release
    BY <1>2, <1>3, <2>1 DEF Test, Store, Confirm, Release, Move, Points
  <2>2. CASE Load
    <3> DEFINE f == [Top EXCEPT !.pc = "store", !.reg = g_entry_count]
    <3>1. f.pc = "store" /\ Become(f)
      BY <1>2, <2>2 DEF Load, Frames
    <3>2. QED
      BY <3>1
  <2>3. CASE Decide \/ EarlyRelease
    <3> DEFINE f(e) == [Top EXCEPT !.pc = "handler", !.events = Append(@, e)]
    <3>1. \A e : f(e).pc = "handler"
      BY <1>2 DEF Frames
    <3>2. Move("early_release") \/ Become(f("ERROR")) \/ Become(f("SUCCESS"))
      BY <2>3 DEF Decide, EarlyRelease
    <3> HIDE DEF f
    <3>3. QED
      BY <1>3, <3>1, <3>2 DEF Move, Points
  <2>4. CASE HandlerDone
    <3> DEFINE f == [Top EXCEPT
               !.status = IF LastEvent(Top) = "SUCCESS" THEN "SUCCESS" ELSE @,
               !.pc = IF LastEvent(Top) = "ERROR" THEN "release"
                      ELSE IF Top.call = "read" THEN "last_release" ELSE "return"]
    <3>1. f.pc \in {"release", "last_release", "return"} /\ Become(f)
      BY <1>2, <2>4 DEF HandlerDone, Frames
    <3> HIDE DEF f
    <3>2. QED
      BY <3>1
  <2>5. QED
    BY <2>1, <2>2, <2>3, <2>4 DEF PortStep
<1>6. QED
  BY <1>4, <1>5

\* A new call of the port, and one that returns, are not at their transfer.
LEMMA CallTransfers ==
  ASSUME Shape, Messaging, Working,
         (\E c \in Calls, n \in Lengths : SystemCall(c, n)) \/ SystemReturn
  PROVE  Working'
<1>1. CASE \E c \in Calls, n \in Lengths : SystemCall(c, n)
  <2>1. PICK c \in Calls, n \in Lengths : SystemCall(c, n)
    BY <1>1
  <2>2. NewFrame(c) \in Frames /\ NewFrame(c).pc = "test"
    BY CallAssumption DEF NewFrame, Frames, Points
  <2>3. /\ DOMAIN stack = 1..Len(stack) /\ DOMAIN stack' = 1..(Len(stack) + 1)
        /\ Len(stack) \in Nat /\ stack'[Len(stack) + 1].pc = "test"
        /\ \A i \in DOMAIN stack : stack'[i] = stack[i]
    BY <2>1, <2>2, Pushed DEF Shape, SystemCall, Call
  <2>4. \A i \in DOMAIN stack : message'[i] = message[i]
    <3> DEFINE m == [length |-> n, whole |-> 0]
    <3>1. m \in Messages /\ message' = Append(message, m)
      BY <2>1 DEF Messages, SystemCall
    <3> HIDE DEF m
    <3>2. QED
      BY <2>3, <3>1 DEF Messaging
  <2>5. Transferring' = Transferring
    BY <2>3 DEF Transferring
  <2>6. QED
    BY <2>1, <2>3, <2>4, <2>5, SameTransfers DEF SystemCall, driverVars, Transferring
<1>2. CASE SystemReturn
  <2>1. stack # << >> /\ stack[Len(stack)].pc = "return"
    BY <1>2 DEF SystemReturn, Return, At, Top
  <2>2. /\ Len(stack) \in Nat \ {0}
        /\ DOMAIN stack = 1..Len(stack) /\ DOMAIN stack' = 1..(Len(stack) - 1)
        /\ \A i \in DOMAIN stack' : stack'[i] = stack[i]
    BY <1>2, <2>1, Popped DEF Shape, SystemReturn, Return
  <2>3. \A i \in DOMAIN stack' : message'[i] = message[i]
    BY <1>2, <2>2, MessagePopped DEF Messaging, SystemReturn
  <2>4. Transferring' = Transferring /\ Transferring \subseteq DOMAIN stack'
    BY <2>1, <2>2 DEF Transferring
  <2>5. QED
    BY <1>2, <2>2, <2>3, <2>4, SameTransfers DEF SystemReturn, driverVars
<1>3. QED
  BY <1>1, <1>2

\* A transfer that begins is that of the last call, and of the last call of
\* the driver.
LEMMA BeginTransfers ==
  ASSUME SystemIInv, Working, BeginTransfer
  PROVE  Working'
<1> DEFINE last == Len(stack)
           x == [op |-> Top.call, pc |-> "choose", size |-> message[last].length,
                 left |-> message[last].length, status |-> "SUCCESS",
                 got |-> 0, last |-> "ACK"]
           f == [Top EXCEPT !.pc = "transfer", !.attempts = @ + 1]
<1>1. /\ stack # << >> /\ Top \in Frames /\ Top.pc = "begin" /\ FrameOK(Top)
      /\ Become(f) /\ drv' = Append(drv, x) /\ UNCHANGED message
  BY TopFrame DEF BeginTransfer, Begin, At, Enter, SystemIInv, IInv, Messaging
<1>2. Top.attempts + 1 \in 0..MaxAttempts
  BY <1>1, CallAssumption DEF Frames, FrameOK
<1>3. f \in Frames /\ f.pc = "transfer" /\ f.call = Top.call
  BY <1>1, <1>2 DEF Frames, Points
<1>4. message[last] \in Messages
  BY <1>1 DEF SystemIInv, Messaging, IInv, Shape
<1>5. /\ x \in Xfers /\ x.op = Top.call /\ x.size = message[last].length
  BY <1>1, <1>4, LengthAssumption DEF Xfers, Ops, Frames, Messages
<1> HIDE DEF f, x
<1>6. /\ last \in Nat \ {0} /\ DOMAIN stack = 1..last /\ DOMAIN stack' = 1..last
      /\ stack'[last] = f
      /\ \A i \in DOMAIN stack : i # last => stack'[i] = stack[i]
  BY <1>1, <1>3, Became DEF SystemIInv, IInv, Shape
<1>7. /\ Me \in Nat /\ DOMAIN drv = 1..Me /\ DOMAIN drv' = 1..(Me + 1)
      /\ drv'[Me + 1] = x
      /\ \A k \in 1..Me : drv'[k] = drv[k]
  BY <1>1, <1>5, XferPushed DEF SystemIInv, DriverIInv, DriverTypeOK
<1>8. Transferring' = Transferring \cup {last} /\ last \notin Transferring
  BY <1>1, <1>3, <1>6 DEF Transferring, Top
<1>9. PICK home \in [DOMAIN drv -> DOMAIN stack] : Serves(home)
  BY DEF Working
<1> DEFINE h == [k \in 1..(Me + 1) |-> IF k = Me + 1 THEN last ELSE home[k]]
<1>10. h[Me + 1] = last /\ \A k \in 1..Me : h[k] = home[k]
  BY <1>7
<1>11. h \in [DOMAIN drv' -> DOMAIN stack']
  BY <1>6, <1>7, <1>9
<1> HIDE DEF h
<1>12. ASSUME NEW k \in DOMAIN drv'
       PROVE  /\ h[k] \in Transferring'
              /\ drv'[k].op = stack'[h[k]].call
              /\ drv'[k].size = message'[h[k]].length
              /\ \A l \in 1..(k - 1) : h[l] < h[k]
  <2>1. CASE k = Me + 1
    <3>1. \A l \in 1..Me : home[l] \in Transferring
      BY <1>7, <1>9 DEF Serves
    <3>2. \A l \in 1..Me : home[l] < last
      BY <3>1, <1>6, <1>8 DEF Transferring
    <3>3. QED
      BY <2>1, <3>2, <1>1, <1>3, <1>5, <1>6, <1>7, <1>8, <1>10
  <2>2. CASE k # Me + 1
    <3>1. k \in 1..Me
      BY <2>2, <1>7
    <3>2. /\ home[k] \in Transferring /\ home[k] # last
          /\ drv[k].op = stack[home[k]].call
          /\ drv[k].size = message[home[k]].length
          /\ \A l \in 1..(k - 1) : home[l] < home[k]
      BY <3>1, <1>7, <1>8, <1>9 DEF Serves
    <3>3. stack'[home[k]] = stack[home[k]]
      BY <3>2, <1>6 DEF Transferring
    <3>4. \A l \in 1..(k - 1) : l \in 1..Me
      BY <3>1, <1>7
    <3>5. QED
      BY <3>1, <3>2, <3>3, <3>4, <1>1, <1>7, <1>8, <1>10
  <2>3. QED
    BY <2>1, <2>2
<1>13. \A i \in Transferring' : \E k \in DOMAIN drv' : h[k] = i
  <2>1. \A i \in Transferring : \E k \in 1..Me : home[k] = i
    BY <1>7, <1>9 DEF Serves
  <2>2. QED
    BY <2>1, <1>7, <1>8, <1>10
<1>14. QED
  BY <1>11, <1>12, <1>13 DEF Working, Serves

\* The call that ends its transfer is the one the driver returns to.
LEMMA EndTransfers ==
  ASSUME SystemIInv, Working, EndTransfer
  PROVE  Working'
<1> DEFINE last == Len(stack)
<1>1. /\ stack # << >> /\ Top \in Frames /\ Top.pc = "transfer" /\ Shape
      /\ drv # << >> /\ drv \in Seq(Xfers) /\ drv' = SubSeq(drv, 1, Me - 1)
  BY TopFrame DEF EndTransfer, End, Leave, Doing, At, SystemIInv, IInv, DriverIInv,
                  DriverTypeOK
<1>2. PICK failed \in BOOLEAN :
        Become([Top EXCEPT
          !.failed = failed,
          !.pc = IF failed /\ Top.call = "write" /\ Top.attempts < MaxAttempts
                 THEN "begin" ELSE "decide"])
  BY DEF EndTransfer, End
<1> DEFINE f == [Top EXCEPT
                  !.failed = failed,
                  !.pc = IF failed /\ Top.call = "write" /\ Top.attempts < MaxAttempts
                         THEN "begin" ELSE "decide"]
<1>3. f \in Frames /\ f.pc \in {"begin", "decide"} /\ Become(f)
  BY <1>1, <1>2 DEF Frames, Points
<1> HIDE DEF f
<1>4. /\ last \in Nat \ {0} /\ DOMAIN stack = 1..last /\ DOMAIN stack' = 1..last
      /\ stack'[last] = f
      /\ \A i \in DOMAIN stack : i # last => stack'[i] = stack[i]
  BY <1>1, <1>3, Became DEF Shape
<1>5. /\ Me \in Nat \ {0} /\ DOMAIN drv = 1..Me /\ DOMAIN drv' = 1..(Me - 1)
      /\ \A k \in 1..(Me - 1) : drv'[k] = drv[k]
  BY <1>1, XferPopped
<1>6. Transferring' = Transferring \ {last} /\ last \in Transferring
  BY <1>1, <1>3, <1>4 DEF Transferring, Top
<1>7. PICK home \in [DOMAIN drv -> DOMAIN stack] : Serves(home)
  BY DEF Working
<1>8. \A k \in 1..Me :
        /\ home[k] \in Transferring /\ home[k] \in 1..last
        /\ drv[k].op = stack[home[k]].call
        /\ drv[k].size = message[home[k]].length
        /\ \A l \in 1..(k - 1) : home[l] < home[k]
  BY <1>4, <1>5, <1>7 DEF Serves, Transferring
<1>9. home[Me] = last
  <2>1. PICK k \in 1..Me : home[k] = last
    BY <1>5, <1>6, <1>7 DEF Serves
  <2>2. k # Me => last < home[Me]
    BY <2>1, <1>5, <1>8
  <2>3. QED
    BY <2>1, <2>2, <1>4, <1>5, <1>8
<1>10. \A k \in 1..(Me - 1) : k \in 1..Me /\ home[k] < last
  BY <1>5, <1>8, <1>9
<1> DEFINE h == [k \in 1..(Me - 1) |-> home[k]]
<1>11. h \in [DOMAIN drv' -> DOMAIN stack'] /\ \A k \in 1..(Me - 1) : h[k] = home[k]
  BY <1>4, <1>5, <1>7, <1>10
<1> HIDE DEF h
<1>12. \A i \in 1..last : i # last => message'[i] = message[i]
  BY <1>4 DEF EndTransfer, SystemIInv, Messaging
<1>13. ASSUME NEW k \in DOMAIN drv'
       PROVE  /\ h[k] \in Transferring'
              /\ drv'[k].op = stack'[h[k]].call
              /\ drv'[k].size = message'[h[k]].length
              /\ \A l \in 1..(k - 1) : h[l] < h[k]
  <2>1. k \in 1..(Me - 1) /\ \A l \in 1..(k - 1) : l \in 1..(Me - 1)
    BY <1>5
  <2>2. home[k] # last /\ home[k] \in 1..last
    BY <2>1, <1>4, <1>8, <1>10
  <2>3. /\ h[k] = home[k] /\ drv'[k] = drv[k] /\ k \in 1..Me
        /\ \A l \in 1..(k - 1) : h[l] = home[l]
    BY <2>1, <1>5, <1>10, <1>11
  <2>4. stack'[home[k]] = stack[home[k]] /\ message'[home[k]] = message[home[k]]
    BY <2>2, <1>4, <1>12
  <2>5. home[k] \in Transferring'
    BY <2>2, <2>3, <1>6, <1>8
  <2>6. QED
    BY <2>3, <2>4, <2>5, <1>8
<1>14. \A i \in Transferring' : \E k \in DOMAIN drv' : h[k] = i
  <2> SUFFICES ASSUME NEW i \in Transferring' PROVE \E k \in DOMAIN drv' : h[k] = i
    OBVIOUS
  <2>1. PICK k \in 1..Me : home[k] = i
    BY <1>5, <1>6, <1>7 DEF Serves
  <2>2. k # Me
    BY <2>1, <1>6, <1>9
  <2>3. QED
    BY <2>1, <2>2, <1>5, <1>11
<1>15. QED
  BY <1>11, <1>13, <1>14 DEF Working, Serves

LEMMA WorkingKept ==
  ASSUME SystemIInv, Working, [SystemNext]_systemVars
  PROVE  Working'
<1>1. CASE (\E c \in Calls, n \in Lengths : SystemCall(c, n)) \/ SystemReturn
  BY <1>1, CallTransfers DEF SystemIInv, IInv
<1>2. CASE BeginTransfer
  BY <1>2, BeginTransfers
<1>3. CASE EndTransfer
  BY <1>3, EndTransfers
<1>4. CASE PortStep
  BY <1>4, PortTransfers, SameTransfers DEF PortStep, SystemIInv, IInv
<1>5. CASE TransferStep
  BY <1>5, DriverStepWorks, SameTransfers DEF TransferStep, SystemIInv, Transferring
<1>6. CASE UNCHANGED systemVars
  BY <1>6, SameTransfers DEF systemVars, Transferring
<1>7. QED
  BY <1>1, <1>2, <1>3, <1>4, <1>5, <1>6 DEF SystemNext

----------------------------------------------------------------------------
(* The theorems. *)

\* Put together, the port is that of PalI2c and the driver that of
\* CyI2cMaster: what is proved of each holds of both.
THEOREM PartsImplemented == SystemSpec => Spec /\ DriverSpec
<1>1. SystemInit => Init /\ DriverInit
  BY DEF SystemInit
<1>2. SystemIInv /\ [SystemNext]_systemVars => [Next]_vars /\ [DriverNext]_driverVars
  BY PortSteps, DriverSteps
<1>3. QED
  BY <1>1, <1>2, SystemInvariant, PTL DEF SystemSpec, Spec, DriverSpec

\* So each call of the port answers once, each call of the driver tells the
\* truth, and between calls the wires are idle, in the composition too.
THEOREM PartsCorrect == SystemSpec => [](OneAnswer /\ NoFalseSuccess /\ WiresFreeAtRest)
<1>1. QED
  BY PartsImplemented, AnsweredOnce, SuccessIsTrue, WiresIdleBetweenCalls, PTL

\* A call that returns SUCCESS delivered its message whole exactly once, any
\* other never: for any nesting, lengths and number of attempts.
THEOREM Delivered == SystemSpec => []DeliveredOnce
<1>1. ASSUME SystemIInv PROVE DeliveredOnce
  <2>1. ASSUME NEW i \in DOMAIN stack, stack[i].pc = "return"
        PROVE  Sent(stack[i]) <=> stack[i].status = "SUCCESS"
    <3>1. FrameOK(stack[i])
      BY <1>1 DEF SystemIInv, IInv, Shape
    <3>2. <<"BUSY">> # <<"SUCCESS">> /\ <<"ERROR">> # <<"SUCCESS">>
      <4>1. <<"BUSY">>[1] = "BUSY" /\ <<"ERROR">>[1] = "ERROR" /\ <<"SUCCESS">>[1] = "SUCCESS"
        OBVIOUS
      <4>2. QED
        BY <4>1
    <3>3. QED
      BY <2>1, <3>1, <3>2 DEF FrameOK, Sent, Late
  <2>2. QED
    BY <1>1, <2>1 DEF DeliveredOnce, SystemIInv, Messaging
<1>2. QED
  BY <1>1, SystemInvariant, PTL

\* The driver works for the calls of the port that are at their transfer, for
\* each on its own message: with Delivered, what a call reports of its message
\* is what went over the wires for it and not for another.
THEOREM DriverServesPort == SystemSpec => []SystemTypeOK
<1>1. SystemInit => Working
  <2> SUFFICES ASSUME SystemInit PROVE Working
    OBVIOUS
  <2>1. drv = << >> /\ stack = << >>
    BY DEF SystemInit, Init, DriverInit
  <2>2. DOMAIN drv = {} /\ Transferring = {}
    BY <2>1 DEF Transferring
  <2>3. [k \in {} |-> 0] \in [DOMAIN drv -> DOMAIN stack] /\ Serves([k \in {} |-> 0])
    BY <2>2 DEF Serves
  <2>4. QED
    BY <2>3 DEF Working
<1>2. SystemIInv /\ Working => SystemTypeOK
  BY DEF SystemIInv, Working, SystemTypeOK, Messaging, IInv, Shape, Guarded, TypeOK,
         DriverIInv
<1>3. SystemIInv /\ Working /\ [SystemNext]_systemVars => Working'
  BY WorkingKept
<1>4. QED
  BY <1>1, <1>2, <1>3, SystemInvariant, PTL DEF SystemSpec

\* Every call of the port and of the driver comes nearer to its return with
\* each of its steps, whatever is nested in it.
THEOREM CallsComeToAnEnd == SystemSpec => CallsEnd
<1>1. SystemIInv /\ [SystemNext]_systemVars => [CallAdvances /\ TransferAdvances]_systemVars
  <2> SUFFICES ASSUME SystemIInv, [SystemNext]_systemVars
               PROVE  CallAdvances /\ TransferAdvances
    OBVIOUS
  <2>1. TransferAdvances
    BY DriverSteps, DriverAdvances DEF SystemIInv
  <2>2. CASE Next
    BY <2>1, <2>2, PortAdvances DEF SystemIInv
  <2>3. CASE UNCHANGED vars
    BY <2>1, <2>3 DEF vars, CallAdvances
  <2>4. QED
    BY <2>2, <2>3, PortSteps
<1>2. QED
  BY <1>1, SystemInvariant, PTL DEF SystemSpec, CallsEnd

\* Where the upper layer only writes, the driver is never entered while
\* another of its calls is under way, at any depth of nesting of the port.
THEOREM WritesNotNested ==
  ASSUME WritesOnly PROVE SystemSpec => [](Len(drv) =< 1)
<1>1. SystemTypeOK /\ OneTransfer => Len(drv) =< 1
  <2> SUFFICES ASSUME SystemTypeOK, OneTransfer, ~(Len(drv) =< 1) PROVE FALSE
    OBVIOUS
  <2>1. PICK home \in [DOMAIN drv -> DOMAIN stack] : Serves(home)
    BY DEF SystemTypeOK
  <2>2. 1 \in DOMAIN drv /\ 2 \in DOMAIN drv /\ 1 \in 1..(2 - 1)
    BY DEF SystemTypeOK, DriverTypeOK
  <2>3. home[1] \in Transferring /\ home[2] \in Transferring /\ home[1] < home[2]
    BY <2>1, <2>2 DEF Serves
  <2>4. home[1] = home[2]
    BY <2>3 DEF OneTransfer, Transferring
  <2>5. stack \in Seq(Frames)
    BY DEF SystemTypeOK, TypeOK
  <2>6. home[1] \in Nat
    BY <2>3, <2>5 DEF Transferring
  <2>7. QED
    BY <2>3, <2>4, <2>6
<1>2. QED
  BY <1>1, DriverServesPort, PartsImplemented, WritesExclude, PTL
=============================================================================
