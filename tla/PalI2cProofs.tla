---------------------------- MODULE PalI2cProofs ----------------------------
(***************************************************************************)
(* Proofs about PalI2c for every depth of nesting and every number of      *)
(* attempts.  The lock word is right because calls nest: whatever a call   *)
(* above a frame did to the word it has undone when the frame goes on.     *)
(* Guarded below is that argument as an invariant, FrameOK what a single   *)
(* call has done at each of its points, and Exclusive what is true in      *)
(* addition when no call is a read.                                        *)
(***************************************************************************)
EXTENDS PalI2c, TLAPS

Early == {"test", "load", "store", "confirm"}

Late == {"handler", "release", "last_release", "return"}

FrameOK(f) ==
  /\ f.pc \in Early => f.attempts = 0
  /\ f.pc = "store" => f.reg = 0
  /\ f.pc = "begin" => f.attempts < MaxAttempts /\ (f.call = "read" => f.attempts = 0)
  /\ f.pc = "transfer" => f.attempts > 0 /\ (f.call = "read" => f.attempts = 1)
  /\ f.pc = "decide" /\ f.call = "read" => f.attempts = 1
  /\ f.pc = "decide" /\ f.call = "write" /\ f.failed => f.attempts = MaxAttempts
  /\ f.pc = "early_release" => f.call = "write"
  /\ f.pc \notin Late => f.events = << >> /\ f.status = "FAILURE"
  /\ f.pc \in Late =>
       \/ f.events = <<"BUSY">> /\ f.status = "I2C_BUSY" /\ f.pc # "release"
       \/ /\ f.events = <<"SUCCESS">> /\ f.pc # "release"
          /\ f.status = IF f.pc = "handler" THEN "FAILURE" ELSE "SUCCESS"
       \/ /\ f.events = <<"ERROR">> /\ f.status = "FAILURE"
          /\ f.attempts = IF f.call = "write" THEN MaxAttempts ELSE 1
  /\ f.pc = "last_release" => f.call = "read"

\* If the word is set, some call holds the bus and no call above it is past
\* the test of pal_i2c_acquire.
Guarded ==
  /\ g_entry_count \in {0, 1}
  /\ g_entry_count = 1 =>
       \E h \in DOMAIN stack :
         /\ Holds(stack[h])
         /\ \A i \in DOMAIN stack : i > h => stack[i].pc \notin {"load", "store"}

Shape == /\ stack \in Seq(Frames)
         /\ \A i \in DOMAIN stack : FrameOK(stack[i])

IInv == Shape /\ Guarded

----------------------------------------------------------------------------
(* How a step changes the stack. *)

LEMMA One ==
  ASSUME NEW e
  PROVE  /\ Append(<< >>, e) = <<e>>
         /\ <<e>>[Len(<<e>>)] = e
OBVIOUS

LEMMA Became ==
  ASSUME stack \in Seq(Frames), stack # << >>, NEW f \in Frames, Become(f)
  PROVE  /\ stack' \in Seq(Frames)
         /\ Len(stack) \in Nat \ {0}
         /\ DOMAIN stack = 1..Len(stack)
         /\ DOMAIN stack' = 1..Len(stack)
         /\ stack'[Len(stack)] = f
         /\ \A i \in DOMAIN stack : i # Len(stack) => stack'[i] = stack[i]
         /\ Top \in Frames
BY DEF Become, Top

LEMMA Pushed ==
  ASSUME stack \in Seq(Frames), NEW f \in Frames, stack' = Append(stack, f)
  PROVE  /\ stack' \in Seq(Frames)
         /\ Len(stack) \in Nat
         /\ DOMAIN stack = 1..Len(stack)
         /\ DOMAIN stack' = 1..(Len(stack) + 1)
         /\ stack'[Len(stack) + 1] = f
         /\ \A i \in DOMAIN stack : stack'[i] = stack[i]
OBVIOUS

LEMMA Popped ==
  ASSUME stack \in Seq(Frames), stack # << >>,
         stack' = SubSeq(stack, 1, Len(stack) - 1)
  PROVE  /\ stack' \in Seq(Frames)
         /\ Len(stack) \in Nat \ {0}
         /\ DOMAIN stack = 1..Len(stack)
         /\ DOMAIN stack' = 1..(Len(stack) - 1)
         /\ \A i \in DOMAIN stack' : stack'[i] = stack[i]
OBVIOUS

LEMMA BecomeShape ==
  ASSUME Shape, stack # << >>, NEW f \in Frames, FrameOK(f), Become(f)
  PROVE  Shape'
<1>1. stack' \in Seq(Frames)
  BY Became DEF Shape
<1>2. \A i \in DOMAIN stack' : FrameOK(stack'[i])
  BY Became DEF Shape
<1>3. QED
  BY <1>1, <1>2 DEF Shape, FrameOK

\* A step that leaves the word alone keeps it guarded, if it does not give up
\* the bus and does not pass the test while the word is set.
LEMMA BecomeGuarded ==
  ASSUME Shape, Guarded, stack # << >>, NEW f \in Frames, Become(f),
         UNCHANGED g_entry_count,
         g_entry_count = 1 => /\ Holds(Top) => Holds(f)
                              /\ f.pc \notin {"load", "store"}
  PROVE  Guarded'
<1>1. CASE g_entry_count = 0
  BY <1>1 DEF Guarded
<1>2. CASE g_entry_count = 1
  <2>1. PICK h \in DOMAIN stack :
          /\ Holds(stack[h])
          /\ \A i \in DOMAIN stack : i > h => stack[i].pc \notin {"load", "store"}
    BY <1>2 DEF Guarded
  <2>2. Holds(stack'[h])
    BY <1>2, <2>1, Became DEF Shape, Top
  <2>3. \A i \in DOMAIN stack' : i > h => stack'[i].pc \notin {"load", "store"}
    BY <1>2, <2>1, Became DEF Shape
  <2>4. h \in DOMAIN stack'
    BY <2>1, Became DEF Shape
  <2>5. QED
    BY <1>2, <2>2, <2>3, <2>4 DEF Guarded, Holds, LastEvent
<1>3. QED
  BY <1>1, <1>2 DEF Guarded

LEMMA TopFrame ==
  ASSUME Shape, stack # << >>
  PROVE  Top \in Frames /\ FrameOK(Top)
BY DEF Shape, Top

----------------------------------------------------------------------------
(* Every step keeps the invariant. *)

LEMMA InitIInv == Init => IInv
BY DEF Init, IInv, Shape, Guarded

LEMMA CallIInv == ASSUME IInv, NEW c \in Calls, Call(c) PROVE IInv'
<1>1. NewFrame(c) \in Frames /\ FrameOK(NewFrame(c))
  BY CallAssumption DEF NewFrame, Frames, FrameOK, Points, Early, Late
<1>2. Shape'
  BY <1>1, Pushed DEF Call, IInv, Shape, FrameOK
<1>3. Guarded'
  BY <1>1, Pushed DEF Call, IInv, Shape, Guarded, NewFrame, Holds, LastEvent
<1>4. QED
  BY <1>2, <1>3 DEF IInv

LEMMA ReturnIInv == ASSUME IInv, Return PROVE IInv'
<1>1. stack # << >> /\ ~Holds(Top)
  BY DEF Return, At, Holds
<1>2. Shape'
  BY <1>1, Popped DEF Return, IInv, Shape, FrameOK
<1>3. Guarded'
  <2>1. CASE g_entry_count = 0
    BY <2>1 DEF Return, Guarded
  <2>2. CASE g_entry_count = 1
    <3>1. PICK h \in DOMAIN stack :
            /\ Holds(stack[h])
            /\ \A i \in DOMAIN stack : i > h => stack[i].pc \notin {"load", "store"}
      BY <2>2 DEF Guarded, IInv
    <3>2. h \in DOMAIN stack' /\ stack'[h] = stack[h]
      BY <1>1, <3>1, Popped DEF Return, IInv, Shape, Top
    <3>3. \A i \in DOMAIN stack' : i > h => stack'[i].pc \notin {"load", "store"}
      BY <1>1, <3>1, Popped DEF Return, IInv, Shape
    <3>4. Holds(stack'[h])
      BY <3>1, <3>2
    <3>5. QED
      BY <2>2, <3>2, <3>3, <3>4 DEF Return, Guarded, Holds, LastEvent
  <2>3. QED
    BY <2>1, <2>2 DEF IInv, Guarded
<1>4. QED
  BY <1>2, <1>3 DEF IInv

\* The frames a step makes of the running call: one that only moves on, one
\* that reports its event, and one that was refused.
Moved(f, p) ==
  /\ f \in Frames /\ f.pc = p /\ f.call = Top.call /\ f.reg = Top.reg
  /\ f.attempts = Top.attempts /\ f.failed = Top.failed
  /\ f.events = Top.events /\ f.status = Top.status

LEMMA MovedFrame ==
  ASSUME Top \in Frames, NEW p \in Points
  PROVE  Moved([Top EXCEPT !.pc = p], p)
BY DEF Frames, Moved

Reports(f, e, status) ==
  /\ f \in Frames /\ f.pc = "handler" /\ f.call = Top.call
  /\ f.attempts = Top.attempts /\ f.events = <<e>> /\ f.status = status

LEMMA ReportingFrame ==
  ASSUME Top \in Frames, Top.events = << >>, NEW e \in Events
  PROVE  Reports([Top EXCEPT !.pc = "handler", !.events = Append(@, e)],
                 e, Top.status)
<1>1. Append(Top.events, e) = <<e>> /\ <<e>> \in Seq(Events)
  BY One
<1>2. QED
  BY <1>1 DEF Frames, Points, Reports

LEMMA RefusedFrame ==
  ASSUME Top \in Frames, Top.events = << >>
  PROVE  Reports(Refused, "BUSY", "I2C_BUSY")
<1>1. Append(Top.events, "BUSY") = <<"BUSY">> /\ <<"BUSY">> \in Seq(Events)
  BY One DEF Events
<1>2. QED
  BY <1>1 DEF Frames, Points, Refused, Reports

LEMMA TestIInv == ASSUME IInv, Test PROVE IInv'
<1>1. /\ stack # << >> /\ Top \in Frames /\ FrameOK(Top)
      /\ Shape /\ Guarded /\ g_entry_count \in {0, 1}
  BY TopFrame DEF Test, At, IInv, Guarded
<1>2. CASE g_entry_count = 0
  <2> DEFINE f == [Top EXCEPT !.pc = "load"]
  <2>1. Become(f)
    BY <1>1, <1>2 DEF Test, Move
  <2>2. Moved(f, "load")
    BY <1>1, <1>2, MovedFrame DEF Test, At, Points
  <2> HIDE DEF f
  <2>3. f \in Frames /\ FrameOK(f)
    BY <1>1, <2>2, <1>2, CallAssumption DEF Test, At, Moved, Reports, FrameOK, Early, Late, Frames
  <2>4. Shape'
    BY <1>1, <2>1, <2>3, BecomeShape
  <2>5. g_entry_count = 1 =>
               (Holds(Top) => Holds(f)) /\ f.pc \notin {"load", "store"}
    BY <1>1, <2>2, <1>2 DEF Test, At, Moved, Reports, Holds, LastEvent, FrameOK, Early, Late, Frames
  <2>6. Guarded'
    BY <1>1, <1>2, <2>1, <2>3, <2>5, BecomeGuarded DEF Test
  <2>7. QED
    BY <2>4, <2>6 DEF IInv
<1>3. CASE g_entry_count # 0
  <2> DEFINE f == Refused
  <2>1. Become(f)
    BY <1>1, <1>3 DEF Test, Move
  <2>2. Reports(f, "BUSY", "I2C_BUSY")
    BY <1>1, <1>3, RefusedFrame DEF Test, At, FrameOK, Early, Late
  <2> HIDE DEF f
  <2>3. f \in Frames /\ FrameOK(f)
    BY <1>1, <2>2, <1>3, CallAssumption DEF Test, At, Moved, Reports, FrameOK, Early, Late, Frames
  <2>4. Shape'
    BY <1>1, <2>1, <2>3, BecomeShape
  <2>5. g_entry_count = 1 =>
               (Holds(Top) => Holds(f)) /\ f.pc \notin {"load", "store"}
    BY <1>1, <2>2, <1>3 DEF Test, At, Moved, Reports, Holds, LastEvent, FrameOK, Early, Late, Frames
  <2>6. Guarded'
    BY <1>1, <1>3, <2>1, <2>3, <2>5, BecomeGuarded DEF Test
  <2>7. QED
    BY <2>4, <2>6 DEF IInv
<1>4. QED
  BY <1>1, <1>2, <1>3

LEMMA ConfirmIInv == ASSUME IInv, Confirm PROVE IInv'
<1>1. /\ stack # << >> /\ Top \in Frames /\ FrameOK(Top)
      /\ Shape /\ Guarded /\ g_entry_count \in {0, 1}
  BY TopFrame DEF Confirm, At, IInv, Guarded
<1>2. CASE g_entry_count = 1
  <2> DEFINE f == [Top EXCEPT !.pc = "begin"]
  <2>1. Become(f)
    BY <1>1, <1>2 DEF Confirm, Move
  <2>2. Moved(f, "begin")
    BY <1>1, <1>2, MovedFrame DEF Confirm, At, Points
  <2> HIDE DEF f
  <2>3. f \in Frames /\ FrameOK(f)
    BY <1>1, <2>2, <1>2, CallAssumption DEF Confirm, At, Moved, Reports, FrameOK, Early, Late, Frames
  <2>4. Shape'
    BY <1>1, <2>1, <2>3, BecomeShape
  <2>5. g_entry_count = 1 =>
               (Holds(Top) => Holds(f)) /\ f.pc \notin {"load", "store"}
    BY <1>1, <2>2, <1>2 DEF Confirm, At, Moved, Reports, Holds, LastEvent, FrameOK, Early, Late, Frames
  <2>6. Guarded'
    BY <1>1, <1>2, <2>1, <2>3, <2>5, BecomeGuarded DEF Confirm
  <2>7. QED
    BY <2>4, <2>6 DEF IInv
<1>3. CASE g_entry_count # 1
  <2> DEFINE f == Refused
  <2>1. Become(f)
    BY <1>1, <1>3 DEF Confirm, Move
  <2>2. Reports(f, "BUSY", "I2C_BUSY")
    BY <1>1, <1>3, RefusedFrame DEF Confirm, At, FrameOK, Early, Late
  <2> HIDE DEF f
  <2>3. f \in Frames /\ FrameOK(f)
    BY <1>1, <2>2, <1>3, CallAssumption DEF Confirm, At, Moved, Reports, FrameOK, Early, Late, Frames
  <2>4. Shape'
    BY <1>1, <2>1, <2>3, BecomeShape
  <2>5. g_entry_count = 1 =>
               (Holds(Top) => Holds(f)) /\ f.pc \notin {"load", "store"}
    BY <1>1, <2>2, <1>3 DEF Confirm, At, Moved, Reports, Holds, LastEvent, FrameOK, Early, Late, Frames
  <2>6. Guarded'
    BY <1>1, <1>3, <2>1, <2>3, <2>5, BecomeGuarded DEF Confirm
  <2>7. QED
    BY <2>4, <2>6 DEF IInv
<1>4. QED
  BY <1>1, <1>2, <1>3

LEMMA DecideIInv == ASSUME IInv, Decide PROVE IInv'
<1>1. /\ stack # << >> /\ Top \in Frames /\ FrameOK(Top)
      /\ Shape /\ Guarded /\ g_entry_count \in {0, 1}
  BY TopFrame DEF Decide, At, IInv, Guarded
<1>2. CASE Top.failed
  <2> DEFINE f == [Top EXCEPT !.pc = "handler", !.events = Append(@, "ERROR")]
  <2>1. Become(f)
    BY <1>1, <1>2 DEF Decide, Move
  <2>2. Reports(f, "ERROR", Top.status)
    BY <1>1, <1>2, ReportingFrame DEF Decide, At, FrameOK, Late, Events
  <2> HIDE DEF f
  <2>3. f \in Frames /\ FrameOK(f)
    BY <1>1, <2>2, <1>2, CallAssumption DEF Decide, At, Moved, Reports, FrameOK, Early, Late, Frames
  <2>4. Shape'
    BY <1>1, <2>1, <2>3, BecomeShape
  <2>5. g_entry_count = 1 =>
               (Holds(Top) => Holds(f)) /\ f.pc \notin {"load", "store"}
    BY <1>1, <2>2, <1>2 DEF Decide, At, Moved, Reports, Holds, LastEvent, FrameOK, Early, Late, Frames
  <2>6. Guarded'
    BY <1>1, <1>2, <2>1, <2>3, <2>5, BecomeGuarded DEF Decide
  <2>7. QED
    BY <2>4, <2>6 DEF IInv
<1>3. CASE ~Top.failed /\ Top.call = "write"
  <2> DEFINE f == [Top EXCEPT !.pc = "early_release"]
  <2>1. Become(f)
    BY <1>1, <1>3 DEF Decide, Move
  <2>2. Moved(f, "early_release")
    BY <1>1, <1>3, MovedFrame DEF Decide, At, Points
  <2> HIDE DEF f
  <2>3. f \in Frames /\ FrameOK(f)
    BY <1>1, <2>2, <1>3, CallAssumption DEF Decide, At, Moved, Reports, FrameOK, Early, Late, Frames
  <2>4. Shape'
    BY <1>1, <2>1, <2>3, BecomeShape
  <2>5. g_entry_count = 1 =>
               (Holds(Top) => Holds(f)) /\ f.pc \notin {"load", "store"}
    BY <1>1, <2>2, <1>3 DEF Decide, At, Moved, Reports, Holds, LastEvent, FrameOK, Early, Late, Frames
  <2>6. Guarded'
    BY <1>1, <1>3, <2>1, <2>3, <2>5, BecomeGuarded DEF Decide
  <2>7. QED
    BY <2>4, <2>6 DEF IInv
<1>4. CASE ~Top.failed /\ Top.call # "write"
  <2> DEFINE f == [Top EXCEPT !.pc = "handler", !.events = Append(@, "SUCCESS")]
  <2>1. Become(f)
    BY <1>1, <1>4 DEF Decide, Move
  <2>2. Reports(f, "SUCCESS", Top.status)
    BY <1>1, <1>4, ReportingFrame DEF Decide, At, FrameOK, Late, Events
  <2> HIDE DEF f
  <2>3. f \in Frames /\ FrameOK(f)
    BY <1>1, <2>2, <1>4, CallAssumption DEF Decide, At, Moved, Reports, FrameOK, Early, Late, Frames
  <2>4. Shape'
    BY <1>1, <2>1, <2>3, BecomeShape
  <2>5. g_entry_count = 1 =>
               (Holds(Top) => Holds(f)) /\ f.pc \notin {"load", "store"}
    BY <1>1, <2>2, <1>4 DEF Decide, At, Moved, Reports, Holds, LastEvent, FrameOK, Early, Late, Frames
  <2>6. Guarded'
    BY <1>1, <1>4, <2>1, <2>3, <2>5, BecomeGuarded DEF Decide
  <2>7. QED
    BY <2>4, <2>6 DEF IInv
<1>5. QED
  BY <1>1, <1>2, <1>3, <1>4

LEMMA EarlyReleaseIInv == ASSUME IInv, EarlyRelease PROVE IInv'
<1>1. /\ stack # << >> /\ Top \in Frames /\ FrameOK(Top)
      /\ Shape /\ Guarded /\ g_entry_count \in {0, 1}
  BY TopFrame DEF EarlyRelease, At, IInv, Guarded
<1> DEFINE f == [Top EXCEPT !.pc = "handler", !.events = Append(@, "SUCCESS")]
<1>2. Become(f)
  BY <1>1 DEF EarlyRelease, Move
<1>3. Reports(f, "SUCCESS", Top.status)
  BY <1>1, ReportingFrame DEF EarlyRelease, At, FrameOK, Late, Events
<1> HIDE DEF f
<1>4. f \in Frames /\ FrameOK(f)
  BY <1>1, <1>3, CallAssumption DEF EarlyRelease, At, Moved, Reports, FrameOK, Early, Late, Frames
<1>5. Shape'
  BY <1>1, <1>2, <1>4, BecomeShape
<1>6. Guarded'
  BY DEF EarlyRelease, Guarded
<1>7. QED
  BY <1>5, <1>6 DEF IInv

LEMMA ReleaseIInv == ASSUME IInv, Release PROVE IInv'
<1>1. /\ stack # << >> /\ Top \in Frames /\ FrameOK(Top)
      /\ Shape /\ Guarded /\ g_entry_count \in {0, 1}
  BY TopFrame DEF Release, At, IInv, Guarded
<1>2. CASE Top.pc = "release" /\ Top.call = "read"
  <2> DEFINE f == [Top EXCEPT !.pc = "last_release"]
  <2>1. Become(f)
    BY <1>1, <1>2 DEF Release, Move
  <2>2. Moved(f, "last_release")
    BY <1>1, <1>2, MovedFrame DEF Release, At, Points
  <2> HIDE DEF f
  <2>3. f \in Frames /\ FrameOK(f)
    BY <1>1, <2>2, <1>2, CallAssumption DEF Release, At, Moved, Reports, FrameOK, Early, Late, Frames
  <2>4. Shape'
    BY <1>1, <2>1, <2>3, BecomeShape
  <2>5. Guarded'
    BY DEF Release, Guarded
  <2>6. QED
    BY <2>4, <2>5 DEF IInv
<1>3. CASE ~(Top.pc = "release" /\ Top.call = "read")
  <2> DEFINE f == [Top EXCEPT !.pc = "return"]
  <2>1. Become(f)
    BY <1>1, <1>3 DEF Release, Move
  <2>2. Moved(f, "return")
    BY <1>1, <1>3, MovedFrame DEF Release, At, Points
  <2> HIDE DEF f
  <2>3. f \in Frames /\ FrameOK(f)
    BY <1>1, <2>2, <1>3, CallAssumption DEF Release, At, Moved, Reports, FrameOK, Early, Late, Frames
  <2>4. Shape'
    BY <1>1, <2>1, <2>3, BecomeShape
  <2>5. Guarded'
    BY DEF Release, Guarded
  <2>6. QED
    BY <2>4, <2>5 DEF IInv
<1>4. QED
  BY <1>1, <1>2, <1>3

LEMMA LoadIInv == ASSUME IInv, Load PROVE IInv'
<1>1. /\ stack # << >> /\ Top \in Frames /\ FrameOK(Top)
      /\ Shape /\ Guarded /\ Top.pc = "load"
  BY TopFrame DEF Load, At, IInv
<1>2. g_entry_count = 0
  BY <1>1 DEF Guarded, Shape, Top, Holds
<1> DEFINE f == [Top EXCEPT !.pc = "store", !.reg = g_entry_count]
<1>3. Become(f)
  BY DEF Load
<1>4. /\ f \in Frames /\ f.pc = "store" /\ f.reg = 0
      /\ f.attempts = Top.attempts /\ f.events = Top.events /\ f.status = Top.status
  BY <1>1, <1>2 DEF Frames, Points
<1> HIDE DEF f
<1>5. FrameOK(f)
  BY <1>1, <1>4 DEF FrameOK, Early, Late
<1>6. Shape'
  BY <1>1, <1>3, <1>4, <1>5, BecomeShape
<1>7. Guarded'
  BY <1>2 DEF Load, Guarded
<1>8. QED
  BY <1>6, <1>7 DEF IInv

\* The word was 0 when it was loaded; the running call is the one that set it.
LEMMA StoreIInv == ASSUME IInv, Store PROVE IInv'
<1>1. /\ stack # << >> /\ Top \in Frames /\ FrameOK(Top)
      /\ Shape /\ Top.pc = "store" /\ g_entry_count' = 1
  BY TopFrame DEF Store, At, IInv, FrameOK
<1> DEFINE f == [Top EXCEPT !.pc = "confirm"]
<1>2. Become(f)
  BY DEF Store, Move
<1>3. Moved(f, "confirm")
  BY <1>1, MovedFrame DEF Points
<1> HIDE DEF f
<1>4. f \in Frames /\ FrameOK(f) /\ Holds(f)
  BY <1>1, <1>3 DEF Moved, FrameOK, Early, Late, Holds
<1>5. Shape'
  BY <1>1, <1>2, <1>4, BecomeShape
<1>6. /\ Len(stack) \in DOMAIN stack' /\ Holds(stack'[Len(stack)])
      /\ \A i \in DOMAIN stack' : ~(i > Len(stack))
  BY <1>1, <1>2, <1>4, Became DEF Shape
<1>7. Guarded'
  BY <1>1, <1>6 DEF Guarded, Holds, LastEvent
<1>8. QED
  BY <1>5, <1>7 DEF IInv

LEMMA BeginIInv == ASSUME IInv, Begin PROVE IInv'
<1>1. /\ stack # << >> /\ Top \in Frames /\ FrameOK(Top)
      /\ Shape /\ Guarded /\ Top.pc = "begin"
  BY TopFrame DEF Begin, At, IInv
<1> DEFINE f == [Top EXCEPT !.pc = "transfer", !.attempts = @ + 1]
<1>2. Become(f)
  BY DEF Begin
<1>a. Top.attempts + 1 \in 0..MaxAttempts
  BY <1>1, CallAssumption DEF Frames, FrameOK
<1>3. /\ f \in Frames /\ f.pc = "transfer" /\ f.call = Top.call
      /\ f.attempts = Top.attempts + 1
      /\ f.events = Top.events /\ f.status = Top.status
  BY <1>1, <1>a DEF Frames, Points
<1> HIDE DEF f
<1>4. FrameOK(f) /\ Holds(f)
  BY <1>1, <1>3 DEF FrameOK, Early, Late, Holds, Frames
<1>5. Shape'
  BY <1>1, <1>2, <1>3, <1>4, BecomeShape
<1>6. Guarded'
  BY <1>1, <1>2, <1>3, <1>4, BecomeGuarded DEF Begin
<1>7. QED
  BY <1>5, <1>6 DEF IInv

LEMMA EndIInv == ASSUME IInv, End PROVE IInv'
<1>1. /\ stack # << >> /\ Top \in Frames /\ FrameOK(Top)
      /\ Shape /\ Guarded /\ Top.pc = "transfer"
  BY TopFrame DEF End, At, IInv
<1>2. PICK failed \in BOOLEAN :
        Become([Top EXCEPT
          !.failed = failed,
          !.pc = IF failed /\ Top.call = "write" /\ Top.attempts < MaxAttempts
                 THEN "begin" ELSE "decide"])
  BY DEF End
<1> DEFINE again == failed /\ Top.call = "write" /\ Top.attempts < MaxAttempts
           f == [Top EXCEPT !.failed = failed,
                            !.pc = IF again THEN "begin" ELSE "decide"]
<1>3. /\ f \in Frames /\ f.pc = (IF again THEN "begin" ELSE "decide")
      /\ f.call = Top.call /\ f.attempts = Top.attempts /\ f.failed = failed
      /\ f.events = Top.events /\ f.status = Top.status
  BY <1>1 DEF Frames, Points
<1>4. Become(f)
  BY <1>2
<1> HIDE DEF f
<1>5. FrameOK(f) /\ Holds(f)
  BY <1>1, <1>3, CallAssumption DEF FrameOK, Early, Late, Holds, Frames
<1>6. Shape'
  BY <1>1, <1>3, <1>4, <1>5, BecomeShape
<1>7. f.pc \notin {"load", "store"}
  BY <1>3
<1>8. Guarded'
  BY <1>1, <1>3, <1>4, <1>5, <1>7, BecomeGuarded DEF End
<1>9. QED
  BY <1>6, <1>8 DEF IInv

LEMMA HandlerDoneIInv == ASSUME IInv, HandlerDone PROVE IInv'
<1>1. /\ stack # << >> /\ Top \in Frames /\ FrameOK(Top)
      /\ Shape /\ Guarded /\ Top.pc = "handler"
  BY TopFrame DEF HandlerDone, At, IInv
<1> DEFINE last == LastEvent(Top)
           p == IF last = "ERROR" THEN "release"
                ELSE IF Top.call = "read" THEN "last_release" ELSE "return"
           f == [Top EXCEPT
                  !.status = IF last = "SUCCESS" THEN "SUCCESS" ELSE @,
                  !.pc = p]
<1>2. Become(f)
  BY DEF HandlerDone
<1>3. \/ Top.events = <<"BUSY">> /\ last = "BUSY" /\ Top.status = "I2C_BUSY"
      \/ Top.events = <<"SUCCESS">> /\ last = "SUCCESS" /\ Top.status = "FAILURE"
      \/ Top.events = <<"ERROR">> /\ last = "ERROR" /\ Top.status = "FAILURE"
  BY <1>1, One DEF FrameOK, Late, LastEvent
<1>4. /\ f \in Frames /\ f.pc = p
      /\ f.call = Top.call /\ f.attempts = Top.attempts
      /\ f.events = Top.events
      /\ f.status = (IF last = "SUCCESS" THEN "SUCCESS" ELSE Top.status)
  BY <1>1 DEF Frames, Points
<1>5. LastEvent(f) = last
  BY <1>4 DEF LastEvent
<1> HIDE DEF f, last
<1>6. FrameOK(f)
  BY <1>1, <1>3, <1>4 DEF FrameOK, Early, Late
<1>7. (Holds(Top) => Holds(f)) /\ f.pc \notin {"load", "store"}
  BY <1>1, <1>3, <1>4, <1>5 DEF Holds, Frames, last
<1>8. Shape'
  BY <1>1, <1>2, <1>4, <1>6, BecomeShape
<1>9. Guarded'
  BY <1>1, <1>2, <1>4, <1>7, BecomeGuarded DEF HandlerDone
<1>10. QED
  BY <1>8, <1>9 DEF IInv

LEMMA NextIInv == IInv /\ [Next]_vars => IInv'
<1>1. IInv /\ UNCHANGED vars => IInv'
  BY DEF IInv, Shape, Guarded, vars, Holds, LastEvent, FrameOK
<1>2. QED
  BY <1>1, CallIInv, ReturnIInv, TestIInv, LoadIInv, StoreIInv, ConfirmIInv,
     BeginIInv, EndIInv, DecideIInv, EarlyReleaseIInv, HandlerDoneIInv,
     ReleaseIInv DEF Next

LEMMA Invariance == Spec => []IInv
<1>1. QED
  BY InitIInv, NextIInv, PTL DEF Spec

----------------------------------------------------------------------------
(* The theorems about reads and writes. *)

\* The types of PalI2c hold in every reachable state.
THEOREM TypeCorrect == Spec => []TypeOK
<1>1. IInv => TypeOK
  BY DEF IInv, Shape, Guarded, TypeOK
<1>2. QED
  BY <1>1, Invariance, PTL

\* The bus is free whenever no call of pal_i2c_write or pal_i2c_read is under
\* way, however the calls before nested.
THEOREM BusFreeAtRest == Spec => []FreeAtRest
<1>1. IInv => FreeAtRest
  BY DEF IInv, Guarded, FreeAtRest
<1>2. QED
  BY <1>1, Invariance, PTL

\* Every call answers its upper layer once, in agreement with what it returns.
THEOREM AnsweredOnce == Spec => []OneAnswer
<1>1. IInv => OneAnswer
  BY DEF IInv, Shape, FrameOK, Late, OneAnswer
<1>2. QED
  BY <1>1, Invariance, PTL

----------------------------------------------------------------------------
(* Writes only.  A call that holds the bus keeps every call above it from  *)
(* passing the test, and a release is always the holder's own.             *)

WritesOnly == Calls = {"write"}

HolderAlone ==
  \A i \in DOMAIN stack : Holds(stack[i]) =>
    /\ g_entry_count = 1
    /\ \A j \in DOMAIN stack : j > i =>
         stack[j].pc \in {"test", "handler", "return"} /\ ~Holds(stack[j])

Writes ==
  /\ \A i \in DOMAIN stack : stack[i].call = "write"
  /\ HolderAlone
  /\ RefusedOnlyIfHeld

WInv == IInv /\ Writes

\* The running call does not hold the bus while the word is set: another does.
LEMMA HolderBelow ==
  ASSUME Shape, Guarded, stack # << >>, ~Holds(Top), g_entry_count = 1
  PROVE  \E h \in 1..(Len(stack) - 1) : Holds(stack[h])
BY DEF Shape, Guarded, Top

\* A step of the running call that neither takes nor gives up the bus.
LEMMA BecomeWrites ==
  ASSUME WInv, stack # << >>, NEW f \in Frames, Become(f),
         UNCHANGED g_entry_count,
         f.call = Top.call,
         Holds(f) <=> Holds(Top),
         g_entry_count = 1 /\ ~Holds(Top) => f.pc \in {"test", "handler", "return"},
         f.pc = "handler" /\ LastEvent(f) = "BUSY" =>
           g_entry_count = 1 /\ ~Holds(Top)
  PROVE  Writes'
<1>1. /\ DOMAIN stack = 1..Len(stack) /\ DOMAIN stack' = 1..Len(stack)
      /\ Len(stack) \in Nat \ {0}
      /\ stack'[Len(stack)] = f /\ Top = stack[Len(stack)]
      /\ \A i \in DOMAIN stack : i # Len(stack) => stack'[i] = stack[i]
  BY Became DEF WInv, IInv, Shape, Top
<1>2. \A i \in DOMAIN stack : Holds(stack'[i]) <=> Holds(stack[i])
  BY <1>1
<1>3. \A i \in DOMAIN stack' : stack'[i].call = "write"
  BY <1>1 DEF WInv, Writes
<1>4. \A i \in DOMAIN stack' : Holds(stack'[i]) =>
        /\ g_entry_count' = 1
        /\ \A j \in DOMAIN stack' : j > i =>
             stack'[j].pc \in {"test", "handler", "return"} /\ ~Holds(stack'[j])
  BY <1>1, <1>2 DEF WInv, Writes, HolderAlone
<1>5. ASSUME NEW i \in DOMAIN stack', stack'[i].pc = "handler",
             LastEvent(stack'[i]) = "BUSY"
      PROVE  \E j \in 1..(i - 1) : Holds(stack'[j])
  <2>1. CASE i = Len(stack)
    BY <1>1, <1>2, <1>5, <2>1, HolderBelow DEF WInv, IInv
  <2>2. CASE i # Len(stack)
    BY <1>1, <1>2, <1>5, <2>2 DEF WInv, Writes, RefusedOnlyIfHeld
  <2>3. QED
    BY <2>1, <2>2
<1>6. QED
  BY <1>3, <1>4, <1>5 DEF Writes, HolderAlone, RefusedOnlyIfHeld, Holds, LastEvent

\* No other call holds the bus when the running one has it or is about to
\* take it.
LEMMA NoOther ==
  ASSUME WInv, stack # << >>, Holds(Top) \/ Top.pc = "store"
  PROVE  /\ \A i \in 1..(Len(stack) - 1) : ~Holds(stack[i])
         /\ \A i \in 1..(Len(stack) - 1) :
              ~(stack[i].pc = "handler" /\ LastEvent(stack[i]) = "BUSY")
<1>1. DOMAIN stack = 1..Len(stack) /\ Len(stack) \in Nat \ {0}
  BY DEF WInv, IInv, Shape
<1>2. \A i \in 1..(Len(stack) - 1) : ~Holds(stack[i])
  BY <1>1 DEF WInv, Writes, HolderAlone, Top
<1>3. QED
  BY <1>1, <1>2 DEF WInv, Writes, RefusedOnlyIfHeld

\* A step by which the running call takes the bus, or gives it up.
LEMMA TakeOrGive ==
  ASSUME WInv, stack # << >>, Holds(Top) \/ Top.pc = "store",
         NEW f \in Frames, Become(f), f.call = Top.call,
         Holds(f) => g_entry_count' = 1,
         ~(f.pc = "handler" /\ LastEvent(f) = "BUSY")
  PROVE  Writes'
<1>1. /\ DOMAIN stack = 1..Len(stack) /\ DOMAIN stack' = 1..Len(stack)
      /\ Len(stack) \in Nat \ {0}
      /\ stack'[Len(stack)] = f /\ Top = stack[Len(stack)]
      /\ \A i \in DOMAIN stack : i # Len(stack) => stack'[i] = stack[i]
  BY Became DEF WInv, IInv, Shape, Top
<1>2. \A i \in DOMAIN stack' : stack'[i].call = "write"
  BY <1>1 DEF WInv, Writes
<1>3. \A i \in DOMAIN stack' : Holds(stack'[i]) => g_entry_count' = 1 /\ i = Len(stack)
  BY <1>1, NoOther
<1>4. \A i \in DOMAIN stack' :
        ~(stack'[i].pc = "handler" /\ LastEvent(stack'[i]) = "BUSY")
  BY <1>1, NoOther
<1>5. QED
  BY <1>1, <1>2, <1>3, <1>4
     DEF Writes, HolderAlone, RefusedOnlyIfHeld, Holds, LastEvent

LEMMA RunningWrites ==
  ASSUME WInv, stack # << >>
  PROVE  /\ Top \in Frames /\ FrameOK(Top) /\ Top.call = "write"
         /\ g_entry_count \in {0, 1}
         /\ Holds(Top) => g_entry_count = 1
<1>1. Len(stack) \in DOMAIN stack
  BY DEF WInv, IInv, Shape
<1>2. QED
  BY <1>1, TopFrame DEF WInv, IInv, Guarded, Writes, HolderAlone, Top

LEMMA CallWrites ==
  ASSUME WritesOnly, WInv, NEW c \in Calls, Call(c) PROVE Writes'
<1>1. /\ NewFrame(c) \in Frames /\ NewFrame(c).call = "write"
      /\ NewFrame(c).pc = "test"
  BY CallAssumption DEF NewFrame, Frames, Points, WritesOnly
<1>2. /\ DOMAIN stack = 1..Len(stack) /\ DOMAIN stack' = 1..(Len(stack) + 1)
      /\ Len(stack) \in Nat
      /\ stack'[Len(stack) + 1].call = "write" /\ stack'[Len(stack) + 1].pc = "test"
      /\ \A i \in DOMAIN stack : stack'[i] = stack[i]
  BY <1>1, Pushed DEF Call, WInv, IInv, Shape
<1>3. ~Holds(stack'[Len(stack) + 1])
  BY <1>2 DEF Holds
<1>4. \A i \in DOMAIN stack' : stack'[i].call = "write"
  BY <1>2 DEF WInv, Writes
<1>5. HolderAlone'
  BY <1>2, <1>3 DEF WInv, Writes, HolderAlone, Call, Holds, LastEvent
<1>6. RefusedOnlyIfHeld'
  BY <1>2, <1>3 DEF WInv, Writes, RefusedOnlyIfHeld, Holds, LastEvent
<1>7. QED
  BY <1>4, <1>5, <1>6 DEF Writes

LEMMA ReturnWrites == ASSUME WInv, Return PROVE Writes'
<1>1. /\ DOMAIN stack = 1..Len(stack) /\ DOMAIN stack' = 1..(Len(stack) - 1)
      /\ Len(stack) \in Nat \ {0}
      /\ \A i \in DOMAIN stack' : stack'[i] = stack[i]
  BY Popped DEF Return, At, WInv, IInv, Shape
<1>2. HolderAlone'
  BY <1>1 DEF WInv, Writes, HolderAlone, Return, Holds, LastEvent
<1>3. RefusedOnlyIfHeld'
  <2> SUFFICES ASSUME NEW i \in DOMAIN stack', stack'[i].pc = "handler",
                      LastEvent(stack'[i]) = "BUSY"
               PROVE  \E j \in 1..(i - 1) : Holds(stack'[j])
    BY DEF RefusedOnlyIfHeld, Holds, LastEvent
  <2>1. PICK j \in 1..(i - 1) : Holds(stack[j])
    BY <1>1 DEF WInv, Writes, RefusedOnlyIfHeld
  <2>2. QED
    BY <1>1, <2>1
<1>4. QED
  BY <1>1, <1>2, <1>3 DEF WInv, Writes

LEMMA AcquireWrites ==
  ASSUME WInv, Test \/ Load \/ Store \/ Confirm
  PROVE  Writes'
<1>1. stack # << >> /\ Top.pc \in Early
  BY DEF Test, Load, Store, Confirm, At, Early
<1>2. /\ Top \in Frames /\ Top.call = "write" /\ Top.events = << >>
      /\ g_entry_count \in {0, 1} /\ (Holds(Top) => g_entry_count = 1)
  BY <1>1, RunningWrites DEF FrameOK, Early, Late
<1>3. CASE Test /\ g_entry_count = 0
  <2> DEFINE f == [Top EXCEPT !.pc = "load"]
  <2>1. Become(f) /\ Moved(f, "load") /\ UNCHANGED g_entry_count /\ Top.pc = "test"
    BY <1>2, <1>3, MovedFrame DEF Test, At, Move, Points
  <2> HIDE DEF f
  <2>2. QED
    BY <1>1, <1>3, <2>1, BecomeWrites DEF Moved, Holds
<1>4. CASE Test /\ g_entry_count = 1
  <2>1. /\ Become(Refused) /\ UNCHANGED g_entry_count /\ Top.pc = "test"
        /\ Reports(Refused, "BUSY", "I2C_BUSY")
    BY <1>2, <1>4, RefusedFrame DEF Test, At
  <2>2. ~Holds(Refused) /\ ~Holds(Top)
    BY <1>2, <2>1, One DEF Holds, LastEvent, Reports
  <2>3. QED
    BY <1>1, <1>2, <1>4, <2>1, <2>2, BecomeWrites DEF Reports
<1>5. CASE Load
  <2> DEFINE f == [Top EXCEPT !.pc = "store", !.reg = g_entry_count]
  <2>1. Become(f) /\ UNCHANGED g_entry_count /\ Top.pc = "load"
    BY <1>5 DEF Load, At
  <2>2. g_entry_count = 0
    BY <1>1, <1>2, <2>1 DEF WInv, IInv, Guarded, Shape, Top, Holds
  <2>3. f \in Frames /\ f.pc = "store" /\ f.call = Top.call
    BY <1>2, <2>2 DEF Frames, Points
  <2> HIDE DEF f
  <2>4. QED
    BY <1>1, <2>1, <2>2, <2>3, BecomeWrites DEF Holds
<1>6. CASE Store
  <2> DEFINE f == [Top EXCEPT !.pc = "confirm"]
  <2>1. Become(f) /\ Moved(f, "confirm") /\ Top.pc = "store"
    BY <1>2, <1>6, MovedFrame DEF Store, At, Move, Points
  <2>2. g_entry_count' = 1
    BY <1>1, <1>6, <2>1, TopFrame DEF Store, WInv, IInv, FrameOK
  <2> HIDE DEF f
  <2>3. QED
    BY <1>1, <2>1, <2>2, TakeOrGive DEF Moved
<1>7. CASE Confirm
  <2> DEFINE f == [Top EXCEPT !.pc = "begin"]
  <2>1. Top.pc = "confirm" /\ Holds(Top) /\ g_entry_count = 1
    BY <1>2, <1>7 DEF Confirm, At, Holds
  <2>2. Become(f) /\ Moved(f, "begin") /\ UNCHANGED g_entry_count
    BY <1>2, <1>7, <2>1, MovedFrame DEF Confirm, Move, Points
  <2> HIDE DEF f
  <2>3. QED
    BY <1>1, <2>1, <2>2, BecomeWrites DEF Moved, Holds
<1>8. QED
  BY <1>2, <1>3, <1>4, <1>5, <1>6, <1>7

LEMMA TransferWrites ==
  ASSUME WInv, Begin \/ End \/ Decide
  PROVE  Writes'
<1>1. /\ stack # << >> /\ Top.pc \in {"begin", "transfer", "decide"}
      /\ Holds(Top) /\ UNCHANGED g_entry_count
  BY DEF Begin, End, Decide, At, Holds
<1>2. Top \in Frames /\ Top.call = "write" /\ Top.events = << >> /\ FrameOK(Top)
  BY <1>1, RunningWrites DEF FrameOK, Late
<1>3. CASE Begin
  <2> DEFINE f == [Top EXCEPT !.pc = "transfer", !.attempts = @ + 1]
  <2>1. Top.attempts + 1 \in 0..MaxAttempts
    BY <1>2, <1>3, CallAssumption DEF Begin, At, Frames, FrameOK
  <2>2. Become(f) /\ f \in Frames /\ f.pc = "transfer" /\ f.call = Top.call
    BY <1>2, <1>3, <2>1 DEF Begin, Frames, Points
  <2> HIDE DEF f
  <2>3. QED
    BY <1>1, <2>2, BecomeWrites DEF Holds
<1>4. CASE End
  <2>1. PICK failed \in BOOLEAN :
          Become([Top EXCEPT
            !.failed = failed,
            !.pc = IF failed /\ Top.call = "write" /\ Top.attempts < MaxAttempts
                   THEN "begin" ELSE "decide"])
    BY <1>4 DEF End
  <2> DEFINE again == failed /\ Top.call = "write" /\ Top.attempts < MaxAttempts
             f == [Top EXCEPT !.failed = failed,
                              !.pc = IF again THEN "begin" ELSE "decide"]
  <2>2. f \in Frames /\ f.pc \in {"begin", "decide"} /\ f.call = Top.call
    BY <1>2 DEF Frames, Points
  <2>3. Become(f)
    BY <2>1
  <2> HIDE DEF f
  <2>4. QED
    BY <1>1, <2>2, <2>3, BecomeWrites DEF Holds
<1>5. CASE Decide /\ Top.failed
  <2> DEFINE f == [Top EXCEPT !.pc = "handler", !.events = Append(@, "ERROR")]
  <2>1. Become(f) /\ Reports(f, "ERROR", Top.status)
    BY <1>2, <1>5, ReportingFrame DEF Decide, Events
  <2> HIDE DEF f
  <2>2. Holds(f) /\ LastEvent(f) # "BUSY"
    BY <2>1, One DEF Reports, Holds, LastEvent
  <2>3. QED
    BY <1>1, <2>1, <2>2, BecomeWrites DEF Reports
<1>6. CASE Decide /\ ~Top.failed
  <2> DEFINE f == [Top EXCEPT !.pc = "early_release"]
  <2>1. Become(f) /\ Moved(f, "early_release")
    BY <1>2, <1>6, MovedFrame DEF Decide, Move, Points
  <2> HIDE DEF f
  <2>2. QED
    BY <1>1, <2>1, BecomeWrites DEF Moved, Holds
<1>7. QED
  BY <1>3, <1>4, <1>5, <1>6

LEMMA ReleaseWrites ==
  ASSUME WInv, EarlyRelease \/ HandlerDone \/ Release
  PROVE  Writes'
<1>1. stack # << >>
  BY DEF EarlyRelease, HandlerDone, Release, At
<1>2. Top \in Frames /\ Top.call = "write" /\ FrameOK(Top)
  BY <1>1, RunningWrites
<1>3. CASE EarlyRelease
  <2> DEFINE f == [Top EXCEPT !.pc = "handler", !.events = Append(@, "SUCCESS")]
  <2>1. Become(f) /\ Holds(Top) /\ Top.events = << >>
    BY <1>2, <1>3 DEF EarlyRelease, At, Holds, FrameOK, Late
  <2>2. Reports(f, "SUCCESS", Top.status)
    BY <1>2, <2>1, ReportingFrame DEF Events
  <2> HIDE DEF f
  <2>3. ~Holds(f) /\ LastEvent(f) # "BUSY"
    BY <1>2, <2>2, One DEF Reports, Holds, LastEvent
  <2>4. QED
    BY <1>1, <2>1, <2>2, <2>3, TakeOrGive DEF Reports
<1>4. CASE HandlerDone
  <2> DEFINE last == LastEvent(Top)
             p == IF last = "ERROR" THEN "release"
                  ELSE IF Top.call = "read" THEN "last_release" ELSE "return"
             f == [Top EXCEPT
                    !.status = IF last = "SUCCESS" THEN "SUCCESS" ELSE @,
                    !.pc = p]
  <2>1. Become(f) /\ UNCHANGED g_entry_count /\ Top.pc = "handler"
    BY <1>4 DEF HandlerDone, At
  <2>2. f \in Frames /\ f.pc = (IF last = "ERROR" THEN "release" ELSE "return")
        /\ f.call = Top.call
    BY <1>2 DEF Frames, Points
  <2> HIDE DEF f
  <2>3. (Holds(f) <=> Holds(Top)) /\ (~Holds(Top) => f.pc = "return")
    BY <1>2, <2>1, <2>2 DEF Holds
  <2>4. QED
    BY <1>1, <2>1, <2>2, <2>3, BecomeWrites
<1>5. CASE Release
  <2> DEFINE f == [Top EXCEPT !.pc = "return"]
  <2>1. Top.pc = "release"
    BY <1>2, <1>5 DEF Release, At, FrameOK
  <2>2. Become(f) /\ Holds(Top) /\ Moved(f, "return")
    BY <1>2, <1>5, <2>1, MovedFrame DEF Release, Move, Holds, Points
  <2> HIDE DEF f
  <2>3. QED
    BY <1>1, <2>2, TakeOrGive DEF Moved, Holds
<1>6. QED
  BY <1>3, <1>4, <1>5

LEMMA WritesInvariance == ASSUME WritesOnly PROVE Spec => []WInv
<1>1. Init => WInv
  BY InitIInv DEF Init, WInv, Writes, HolderAlone, RefusedOnlyIfHeld
<1>2. ASSUME WInv, [Next]_vars PROVE WInv'
  <2>1. IInv'
    BY <1>2, NextIInv DEF WInv
  <2>2. CASE UNCHANGED vars
    BY <1>2, <2>2
       DEF WInv, IInv, Shape, Guarded, Writes, HolderAlone, RefusedOnlyIfHeld,
           vars, Holds, LastEvent, FrameOK
  <2>3. CASE Next
    <3>1. Writes'
      BY <1>2, <2>3, CallWrites, ReturnWrites, AcquireWrites, TransferWrites,
         ReleaseWrites DEF Next
    <3>2. QED
      BY <2>1, <3>1 DEF WInv
  <2>4. QED
    BY <1>2, <2>2, <2>3
<1>3. QED
  BY <1>1, <1>2, PTL DEF Spec

\* As long as the upper layer only writes, at most one transfer is under way,
\* at any depth of nesting.
THEOREM WritesExclude ==
  ASSUME WritesOnly PROVE Spec => []OneTransfer
<1>1. WInv => OneTransfer
  BY DEF WInv, IInv, Shape, Writes, HolderAlone, OneTransfer, Holds
<1>2. QED
  BY <1>1, WritesInvariance, PTL

\* A write is refused only under a call that holds the bus.
THEOREM WritesRefusedRightly ==
  ASSUME WritesOnly PROVE Spec => []RefusedOnlyIfHeld
<1>1. WInv => RefusedOnlyIfHeld
  BY DEF WInv, Writes
<1>2. QED
  BY <1>1, WritesInvariance, PTL

----------------------------------------------------------------------------
(* A step works on the running call, which comes nearer to its return.     *)

LEMMA BecomeAdvances ==
  ASSUME Shape, stack # << >>, NEW f \in Frames, Become(f),
         StepsToReturn(f) < StepsToReturn(Top)
  PROVE  CallAdvances
BY Became DEF Shape, CallAdvances, Top

\* All but the attempts, of which only MaxAttempts are left.
LEMMA PortAdvances ==
  ASSUME IInv, Next
  PROVE  CallAdvances
<1> USE DEF At
<1>1. CASE \E c \in Calls : Call(c)
  <2>1. PICK c \in Calls : Call(c)
    BY <1>1
  <2>2. NewFrame(c) \in Frames
    BY CallAssumption DEF NewFrame, Frames, Points
  <2>3. QED
    BY <2>1, <2>2, Pushed DEF Call, IInv, Shape, CallAdvances
<1>2. CASE Return
  BY <1>2, Popped DEF Return, IInv, Shape, CallAdvances
<1> SUFFICES ASSUME stack # << >>,
                    Test \/ Load \/ Store \/ Confirm \/ Begin \/ End \/ Decide
                      \/ EarlyRelease \/ HandlerDone \/ Release
             PROVE  CallAdvances
  BY <1>1, <1>2 DEF Next, Test, Load, Store, Confirm, Begin, End, Decide,
                    EarlyRelease, HandlerDone, Release
<1>3. /\ Shape /\ Top \in Frames /\ FrameOK(Top) /\ g_entry_count \in Nat
      /\ Top.attempts \in 0..MaxAttempts /\ MaxAttempts \in Nat \ {0}
  BY TopFrame, CallAssumption DEF IInv, Guarded, Frames
<1>4. ASSUME NEW f \in Frames, Become(f), StepsToReturn(f) < StepsToReturn(Top)
      PROVE  CallAdvances
  BY <1>3, <1>4, BecomeAdvances
<1>5. ASSUME NEW p \in Points, Move(p)
      PROVE  \E f \in Frames : Become(f) /\ f.pc = p /\ f.attempts = Top.attempts
  BY <1>3, <1>5, MovedFrame DEF Move, Moved
<1>6. ASSUME NEW e \in Events,
             Become([Top EXCEPT !.pc = "handler", !.events = Append(@, e)])
      PROVE  \E f \in Frames : Become(f) /\ f.pc = "handler"
  <2> DEFINE f == [Top EXCEPT !.pc = "handler", !.events = Append(@, e)]
  <2>1. Append(Top.events, e) \in Seq(Events)
    BY <1>3 DEF Frames
  <2>2. f \in Frames /\ f.pc = "handler"
    BY <1>3, <2>1 DEF Frames, Points
  <2>3. QED
    BY <1>6, <2>2
<1>7. ASSUME Become(Refused)
      PROVE  \E f \in Frames : Become(f) /\ f.pc = "handler"
  <2>1. Append(Top.events, "BUSY") \in Seq(Events)
    BY <1>3 DEF Frames, Events
  <2>2. Refused \in Frames /\ Refused.pc = "handler"
    BY <1>3, <2>1 DEF Refused, Frames, Points
  <2>3. QED
    BY <1>7, <2>2
<1>8. CASE Test \/ Confirm
  <2>1. /\ Top.pc \in {"test", "confirm"}
        /\ \E f \in Frames :
             /\ Become(f)
             /\ \/ f.pc = "handler"
                \/ /\ f.attempts = Top.attempts
                   /\ \/ Top.pc = "test" /\ f.pc = "load"
                      \/ Top.pc = "confirm" /\ f.pc = "begin"
    BY <1>5, <1>7, <1>8 DEF Test, Confirm, Points
  <2>2. QED
    BY <1>3, <1>4, <2>1 DEF StepsToReturn
<1>9. CASE Load
  <2> DEFINE f == [Top EXCEPT !.pc = "store", !.reg = g_entry_count]
  <2>1. Become(f) /\ f \in Frames /\ f.pc = "store" /\ Top.pc = "load"
    BY <1>3, <1>9 DEF Load, Frames, Points
  <2> HIDE DEF f
  <2>2. QED
    BY <1>3, <1>4, <2>1 DEF StepsToReturn
<1>10. CASE Store
  <2>1. Top.pc = "store" /\ \E f \in Frames : Become(f) /\ f.pc = "confirm"
    BY <1>5, <1>10 DEF Store, Points
  <2>2. QED
    BY <1>3, <1>4, <2>1 DEF StepsToReturn
<1>11. CASE Begin
  <2> DEFINE f == [Top EXCEPT !.pc = "transfer", !.attempts = @ + 1]
  <2>1. Top.pc = "begin" /\ Top.attempts + 1 \in 0..MaxAttempts /\ Become(f)
    BY <1>3, <1>11 DEF Begin, FrameOK
  <2>2. f \in Frames /\ f.pc = "transfer" /\ f.attempts = Top.attempts + 1
    BY <1>3, <2>1 DEF Frames, Points
  <2> HIDE DEF f
  <2>3. /\ StepsToReturn(Top) = 2 * (MaxAttempts - Top.attempts) + 5
        /\ StepsToReturn(f) = 2 * (MaxAttempts - f.attempts) + 6
    BY <2>1, <2>2 DEF StepsToReturn
  <2>4. StepsToReturn(f) < StepsToReturn(Top)
    BY <1>3, <2>2, <2>3
  <2>5. QED
    BY <1>4, <2>1, <2>2, <2>4
<1>12. CASE End
  <2>1. PICK failed \in BOOLEAN :
          Become([Top EXCEPT
            !.failed = failed,
            !.pc = IF failed /\ Top.call = "write" /\ Top.attempts < MaxAttempts
                   THEN "begin" ELSE "decide"])
    BY <1>12 DEF End
  <2> DEFINE f == [Top EXCEPT
                    !.failed = failed,
                    !.pc = IF failed /\ Top.call = "write" /\ Top.attempts < MaxAttempts
                           THEN "begin" ELSE "decide"]
  <2>2. /\ f \in Frames /\ f.pc \in {"begin", "decide"}
        /\ f.attempts = Top.attempts /\ Top.pc = "transfer"
    BY <1>3, <1>12 DEF End, Frames, Points
  <2>3. Become(f)
    BY <2>1
  <2> HIDE DEF f
  <2>4. /\ StepsToReturn(Top) = 2 * (MaxAttempts - Top.attempts) + 6
        /\ f.pc = "begin" => StepsToReturn(f) = 2 * (MaxAttempts - f.attempts) + 5
        /\ f.pc = "decide" => StepsToReturn(f) = 5
    BY <2>2 DEF StepsToReturn
  <2>5. StepsToReturn(f) < StepsToReturn(Top)
    BY <1>3, <2>2, <2>4
  <2>6. QED
    BY <1>4, <2>2, <2>3, <2>5
<1>13. CASE Decide \/ EarlyRelease
  <2>1. /\ Top.pc \in {"decide", "early_release"}
        /\ \E f \in Frames :
             /\ Become(f)
             /\ \/ f.pc = "handler"
                \/ Top.pc = "decide" /\ f.pc = "early_release"
    BY <1>5, <1>6, <1>13 DEF Decide, EarlyRelease, Points, Events
  <2>2. QED
    BY <1>4, <2>1 DEF StepsToReturn
<1>14. CASE HandlerDone
  <2> DEFINE f == [Top EXCEPT
               !.status = IF LastEvent(Top) = "SUCCESS" THEN "SUCCESS" ELSE @,
               !.pc = IF LastEvent(Top) = "ERROR" THEN "release"
                      ELSE IF Top.call = "read" THEN "last_release" ELSE "return"]
  <2>1. /\ Become(f) /\ f \in Frames /\ Top.pc = "handler"
        /\ f.pc \in {"release", "last_release", "return"}
    BY <1>3, <1>14 DEF HandlerDone, Frames, Points
  <2> HIDE DEF f
  <2>2. QED
    BY <1>4, <2>1 DEF StepsToReturn
<1>15. CASE Release
  <2>1. \E f \in Frames :
          /\ Become(f)
          /\ \/ Top.pc = "release" /\ f.pc \in {"last_release", "return"}
             \/ Top.pc = "last_release" /\ f.pc = "return"
    BY <1>5, <1>15 DEF Release, Points
  <2>2. QED
    BY <1>4, <2>1 DEF StepsToReturn
<1>16. QED
  BY <1>8, <1>9, <1>10, <1>11, <1>12, <1>13, <1>14, <1>15
=============================================================================
