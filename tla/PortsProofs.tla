---------------------------- MODULE PortsProofs ----------------------------
(***************************************************************************)
(* Proofs about the components that work alone: initialisation of the I2C  *)
(* master, rows of printArray16 for every length, the data store for       *)
(* buffers and values of every size, the clocks for words of every size,   *)
(* and the digits of every version.                                        *)
(***************************************************************************)
EXTENDS PrintArray16, PalOsDatastore, I2cInit, PalOsTimer, Formats,
        SequenceTheorems, TLAPS

----------------------------------------------------------------------------
(* Initialisation.  The interrupt is enabled only while the context has    *)
(* its callback, and from the clock's configuration on the divider is the  *)
(* one for the clock that was found, if that has a case.                   *)

Enabled ==
  /\ irq = "enabled" => /\ step \in {"return", "deinit", "intr_off", "enable"}
                        /\ isr = "I2CMaster_ISR" /\ context = "callback"
  /\ step = "intr_on" => context = "callback"
  /\ taken \in {"nothing", "callback"}

Clocked ==
  scb = "on" \/ step \in {"scb_init", "rate", "callback", "intr_on", "enable", "stuck"}
    => (peri \in PeriClocks => divider = Divider(peri))

LEMMA DividerIs ==
  ASSUME NEW f \in PeriClocks
  PROVE  f =< I2C_INCLK_TARGET_FREQ * (Divider(f) + 1)
<1>1. /\ Divider(50000) = 15 /\ Divider(60000) = 19
      /\ Divider(75000) = 24 /\ Divider(100000) = 32
  BY DEF Divider
<1>2. f \in {50000, 60000, 75000, 100000}
  BY DEF PeriClocks
<1>3. QED
  BY <1>1, <1>2 DEF I2C_INCLK_TARGET_FREQ

LEMMA InitSteps ==
  ASSUME Enabled, Clocked, [InitNext]_initVars
  PROVE  Enabled' /\ Clocked'
<1> USE DEF Enabled, Clocked
<1>1. CASE PalInit \/ SetBitrate \/ DeInit \/ InterruptOff
  BY <1>1 DEF PalInit, SetBitrate, DeInit, InterruptOff, initVars
<1>2. CASE ConfigureSCB0Clock \/ ScbInit \/ SetDataRate \/ Stuck
  BY <1>2 DEF ConfigureSCB0Clock, ScbInit, SetDataRate, Stuck, initVars
<1>3. CASE RegisterCallback \/ InterruptOn \/ Enable \/ I2CMaster_ISR
  BY <1>3 DEF RegisterCallback, InterruptOn, Enable, I2CMaster_ISR,
              Scb0i2cMasterEvent
<1>4. CASE UNCHANGED initVars
  BY <1>4 DEF initVars
<1>5. QED
  BY <1>1, <1>2, <1>3, <1>4 DEF InitNext

LEMMA InitInvariant == InitSpec => [](Enabled /\ Clocked)
<1>1. InitInit => Enabled /\ Clocked
  BY DEF InitInit, Enabled, Clocked
<1>2. QED
  BY <1>1, InitSteps, PTL DEF InitSpec

\* No interrupt is served without its vector and an initialised context.
THEOREM InterruptsServed == InitSpec => []ServedWhole
<1>1. Enabled => ServedWhole
  BY DEF Enabled, ServedWhole
<1>2. QED
  BY <1>1, InitInvariant, PTL

\* The block is never on with a clock above the one its rate is set for, if
\* PERI has a clock that ConfigureSCB0Clock has a case for, whatever clocks
\* without a case earlier initialisations found.
THEOREM RateIsKept == InitSpec => []RateKept
<1>1. Clocked => RateKept
  BY DividerIs DEF Clocked, RateKept
<1>2. QED
  BY <1>1, InitInvariant, PTL

----------------------------------------------------------------------------
(* printArray16.  Each row goes on where the one before it ended; with a   *)
(* header what is left is a multiple of sixteen, without one what was      *)
(* printed is, until the last row.                                         *)

Rows == [from : Nat, to : Nat]

RowAt(k, width) ==
  /\ rows[k].from = IF k = 1 THEN 0 ELSE rows[k - 1].to
  /\ rows[k].to - rows[k].from = width

Headed ==
  /\ \A k \in DOMAIN rows : RowAt(k, IF rem # 0 /\ k = 1 THEN rem ELSE Width)
  /\ line # "head" => (length - Start) % Width = 0

Unheaded ==
  /\ \A k \in DOMAIN rows : RowAt(k, IF rem # 0 /\ rows[k].to = length THEN rem ELSE Width)
  /\ \A k \in DOMAIN rows : k < Len(rows) => rows[k].to < length
  /\ Start % Width = 0 \/ Start = length

Where ==
  CASE line = "idle" -> rows = << >> /\ length = 0
    [] line = "head" -> rows = << >> /\ i =< rem /\ (header = "no" => i = 0)
    [] line = "rows" -> i = Start
    [] line = "row"  -> i = Start + j /\ j =< Width /\ Start < length
    [] line = "done" -> i = Start /\ i = length

ArrayTypes ==
  /\ line \in {"idle", "head", "rows", "row", "done"}
  /\ length \in Nat /\ i \in Nat /\ j \in Nat /\ i =< length
  /\ header \in {"yes", "no"}
  /\ rows \in Seq(Rows)

ArrayIInv ==
  /\ ArrayTypes /\ Where
  /\ line # "idle" => IF header = "yes" THEN Headed ELSE Unheaded

LEMMA RemIs ==
  ASSUME length \in Nat
  PROVE  rem \in 0..(Width - 1) /\ (length - rem) % Width = 0 /\ rem =< length
BY DEF rem, Width

\* Start and the row before k, without the sequence.
LEMMA StartIs ==
  ASSUME rows \in Seq(Rows)
  PROVE  /\ Start \in Nat /\ Len(rows) \in Nat /\ DOMAIN rows = 1..Len(rows)
         /\ rows = << >> => Start = 0
         /\ rows # << >> => Len(rows) > 0 /\ Start = rows[Len(rows)].to
         /\ \A k \in DOMAIN rows : rows[k] \in Rows
<1>1. /\ Len(rows) \in Nat /\ DOMAIN rows = 1..Len(rows)
      /\ rows # << >> => Len(rows) > 0
      /\ \A k \in DOMAIN rows : rows[k] \in Rows
  OBVIOUS
<1>2. \A k \in DOMAIN rows : rows[k].to \in Nat
  BY <1>1 DEF Rows
<1>3. rows # << >> => Len(rows) \in DOMAIN rows
  BY <1>1
<1>4. QED
  BY <1>1, <1>2, <1>3 DEF Start

LEMMA Ended ==
  ASSUME rows \in Seq(Rows), i \in Nat, i' = i, EndRow
  PROVE  LET n == Len(rows) + 1 IN
         /\ rows' \in Seq(Rows) /\ rows' # << >>
         /\ Len(rows') = n /\ DOMAIN rows' = 1..n
         /\ rows'[n] = [from |-> Start, to |-> i] /\ Start' = i
         /\ \A k \in DOMAIN rows : rows'[k] = rows[k]
<1> DEFINE r == [from |-> Start, to |-> i]
<1>1. r \in Rows /\ r.to = i
  BY StartIs DEF Rows
<1>2. rows' = Append(rows, r)
  BY DEF EndRow
<1> HIDE DEF r
<1>3. /\ rows' \in Seq(Rows) /\ rows' # << >> /\ Len(rows') = Len(rows) + 1
      /\ DOMAIN rows' = 1..(Len(rows) + 1) /\ rows'[Len(rows) + 1] = r
      /\ \A k \in 1..Len(rows) : rows'[k] = rows[k]
  BY <1>1, <1>2
<1>4. Start' = i
  BY <1>1, <1>3, StartIs DEF Start
<1>5. QED
  BY <1>3, <1>4, StartIs DEF r

\* A row appended with this width leaves the others where they are.
LEMMA EndedAt ==
  ASSUME rows \in Seq(Rows), i \in Nat, i' = i, EndRow, NEW w \in Nat, i - Start = w,
         NEW n \in Nat, n = Len(rows) + 1
  PROVE  /\ RowAt(n, w)'
         /\ \A k \in DOMAIN rows : \A v \in Nat : RowAt(k, v) => RowAt(k, v)'
<1>1. RowAt(n, w)'
  <2>1. rows'[n].from = Start /\ rows'[n].to = i /\ Len(rows') = n
    BY Ended
  <2>2. ASSUME n # 1 PROVE rows'[n - 1].to = Start /\ n - 1 \in DOMAIN rows
    <3>1. Len(rows) \in DOMAIN rows /\ rows # << >> /\ n - 1 = Len(rows)
      BY <2>2, StartIs
    <3>2. QED
      BY <3>1, StartIs, Ended
  <2>3. n = 1 => Start = 0
    BY StartIs
  <2>4. QED
    BY <2>1, <2>2, <2>3 DEF RowAt
<1>2. ASSUME NEW k \in DOMAIN rows, NEW v \in Nat, RowAt(k, v) PROVE RowAt(k, v)'
  <2>1. k > 1 => k - 1 \in DOMAIN rows
    BY StartIs
  <2>2. rows'[k] = rows[k] /\ (k > 1 => rows'[k - 1] = rows[k - 1])
    BY <2>1, Ended
  <2>3. QED
    BY <1>2, <2>2, StartIs DEF RowAt
<1>3. QED
  BY <1>1, <1>2

LEMMA ArrayInitIInv == ArrayInit => ArrayIInv
BY DEF ArrayInit, ArrayIInv, ArrayTypes, Where

\* The first row, of the remainder, if there is a header and a remainder.
LEMMA HeadDoneIInv == ASSUME ArrayIInv, HeadDone PROVE ArrayIInv'
<1>1. /\ line = "head" /\ line' = "rows" /\ rows = << >> /\ rows \in Seq(Rows)
      /\ UNCHANGED <<length, header, i, j>> /\ i =< rem /\ length \in Nat /\ i \in Nat
      /\ j \in Nat /\ i =< length /\ header \in {"yes", "no"} /\ (header = "no" => i = 0)
  BY DEF HeadDone, ArrayIInv, ArrayTypes, Where
<1>2. rem' = rem /\ rem \in 0..(Width - 1) /\ (length - rem) % Width = 0
  BY <1>1, RemIs DEF rem
<1>3. Start = 0 /\ Len(rows) = 0 /\ DOMAIN rows = {}
  BY <1>1 DEF Start
<1>4. CASE rem # 0 /\ header = "yes"
  <2>1. i = rem /\ EndRow
    BY <1>1, <1>2, <1>4 DEF HeadDone, Heading
  <2>2. /\ rows' \in Seq(Rows) /\ DOMAIN rows' = 1..1 /\ Start' = i
    BY <1>1, <1>3, <2>1, Ended
  <2>3. RowAt(1, rem)'
    <3>1. \A w \in Nat : i - Start = w => RowAt(1, w)'
      BY <1>1, <1>3, <2>1, EndedAt
    <3>2. \A w \in Nat : w = rem => RowAt(1, w)'
      BY <1>1, <1>3, <2>1, <3>1
    <3>3. QED
      BY <1>1, <1>2, <3>2, <2>1 DEF RowAt
  <2>4. Headed'
    BY <1>1, <1>2, <1>4, <2>1, <2>2, <2>3 DEF Headed
  <2>5. QED
    BY <1>1, <1>4, <2>2, <2>4 DEF ArrayIInv, ArrayTypes, Where
<1>5. CASE ~(rem # 0 /\ header = "yes")
  <2>1. rows' = rows /\ i = 0 /\ Start' = 0
    BY <1>1, <1>2, <1>3, <1>5 DEF HeadDone, Start
  <2>2. IF header' = "yes" THEN Headed' ELSE Unheaded'
    BY <1>1, <1>2, <1>3, <1>5, <2>1 DEF Headed, Unheaded, Width
  <2>3. QED
    BY <1>1, <2>1, <2>2 DEF ArrayIInv, ArrayTypes, Where
<1>6. QED
  BY <1>4, <1>5

LEMMA MultipleOf16 ==
  ASSUME NEW m \in Nat, m % 16 = 0, NEW k \in 0..16
  PROVE  /\ m > 0 => m >= 16
         /\ (m + 16) % 16 = 0
         /\ m >= 16 => (m - 16) % 16 = 0
         /\ k < 16 => (m + k) % 16 = k
         /\ (m + k) % 16 = 0 /\ k > 0 => k = 16
OBVIOUS

LEMMA RowEndIInv == ASSUME ArrayIInv, RowEnd PROVE ArrayIInv'
<1>1. /\ line = "row" /\ line' = "rows" /\ j' = 0 /\ EndRow
      /\ UNCHANGED <<length, header, i>>
      /\ j >= Width \/ i >= length
      /\ i = Start + j /\ j =< Width /\ Start < length /\ i =< length
      /\ i \in Nat /\ j \in Nat /\ length \in Nat /\ rows \in Seq(Rows)
      /\ header \in {"yes", "no"}
  BY DEF RowEnd, ArrayIInv, ArrayTypes, Where
<1>2. Start \in Nat /\ Len(rows) \in Nat /\ DOMAIN rows = 1..Len(rows)
  BY <1>1, StartIs
<1>3. PICK n \in Nat : n = Len(rows) + 1
  BY <1>2
<1>4. /\ rows' \in Seq(Rows) /\ rows' # << >> /\ Len(rows') = n /\ DOMAIN rows' = 1..n
      /\ rows'[n].to = i /\ Start' = i
      /\ \A k \in DOMAIN rows : rows'[k] = rows[k]
  BY <1>1, <1>3, Ended
<1>a. PICK w \in Nat : w = j
  BY <1>1
<1>5. /\ RowAt(n, w)'
      /\ \A k \in DOMAIN rows : \A v \in Nat : RowAt(k, v) => RowAt(k, v)'
  <2>1. i - Start = w
    BY <1>1, <1>2, <1>a
  <2>2. QED
    BY <1>1, <1>3, <2>1, EndedAt
<1>6. rem' = rem /\ rem \in 0..(Width - 1) /\ rem = length % 16
  BY <1>1, RemIs DEF rem, Width
<1>7. CASE header = "yes"
  <2>1. Headed /\ (length - Start) % 16 = 0 /\ length - Start \in Nat
        /\ length - Start > 0
    BY <1>1, <1>2, <1>7 DEF ArrayIInv, Headed, Width
  <2>2. w = 16 /\ (length - i) % 16 = 0
    <3>1. length - Start >= 16 /\ (length - Start - 16) % 16 = 0
      BY <2>1, MultipleOf16
    <3>2. j = 16
      BY <1>1, <1>2, <3>1 DEF Width
    <3>3. length - i = length - Start - 16
      BY <1>1, <1>2, <3>2
    <3>4. QED
      BY <1>a, <3>1, <3>2, <3>3
  <2>3. ~(rem # 0 /\ n = 1)
    <3>1. n = 1 => Start = 0
      BY <1>1, <1>2, <1>3, StartIs
    <3>2. QED
      BY <1>1, <1>6, <2>1, <3>1
  <2>4. Headed'
    <3>1. ASSUME NEW k \in DOMAIN rows'
          PROVE  RowAt(k, IF rem # 0 /\ k = 1 THEN rem ELSE Width)'
      <4>1. CASE k = n
        BY <1>5, <1>6, <2>2, <2>3, <4>1 DEF RowAt, Width
      <4>2. CASE k # n
        <5>1. k \in DOMAIN rows
          BY <1>2, <1>3, <1>4, <4>2
        <5>2. ASSUME NEW v \in Nat, v = IF rem # 0 /\ k = 1 THEN rem ELSE Width
              PROVE  RowAt(k, v)'
          <6>1. RowAt(k, v)
            BY <2>1, <5>1, <5>2 DEF Headed
          <6>2. QED
            BY <1>5, <5>1, <6>1
        <5>3. (IF rem # 0 /\ k = 1 THEN rem ELSE Width) \in Nat
          BY <1>6 DEF Width
        <5>4. QED
          BY <1>6, <5>2, <5>3 DEF RowAt
      <4>3. QED
        BY <4>1, <4>2
    <3>2. QED
      BY <1>1, <1>4, <2>2, <3>1 DEF Headed, Width
  <2>5. QED
    BY <1>1, <1>4, <1>7, <2>4 DEF ArrayIInv, ArrayTypes, Where
<1>8. CASE header = "no"
  <2>1. Unheaded /\ Start % 16 = 0
    BY <1>1, <1>8 DEF ArrayIInv, Unheaded, Width
  <2>2. /\ w = IF rem # 0 /\ i = length THEN rem ELSE 16
        /\ i % 16 = 0 \/ i = length
    <3>1. CASE i = length
      <4>1. length = Start + j /\ j \in 0..16 /\ j > 0
        BY <1>1, <1>2, <3>1 DEF Width
      <4>2. IF j < 16 THEN rem = j ELSE rem = 0
        BY <1>2, <1>6, <2>1, <4>1, MultipleOf16
      <4>3. QED
        BY <1>a, <3>1, <4>1, <4>2
    <3>2. CASE i # length
      <4>1. j = 16 /\ i = Start + 16
        BY <1>1, <3>2 DEF Width
      <4>2. QED
        BY <1>2, <1>a, <2>1, <3>2, <4>1, MultipleOf16
    <3>3. QED
      BY <3>1, <3>2
  <2>3. ASSUME NEW k \in DOMAIN rows'
        PROVE  /\ RowAt(k, IF rem # 0 /\ rows[k].to = length THEN rem ELSE Width)'
               /\ k < Len(rows') => rows'[k].to < length
    <3>1. CASE k = n
      BY <1>1, <1>3, <1>4, <1>5, <1>6, <2>2, <3>1 DEF RowAt, Width
    <3>2. CASE k # n
      <4>1. k \in DOMAIN rows /\ rows'[k] = rows[k]
        BY <1>2, <1>3, <1>4, <3>2
      <4>2. ASSUME NEW v \in Nat,
                   v = IF rem # 0 /\ rows[k].to = length THEN rem ELSE Width
            PROVE  RowAt(k, v)'
        <5>1. RowAt(k, v)
          BY <2>1, <4>1, <4>2 DEF Unheaded
        <5>2. QED
          BY <1>5, <4>1, <5>1
      <4>3. (IF rem # 0 /\ rows[k].to = length THEN rem ELSE Width) \in Nat
        BY <1>6 DEF Width
      <4>4. RowAt(k, IF rem # 0 /\ rows[k].to = length THEN rem ELSE Width)'
        BY <1>1, <1>6, <4>1, <4>2, <4>3 DEF RowAt
      <4>5. rows[k].to < length
        <5>1. CASE k < Len(rows)
          BY <2>1, <4>1, <5>1 DEF Unheaded
        <5>2. CASE k = Len(rows)
          <6>1. rows # << >>
            BY <1>2, <4>1
          <6>2. QED
            BY <1>1, <5>2, <6>1, StartIs
        <5>3. QED
          BY <1>2, <4>1, <5>1, <5>2
      <4>6. QED
        BY <4>1, <4>4, <4>5
    <3>3. QED
      BY <3>1, <3>2
  <2>4. Unheaded'
    BY <1>1, <1>4, <2>2, <2>3 DEF Unheaded, Width
  <2>5. QED
    BY <1>1, <1>4, <1>8, <2>4 DEF ArrayIInv, ArrayTypes, Where
<1>9. QED
  BY <1>1, <1>7, <1>8

LEMMA ArrayStepsIInv ==
  ASSUME ArrayIInv, [ArrayNext]_arrayVars
  PROVE  ArrayIInv'
<1> USE DEF ArrayIInv, ArrayTypes
<1>1. ASSUME NEW n \in ArrayLengths, NEW h \in {"yes", "no"}, PrintArray(n, h)
      PROVE  ArrayIInv'
  <2>1. rows' = << >> /\ line' = "head" /\ length' \in Nat /\ Start' = 0
        /\ header' \in {"yes", "no"} /\ i' = 0 /\ j' = j
    BY <1>1, ArrayAssumption DEF PrintArray, Where, Start
  <2>2. rem' \in Nat
    <3>1. \A m \in Nat : m % 16 \in Nat
      OBVIOUS
    <3>2. rem' = length' % 16
      BY DEF rem, Width
    <3>3. QED
      BY <2>1, <3>1, <3>2
  <2>3. Headed' /\ Unheaded' /\ Where'
    BY <2>1, <2>2 DEF Headed, Unheaded, Where, Width
  <2>4. QED
    BY <2>1, <2>3
<1>2. CASE HeadByte
  <2>1. /\ line = "head" /\ line' = "head" /\ rows' = rows /\ i' = i + 1
        /\ UNCHANGED <<length, header, j>> /\ i < rem /\ header = "yes"
    BY <1>2 DEF HeadByte, Heading
  <2>2. i' =< rem /\ i' =< length /\ rem' = rem
    BY <2>1, RemIs DEF rem, Width
  <2>3. Headed'
    BY <2>1, <2>2 DEF Headed, RowAt
  <2>4. QED
    BY <2>1, <2>2, <2>3 DEF Where
<1>3. CASE RowBegin \/ RowByte \/ ArrayDone
  <2>1. /\ UNCHANGED <<length, header, rows>> /\ rem' = rem /\ Start' = Start
        /\ line # "head" /\ line # "idle" /\ line' \in {"row", "done"}
    BY <1>3 DEF RowBegin, RowByte, ArrayDone, rem, Start
  <2>2. IF header' = "yes" THEN Headed' ELSE Unheaded'
    BY <2>1 DEF Headed, Unheaded, RowAt
  <2>3. Where' /\ i' \in Nat /\ j' \in Nat /\ i' =< length
    <3>0. Start \in Nat /\ i \in Nat /\ j \in Nat /\ length \in Nat /\ i =< length
      BY StartIs
    <3>1. CASE RowBegin
      BY <2>1, <3>0, <3>1 DEF RowBegin, Where, Width
    <3>2. CASE RowByte
      <4>1. i = Start + j /\ Start < length /\ line' = "row"
        BY <3>2 DEF RowByte, Where
      <4>2. i' = Start' + j' /\ j' =< Width /\ Start' < length' /\ i' =< length
            /\ i' \in Nat /\ j' \in Nat
        BY <2>1, <3>0, <3>2, <4>1 DEF RowByte, Width
      <4>3. QED
        BY <4>1, <4>2 DEF Where
    <3>3. CASE ArrayDone
      <4>1. i = Start /\ i = length /\ line' = "done" /\ i' = i /\ j' = j
        BY <3>0, <3>3 DEF ArrayDone, Where
      <4>2. QED
        BY <2>1, <3>0, <4>1 DEF Where
    <3>4. QED
      BY <1>3, <3>1, <3>2, <3>3
  <2>4. QED
    BY <2>1, <2>2, <2>3
<1>4. CASE ArrayReturn
  BY <1>4 DEF ArrayReturn, Where
<1>5. CASE UNCHANGED arrayVars
  BY <1>5 DEF arrayVars, Where, Headed, Unheaded, RowAt, rem, Start
<1>6. QED
  BY <1>1, <1>2, <1>3, <1>4, <1>5, HeadDoneIInv, RowEndIInv DEF ArrayNext

\* The rows are the array, for every length, with the header and without.
THEOREM RowsAreRight == ArraySpec => []RowsRight
<1>1. ASSUME ArrayIInv PROVE RowsRight
  <2>1. SUFFICES ASSUME line = "done", NEW k \in DOMAIN rows
                 PROVE  RowAt(k, IF IsRemainder(k) THEN rem ELSE Width)
    BY <1>1 DEF RowsRight, RowAt, ArrayIInv, Where
  <2>2. /\ Start = length /\ rows \in Seq(Rows) /\ length \in Nat
        /\ header \in {"yes", "no"}
    BY <1>1, <2>1 DEF ArrayIInv, ArrayTypes, Where
  <2>3. CASE header = "yes"
    BY <1>1, <2>1, <2>3 DEF ArrayIInv, Headed, IsRemainder
  <2>4. CASE header = "no"
    <3>1. RowAt(k, IF rem # 0 /\ rows[k].to = length THEN rem ELSE Width)
      BY <1>1, <2>1, <2>4 DEF ArrayIInv, Unheaded
    <3>2. rows[k].to = length <=> k = Len(rows)
      <4>1. rows # << >> /\ Len(rows) \in Nat /\ k \in 1..Len(rows)
        BY <2>2, StartIs
      <4>2. rows[Len(rows)].to = length
        BY <2>2, <4>1, StartIs
      <4>3. k < Len(rows) => rows[k].to < length
        BY <1>1, <2>1, <2>4 DEF ArrayIInv, Unheaded
      <4>4. rows[k].to \in Nat
        BY <2>2, StartIs DEF Rows
      <4>5. QED
        BY <2>2, <4>1, <4>2, <4>3, <4>4
    <3>3. QED
      BY <2>4, <3>1, <3>2 DEF IsRemainder
  <2>5. QED
    BY <2>2, <2>3, <2>4
<1>2. QED
  BY <1>1, ArrayInitIInv, ArrayStepsIInv, PTL DEF ArraySpec

----------------------------------------------------------------------------
(* The data store: each buffer has its size, and a length that fits it.    *)

LEMMA TwoBytes ==
  ASSUME NEW B \in Nat \ {0}, NEW n \in Nat, n < B * B
  PROVE  /\ (n \div B) \in 0..(B - 1) /\ (n % B) \in 0..(B - 1)
         /\ ((n \div B) * B) + (n % B) = n
         /\ (n \div B) % B = n \div B
<1>1. n = ((n \div B) * B) + (n % B) /\ n % B \in 0..(B - 1) /\ n \div B \in Nat
  OBVIOUS
<1>2. ASSUME NEW q \in Nat, NEW r \in 0..(B - 1), n = q * B + r PROVE q < B
  BY <1>2
<1>3. n \div B \in 0..(B - 1)
  <2>1. n \div B < B
    BY <1>1, <1>2
  <2>2. QED
    BY <1>1, <2>1
<1>4. ASSUME NEW q \in 0..(B - 1) PROVE q % B = q
  BY <1>4
<1>5. QED
  BY <1>1, <1>3, <1>4

LEMMA Front ==
  ASSUME NEW s, NEW v \in Seq(Nat), \A k \in 1..Len(v) : s[k] = v[k]
  PROVE  SubSeq(s, 1, Len(v)) = v
<1> DEFINE n == Len(v)
<1>1. n \in Nat /\ \A k \in 1..n : s[k] \in Nat /\ s[k] = v[k]
  OBVIOUS
<1> HIDE DEF n
<1>2. /\ SubSeq(s, 1, n) \in Seq(Nat)
      /\ Len(SubSeq(s, 1, n)) = IF 1 =< n THEN n - 1 + 1 ELSE 0
      /\ \A k \in 1..(n - 1 + 1) : SubSeq(s, 1, n)[k] = s[1 + k - 1]
  BY <1>1, SubSeqProperties
<1>3. n - 1 + 1 = n /\ (IF 1 =< n THEN n - 1 + 1 ELSE 0) = n
      /\ \A k \in 1..n : 1 + k - 1 = k
  BY <1>1
<1>4. /\ SubSeq(s, 1, n) \in Seq(Nat) /\ Len(SubSeq(s, 1, n)) = n
      /\ \A k \in 1..n : SubSeq(s, 1, n)[k] = v[k]
  BY <1>1, <1>2, <1>3
<1> USE DEF n
<1>5. QED
  BY <1>4, SeqEqual

\* What was copied over the front of an array is read back from there.
LEMMA Copied ==
  ASSUME NEW array \in Seq(Nat), NEW v \in Seq(Nat), Len(v) =< Len(array)
  PROVE  /\ MemCpy(array, v) \in Seq(Nat)
         /\ Len(MemCpy(array, v)) = Len(array)
         /\ SubSeq(MemCpy(array, v), 1, Len(v)) = v
<1> DEFINE rest == SubSeq(array, Len(v) + 1, Len(array))
<1>1. rest \in Seq(Nat) /\ Len(rest) = Len(array) - Len(v)
  <2>1. \A k \in (Len(v) + 1)..Len(array) : array[k] \in Nat
    OBVIOUS
  <2>2. /\ rest \in Seq(Nat)
        /\ Len(rest) = IF Len(v) + 1 =< Len(array)
                       THEN Len(array) - (Len(v) + 1) + 1 ELSE 0
    BY <2>1, SubSeqProperties
  <2>3. QED
    BY <2>2
<1> HIDE DEF rest
<1>2. /\ v \o rest \in Seq(Nat)
      /\ Len(v \o rest) = Len(v) + Len(rest)
      /\ \A k \in 1..Len(v) : (v \o rest)[k] = v[k]
  BY <1>1, ConcatProperties
<1>3. SubSeq(v \o rest, 1, Len(v)) = v
  BY <1>2, Front
<1>4. QED
  BY <1>1, <1>2, <1>3 DEF MemCpy, rest

Buffers == [hi : 0..(Byte - 1), lo : 0..(Byte - 1), data : Seq(Nat)]

StoreIInv ==
  /\ buffer \in [StoreIds -> Buffers]
  /\ \A id \in StoreIds :
       Len(buffer[id].data) = Limit[id] /\ DataLength(id) =< Limit[id]

Content(id) == SubSeq(buffer[id].data, 1, DataLength(id))

\* A value that fits replaces that of its register, and no other.
LEMMA Stored ==
  ASSUME StoreIInv, NEW id \in StoreIds, NEW v \in Seq(Nat), Len(v) =< Limit[id],
         Store(id, v)
  PROVE  /\ StoreIInv'
         /\ \A k \in StoreIds : Content(k)' = IF k = id THEN v ELSE Content(k)
<1> DEFINE b == [hi |-> (Len(v) \div Byte) % Byte, lo |-> Len(v) % Byte,
                 data |-> MemCpy(buffer[id].data, v)]
<1>1. Byte \in Nat \ {0} /\ Len(v) \in Nat /\ Limit[id] \in Nat
      /\ Len(v) < Byte * Byte
  <2>1. Byte \in Nat \ {0} /\ Len(v) \in Nat /\ Limit[id] \in Nat
        /\ Limit[id] < Byte * Byte
    BY StoreAssumption
  <2>2. Byte * Byte \in Nat
    BY <2>1
  <2>3. QED
    BY <2>1, <2>2
<1>2. /\ (Len(v) \div Byte) % Byte \in 0..(Byte - 1) /\ Len(v) % Byte \in 0..(Byte - 1)
      /\ (((Len(v) \div Byte) % Byte) * Byte) + (Len(v) % Byte) = Len(v)
  BY <1>1, TwoBytes
<1>3. buffer[id].data \in Seq(Nat) /\ Len(buffer[id].data) = Limit[id]
  BY DEF StoreIInv, Buffers
<1>4. /\ b.data \in Seq(Nat) /\ Len(b.data) = Limit[id]
      /\ SubSeq(b.data, 1, Len(v)) = v
  BY <1>3, Copied
<1>5. b \in Buffers /\ (b.hi * Byte) + b.lo = Len(v)
  BY <1>2, <1>4 DEF Buffers
<1>6. buffer' = [buffer EXCEPT ![id] = b]
  BY DEF Store
<1> HIDE DEF b
<1>7. buffer' \in [StoreIds -> Buffers] /\ buffer'[id] = b
      /\ \A k \in StoreIds : k # id => buffer'[k] = buffer[k]
  BY <1>5, <1>6 DEF StoreIInv
<1>8. \A k \in StoreIds :
        /\ Len(buffer'[k].data) = Limit[k] /\ DataLength(k)' =< Limit[k]
        /\ Content(k)' = IF k = id THEN v ELSE Content(k)
  <2>1. ASSUME NEW k \in StoreIds, k # id
        PROVE  /\ Len(buffer'[k].data) = Limit[k] /\ DataLength(k)' =< Limit[k]
               /\ Content(k)' = Content(k)
    BY <1>7, <2>1 DEF StoreIInv, DataLength, Content
  <2>2. DataLength(id)' = Len(v)
    BY <1>5, <1>7 DEF DataLength
  <2>3. Content(id)' = v
    BY <1>4, <1>7, <2>2 DEF Content
  <2>4. QED
    BY <1>4, <1>7, <2>1, <2>2, <2>3
<1>9. QED
  BY <1>7, <1>8 DEF StoreIInv

StoreContents == [id \in StoreIds |-> Content(id)]

LEMMA StoreInitOK ==
  ASSUME StoreInit
  PROVE  StoreIInv /\ StoreContents = Initial
<1>1. ASSUME NEW id \in StoreIds
      PROVE  /\ buffer[id] \in Buffers
             /\ Len(buffer[id].data) = Limit[id] /\ DataLength(id) =< Limit[id]
             /\ Content(id) = Initial[id]
  <2> DEFINE v == Initial[id]
             n == Len(v)
             array == [k \in 1..Limit[id] |-> IF k =< n THEN v[k] ELSE 0]
  <2>1. /\ Byte \in Nat \ {0} /\ v \in Seq(Nat) /\ n \in Nat /\ Limit[id] \in Nat
        /\ n =< Limit[id] /\ Limit[id] < Byte * Byte /\ Byte * Byte \in Nat
    BY StoreAssumption
  <2>3. array \in Seq(Nat) /\ Len(array) = Limit[id] /\ \A k \in 1..n : array[k] = v[k]
    BY <2>1
  <2>4. SubSeq(array, 1, n) = v
    BY <2>1, <2>3, Front
  <2>5. buffer[id] = [hi |-> n \div Byte, lo |-> n % Byte, data |-> array]
    BY DEF StoreInit
  <2>a. v = Initial[id]
    OBVIOUS
  <2> HIDE DEF v, n, array
  <2>2. /\ n \div Byte \in 0..(Byte - 1) /\ n % Byte \in 0..(Byte - 1)
        /\ ((n \div Byte) * Byte) + (n % Byte) = n
    <3>1. n < Byte * Byte
      BY <2>1
    <3>2. QED
      BY <2>1, <3>1, TwoBytes
  <2>6. buffer[id] \in Buffers /\ Len(buffer[id].data) = Limit[id] /\ DataLength(id) = n
    BY <2>2, <2>3, <2>5 DEF Buffers, DataLength
  <2>7. Content(id) = v
    BY <2>4, <2>5, <2>6 DEF Content
  <2>8. QED
    BY <2>1, <2>6, <2>7, <2>a
<1>2. buffer \in [StoreIds -> Buffers]
  BY <1>1 DEF StoreInit
<1>3. QED
  BY <1>1, <1>2, StoreAssumption DEF StoreIInv, StoreContents

\* The port implements the registers, for buffers and values of any size.
THEOREM RegistersImplemented == StoreSpec => RegistersSpec
<1>0. Secret \in StoreIds /\ Contexts \subseteq StoreIds /\ Unknown \notin StoreIds
  BY DEF StoreIds, Secret, Contexts, Unknown
<1>1. StoreInit => R!Init
  BY StoreInitOK DEF StoreInit, R!Init, StoreContents, Content
<1>2. ASSUME StoreIInv, [StoreNext]_storeVars
      PROVE  StoreIInv' /\ [R!Next]_<<StoreContents, reply>>
  <2>1. ASSUME UNCHANGED buffer PROVE StoreIInv' /\ UNCHANGED StoreContents
    BY <1>2, <2>1 DEF StoreIInv, StoreContents, Content, DataLength
  <2>2. ASSUME NEW id \in StoreIds, NEW v \in Values, Len(v) =< Limit[id],
               Store(id, v), Written(id, v, "SUCCESS")
        PROVE  StoreIInv' /\ R!Next
    <3>1. v \in Seq(Nat)
      BY StoreAssumption
    <3>2. StoreIInv' /\ StoreContents' = [StoreContents EXCEPT ![id] = v]
      BY <1>2, <2>2, <3>1, Stored DEF StoreContents
    <3>3. R!Write(id, v)
      BY <2>2, <3>2 DEF R!Write, R!Fits, Written, StoreContents, Content
    <3>4. QED
      BY <3>2, <3>3 DEF R!Next
  <2>3. ASSUME NEW id \in StoreIds \cup {Unknown}, NEW v \in Values, UNCHANGED buffer,
               Written(id, v, "FAILURE"), id \in StoreIds => Len(v) > Limit[id]
        PROVE  R!Next
    <3>1. UNCHANGED StoreContents /\ ~R!Fits(id, v)
      <4>1. UNCHANGED StoreContents
        BY <2>1, <2>3
      <4>2. id \in StoreIds => Limit[id] \in Nat /\ Len(v) \in Nat
        BY StoreAssumption
      <4>3. QED
        BY <2>3, <4>1, <4>2 DEF R!Fits
    <3>2. R!Write(id, v)
      BY <2>3, <3>1 DEF R!Write, Written, StoreContents, Content
    <3>3. QED
      BY <3>2 DEF R!Next
  <2>4. ASSUME NEW id \in StoreIds, UNCHANGED buffer, Returned(id)
        PROVE  R!Next
    <3>1. UNCHANGED StoreContents /\ StoreContents[id] = Content(id)
      BY <2>1, <2>4 DEF StoreContents
    <3>2. R!Read(id)
      BY <2>4, <3>1 DEF R!Read, Returned, StoreContents, Content
    <3>3. QED
      BY <3>2 DEF R!Next
  <2>5. ASSUME UNCHANGED buffer, NotReturned(Unknown)
        PROVE  R!Next
    <3>1. R!Read(Unknown)
      BY <1>0, <2>1, <2>5 DEF R!Read, NotReturned, StoreContents, Content
    <3>2. QED
      BY <3>1 DEF R!Next
  <2>6. ASSUME NEW v \in Values, WriteSecret(v) PROVE StoreIInv' /\ R!Next
    <3>1. CASE Len(v) =< Limit[Secret]
      <4>1. Store(Secret, v) /\ Written(Secret, v, "SUCCESS")
        <5>1. Len(v) \in Nat /\ Limit[Secret] \in Nat
          BY <1>0, StoreAssumption
        <5>2. QED
          BY <2>6, <3>1, <5>1 DEF WriteSecret
      <4>2. QED
        BY <1>0, <2>2, <3>1, <4>1
    <3>2. CASE ~(Len(v) =< Limit[Secret])
      <4>1. Len(v) > Limit[Secret] /\ UNCHANGED buffer /\ Written(Secret, v, "FAILURE")
        BY <2>6, <3>2 DEF WriteSecret
      <4>2. QED
        BY <1>0, <2>1, <2>3, <4>1
    <3>3. QED
      BY <3>1, <3>2
  <2>7. ASSUME NEW v \in Values, NEW id \in Contexts, WriteContext(id, v)
        PROVE  StoreIInv' /\ R!Next
    BY <1>0, <2>2, <2>7 DEF WriteContext
  <2>8. ASSUME NEW v \in Values, WriteUnknown(v) PROVE StoreIInv' /\ R!Next
    BY <1>0, <2>1, <2>3, <2>8 DEF WriteUnknown
\* The stored length of the secret fits, so that the test of it succeeds.
  <2>9. ASSUME ReadSecret PROVE StoreIInv' /\ R!Next
    <3>1. DataLength(Secret) =< Limit[Secret]
      BY <1>0, <1>2 DEF StoreIInv
    <3>2. QED
      BY <1>0, <2>1, <2>4, <2>9, <3>1 DEF ReadSecret
  <2>10. ASSUME NEW id \in Contexts, ReadContext(id) PROVE StoreIInv' /\ R!Next
    BY <1>0, <2>1, <2>4, <2>10 DEF ReadContext
  <2>11. ASSUME ReadUnknown PROVE StoreIInv' /\ R!Next
    BY <2>1, <2>5, <2>11 DEF ReadUnknown
  <2>12. ASSUME UNCHANGED storeVars
         PROVE  StoreIInv' /\ UNCHANGED <<StoreContents, reply>>
    BY <2>1, <2>12 DEF storeVars
  <2>13. QED
    BY <1>2, <2>6, <2>7, <2>8, <2>9, <2>10, <2>11, <2>12 DEF StoreNext
<1>3. StoreIInv /\ [StoreNext]_storeVars
        => /\ StoreIInv'
           /\ [R!Next]_<<[id \in StoreIds |->
                           SubSeq(buffer[id].data, 1, DataLength(id))], reply>>
  BY <1>2 DEF StoreContents, Content
<1>4. StoreInit => StoreIInv
  BY StoreInitOK
<1>5. QED
  BY <1>1, <1>3, <1>4, PTL DEF StoreSpec, RegistersSpec, R!Spec

----------------------------------------------------------------------------
(* The clocks, for words of any size.                                      *)

LEMMA Euclid ==
  ASSUME NEW W \in Nat \ {0}, NEW a \in Nat
  PROVE  \E q \in Nat : a = (q * W) + (a % W) /\ a % W \in 0..(W-1)
<1>1. a = ((a \div W) * W) + (a % W) /\ a % W \in 0..(W-1) /\ a \div W \in Nat
  OBVIOUS
<1>2. QED
  BY <1>1

LEMMA UniqueMod ==
  ASSUME NEW W \in Nat \ {0}, NEW q \in Int, NEW r \in 0..(W-1), NEW a \in Int, a = (q * W) + r
  PROVE  a % W = r
<1>1. a = ((a \div W) * W) + (a % W) /\ a % W \in 0..(W-1) /\ a \div W \in Int
  OBVIOUS
<1>2. ASSUME NEW d \in Int, NEW e \in Int, e > -W, e < W, d * W = e PROVE d = 0
  <2>1. CASE d >= 1
    <3>1. d * W >= W
      BY <1>2, <2>1
    <3>2. QED
      BY <3>1, <1>2
  <2>2. CASE d <= -1
    <3>1. d * W <= -W
      BY <1>2, <2>2
    <3>2. QED
      BY <3>1, <1>2
  <2>3. QED
    BY <2>1, <2>2, <1>2
<1>3. (a \div W) - q \in Int /\ r - (a % W) \in Int /\ ((a \div W) - q) * W = r - (a % W)
  BY <1>1
<1>4. (a \div W) - q = 0
  <2>1. r - (a % W) > -W /\ r - (a % W) < W
    BY <1>1
  <2>2. QED
    BY <1>2, <1>3, <2>1
<1>5. QED
  BY <1>1, <1>3, <1>4

LEMMA NextTick ==
  ASSUME NEW W \in Nat \ {0}, NEW a \in Nat
  PROVE  ((a % W) + 1) % W = (a + 1) % W
<1>1. PICK q \in Nat : a = (q * W) + (a % W) /\ a % W \in 0..(W-1)
  BY Euclid
<1> DEFINE m == (a % W) + 1
           b == a + 1
<1>a. m \in 1..W /\ b \in Nat /\ b = (q * W) + m
  BY <1>1
<1>h. m = (a % W) + 1 /\ b = a + 1
  OBVIOUS
<1> HIDE DEF m, b
<1>2. CASE m < W
  <2>1. m \in 0..(W-1) /\ m = (0 * W) + m /\ q \in Int /\ b \in Int /\ m \in Int
    BY <1>a, <1>2
  <2>2. b % W = m /\ m % W = m
    BY <1>a, <2>1, UniqueMod
  <2>3. QED
    BY <2>2, <1>h
<1>3. CASE m = W
  <2>1. 0 \in 0..(W-1) /\ m = (1 * W) + 0 /\ b = ((q + 1) * W) + 0
        /\ q + 1 \in Int /\ b \in Int /\ m \in Int
    BY <1>a, <1>3
  <2>2. b % W = 0
    <3> DEFINE p == q + 1
    <3>1. p \in Int /\ b = (p * W) + 0
      BY <2>1
    <3> HIDE DEF p
    <3>2. QED
      BY <3>1, <2>1, UniqueMod
  <2>3. m % W = 0
    BY <2>1, UniqueMod
  <2>4. QED
    BY <2>2, <2>3, <1>h
<1>4. QED
  BY <1>a, <1>2, <1>3

\* The difference of two readings of a clock that is computed from one that
\* wraps, as so many units each, is the time between them if that fits.
LEMMA ClockDifference ==
  ASSUME NEW W \in Nat \ {0}, NEW t \in Nat, NEW e \in Nat, NEW k \in Nat, e * k < W
  PROVE  (((((t + e) % W) * k) % W) + W - ((t * k) % W)) % W = e * k
<1> DEFINE u == (t + e) % W
           x == (u * k) % W
           y == (t * k) % W
<1>1. PICK q \in Nat : t + e = (q * W) + u /\ u \in 0..(W-1)
  <2>1. t + e \in Nat
    OBVIOUS
  <2>2. QED
    BY <2>1, Euclid
<1>2. PICK r \in Nat : u * k = (r * W) + x /\ x \in 0..(W-1)
  <2>1. u * k \in Nat
    BY <1>1
  <2> HIDE DEF u
  <2>2. QED
    BY <2>1, Euclid
<1>3. PICK s \in Nat : t * k = (s * W) + y /\ y \in 0..(W-1)
  <2>1. t * k \in Nat
    OBVIOUS
  <2>2. QED
    BY <2>1, Euclid
<1> HIDE DEF u, x, y
<1>4. (t + e) * k = (q * W) * k + u * k
  BY <1>1
<1>5. (t * k) + (e * k) = ((q * k) * W) + ((r * W) + x)
  BY <1>1, <1>2, <1>4
<1>6. x + W - y = ((s + 1 - (q * k) - r) * W) + (e * k)
  BY <1>1, <1>2, <1>3, <1>5
<1> DEFINE shift == x + W - y
           turns == s + 1 - (q * k) - r
           time == e * k
<1>a. shift \in Int /\ turns \in Int /\ time \in 0..(W - 1) /\ shift = (turns * W) + time
  BY <1>1, <1>2, <1>3, <1>6
<1>7. shift % W = time
  <2> HIDE DEF shift, turns, time
  <2>1. QED
    BY <1>a, UniqueMod
<1>8. QED
  BY <1>7 DEF u, x, y

TimerIInv ==
  /\ tick \in 0..(Word - 1) /\ running \in {"yes", "no"} /\ elapsed \in Nat
  /\ running = "yes" =>
       /\ elapsed =< MaxElapsed /\ time_value \in 0..(Word - 1)
       /\ tick = (time_value + elapsed) % Word
       /\ started_us = (time_value * 1000) % Word
  /\ ElapsedRight

LEMMA ReadIInv == ASSUME TimerIInv, ReadMeasurement PROVE TimerIInv'
<1>1. /\ Word \in Nat \ {0} /\ elapsed \in Nat /\ elapsed < Word
      /\ time_value \in 0..(Word - 1) /\ time_value \in Nat
      /\ tick = (time_value + elapsed) % Word /\ tick \in 0..(Word - 1)
      /\ started_us = (time_value * 1000) % Word
  BY TimerAssumption DEF TimerIInv, ReadMeasurement
<1>2. ASSUME elapsed * 1000 < Word
      PROVE  (((tick * 1000) % Word) + Word - started_us) % Word = elapsed * 1000
  <2>1. PICK k \in Nat : k = 1000
    OBVIOUS
  <2>2. elapsed * k < Word
    BY <1>2, <2>1
  <2>3. (((((time_value + elapsed) % Word) * k) % Word) + Word
           - ((time_value * k) % Word)) % Word = elapsed * k
    <3> DEFINE e == elapsed
               t == time_value
    <3>1. e \in Nat /\ t \in Nat /\ e * k < Word /\ Word \in Nat \ {0}
      BY <1>1, <2>2
    <3> HIDE DEF e, t
    <3>2. (((((t + e) % Word) * k) % Word) + Word - ((t * k) % Word)) % Word = e * k
      BY <3>1, ClockDifference, ZenonT(40)
    <3>3. QED
      BY <3>2 DEF e, t
  <2>4. QED
    BY <1>1, <2>1, <2>3
<1>3. (tick + Word - time_value) % Word = elapsed
  <2>1. (((((time_value + elapsed) % Word) * 1) % Word) + Word
           - ((time_value * 1) % Word)) % Word = elapsed * 1
    BY <1>1, ClockDifference
  <2>2. ASSUME NEW r \in 0..(Word - 1) PROVE (r * 1) % Word = r
    <3>1. r * 1 \in Int /\ r * 1 = (0 * Word) + r
      BY <1>1
    <3>2. QED
      BY <1>1, <3>1, UniqueMod
  <2>3. (tick * 1) % Word = tick /\ (time_value * 1) % Word = time_value
    BY <1>1, <2>2
  <2>4. QED
    BY <1>1, <2>1, <2>3
<1>4. /\ measured' = <<(tick + Word - time_value) % Word,
                       (((tick * 1000) % Word) + Word - started_us) % Word>>
      /\ running' = "no" /\ UNCHANGED <<tick, elapsed>>
  BY DEF ReadMeasurement, Difference, Minus, pal_os_timer_get_time_in_milliseconds,
         pal_os_timer_get_time_in_microseconds
<1>5. ElapsedRight'
  BY <1>2, <1>3, <1>4 DEF ElapsedRight
<1>6. QED
  BY <1>1, <1>4, <1>5 DEF TimerIInv

\* A measurement gives the time that has passed, whether a clock wrapped or
\* not, for words of any size.
THEOREM MeasuredRight == TimerSpec => []ElapsedRight
<1>1. TimerInit => TimerIInv
  BY TimerAssumption DEF TimerInit, TimerIInv, ElapsedRight
<1>2. ASSUME TimerIInv, TickCount PROVE TimerIInv'
  <2>1. /\ Word \in Nat \ {0} /\ MaxElapsed \in Nat /\ elapsed \in Nat
        /\ tick' = (tick + 1) % Word /\ tick \in 0..(Word - 1)
        /\ measured' = << >> /\ UNCHANGED <<running, time_value, started_us>>
        /\ running \in {"yes", "no"}
    BY <1>2, TimerAssumption DEF TimerIInv, TickCount
  <2>2. \A m \in Nat : m % Word \in 0..(Word - 1)
    BY <2>1
  <2>3. tick' \in 0..(Word - 1)
    BY <2>1, <2>2
  <2>4. CASE running = "yes"
    <3>1. /\ time_value \in 0..(Word - 1) /\ elapsed' = elapsed + 1 /\ elapsed < MaxElapsed
          /\ tick = (time_value + elapsed) % Word
          /\ started_us = (time_value * 1000) % Word
      BY <1>2, <2>4 DEF TimerIInv, TickCount
    <3>2. tick' = (time_value + elapsed') % Word
      <4>1. time_value + elapsed \in Nat
            /\ (time_value + elapsed) + 1 = time_value + (elapsed + 1)
        BY <2>1, <3>1
      <4>2. QED
        BY <2>1, <3>1, <4>1, NextTick
    <3>3. elapsed' \in Nat /\ elapsed' =< MaxElapsed
      BY <2>1, <3>1
    <3>4. QED
      BY <2>1, <2>3, <2>4, <3>1, <3>2, <3>3 DEF TimerIInv, ElapsedRight
  <2>5. CASE running = "no"
    <3>1. elapsed' = 0
      BY <1>2, <2>5 DEF TickCount
    <3>2. QED
      BY <2>1, <2>3, <2>5, <3>1 DEF TimerIInv, ElapsedRight
  <2>6. QED
    BY <2>1, <2>4, <2>5
<1>3. ASSUME TimerIInv, StartMeasurement PROVE TimerIInv'
  <2>1. /\ Word \in Nat \ {0} /\ MaxElapsed \in Nat /\ tick \in 0..(Word - 1)
        /\ running' = "yes" /\ time_value' = tick /\ elapsed' = 0 /\ tick' = tick
        /\ measured' = << >> /\ started_us' = (tick * 1000) % Word
    BY <1>3, TimerAssumption
       DEF TimerIInv, StartMeasurement, pal_os_timer_get_time_in_milliseconds,
           pal_os_timer_get_time_in_microseconds
  <2>2. (tick + 0) % Word = tick
    <3>1. tick + 0 \in Int /\ tick + 0 = (0 * Word) + tick
      BY <2>1
    <3>2. QED
      BY <2>1, <3>1, UniqueMod
  <2>3. QED
    BY <2>1, <2>2 DEF TimerIInv, ElapsedRight
<1>4. TimerIInv /\ UNCHANGED timerVars => TimerIInv'
  BY DEF TimerIInv, timerVars, ElapsedRight
<1>5. TimerIInv /\ [TimerNext]_timerVars => TimerIInv'
  BY <1>2, <1>3, <1>4, ReadIInv DEF TimerNext
<1>6. TimerIInv => ElapsedRight
  BY DEF TimerIInv
<1>7. QED
  BY <1>1, <1>5, <1>6, PTL DEF TimerSpec

----------------------------------------------------------------------------
(* Formats.  A field is taken from the packed version as it was put in,    *)
(* and its digits are those of its number.                                 *)

LEMMA Quotient ==
  \A K, q, r, n \in Nat :
    r < K /\ n = q * K + r => n \div K = q /\ n % K = r
<1>1. ASSUME NEW K \in Nat, NEW q \in Nat, NEW r \in Nat, r < K
      PROVE  (q * K + r) \div K = q /\ (q * K + r) % K = r
  BY <1>1
<1>2. QED
  BY <1>1, Zenon

LEMMA Unpacked ==
  \A M, m, p, b, n \in Nat :
    /\ m < 16 /\ p < 100 /\ b < 10000
    /\ n = M * AtMajor + m * AtMinor + p * AtPatch + b
    => vMajor(n) = M /\ vMinor(n) = m /\ vPatch(n) = p /\ vBuild(n) = b
<1>1. SUFFICES ASSUME NEW M \in Nat, NEW m \in Nat, NEW p \in Nat, NEW b \in Nat,
                      NEW n \in Nat, m < 16 /\ p < 100 /\ b < 10000,
                      n = M * AtMajor + m * AtMinor + p * AtPatch + b
               PROVE  /\ vMajor(n) = M /\ vMinor(n) = m
                      /\ vPatch(n) = p /\ vBuild(n) = b
  OBVIOUS
<1> DEFINE upToMinor == M * 16 + m
           upToPatch == upToMinor * 256 + p
           belowMajor == m * AtMinor + p * AtPatch + b
           belowMinor == p * AtPatch + b
<1>2. AtMajor \in Nat /\ AtMinor \in Nat /\ AtPatch \in Nat
  BY DEF AtMajor, AtMinor, AtPatch
<1>3. /\ upToMinor \in Nat /\ upToPatch \in Nat
      /\ belowMajor \in Nat /\ belowMinor \in Nat
  BY DEF AtMinor, AtPatch
<1>4. belowMajor < AtMajor /\ belowMinor < AtMinor /\ b < AtPatch
  BY <1>1 DEF AtMajor, AtMinor, AtPatch
<1>5. /\ n = M * AtMajor + belowMajor
      /\ n = upToMinor * AtMinor + belowMinor
      /\ n = upToPatch * AtPatch + b
  BY <1>1 DEF AtMajor, AtMinor, AtPatch
<1>6. upToMinor % 16 = m /\ upToPatch % 256 = p
  BY <1>1
<1> HIDE DEF upToMinor, upToPatch, belowMajor, belowMinor
<1>7. n \div AtMajor = M
  BY <1>2, <1>3, <1>4, <1>5, Quotient, Zenon
<1>8. n \div AtMinor = upToMinor
  BY <1>2, <1>3, <1>4, <1>5, Quotient, Zenon
<1>9. n \div AtPatch = upToPatch /\ n % AtPatch = b
  BY <1>2, <1>3, <1>4, <1>5, Quotient, Zenon
<1>10. QED
  BY <1>6, <1>7, <1>8, <1>9, Zenon DEF vMajor, vMinor, vPatch, vBuild

LEMMA TwoDigits ==
  ASSUME NEW x \in Nat, x < 100
  PROVE  /\ x \div 10 \in 0..9 /\ x % 10 \in 0..9
         /\ 10 * (x \div 10) + (x % 10) = x
OBVIOUS

LEMMA FourDigits ==
  ASSUME NEW x \in Nat, x < 10000
  PROVE  /\ x \div 1000 \in 0..9 /\ (x % 1000) \div 100 \in 0..9
         /\ (x % 100) \div 10 \in 0..9 /\ x % 10 \in 0..9
         /\ 1000 * (x \div 1000) + 100 * ((x % 1000) \div 100)
              + 10 * ((x % 100) \div 10) + (x % 10) = x
OBVIOUS

\* What is shown are the digits of a version, and what is encoded is the
\* header of a key.
Formatted ==
  /\ shown # << >> =>
       \E v \in Versions : version = v /\ shown = Digits(APP_VERSION_NUM(v))
  /\ key # << >> =>
       \E n \in KeyLengths : key = <<n>> /\ encoded = EncodeHeader(n)

\* The version printed is the one packed, for every version whose fields fit
\* their digits, and the length octet of an encoded key is true of any key
\* that the buffer holds.
THEOREM FormatsAreTrue == FormatSpec => []FormatsTrue
<1>1. FormatInit => Formatted
  BY DEF FormatInit, Formatted
<1>2. Formatted /\ [FormatNext]_formatVars => Formatted'
  <2> SUFFICES ASSUME Formatted, [FormatNext]_formatVars PROVE Formatted'
    OBVIOUS
  <2>1. ASSUME NEW v \in Versions, PrintVersionInfo(v) PROVE Formatted'
    BY <2>1 DEF PrintVersionInfo, Formatted
  <2>2. ASSUME NEW n \in KeyLengths, EncodePublicKey(n) PROVE Formatted'
    BY <2>2 DEF EncodePublicKey, Formatted
  <2>3. CASE FormatReturn
    BY <2>3 DEF FormatReturn, Formatted
  <2>4. CASE UNCHANGED formatVars
    BY <2>4 DEF formatVars, Formatted
  <2>5. QED
    BY <2>1, <2>2, <2>3, <2>4 DEF FormatNext
<1>3. Formatted => FormatsTrue
  <2> SUFFICES ASSUME Formatted PROVE FormatsTrue
    OBVIOUS
  <2>1. ASSUME shown # << >>
        PROVE  /\ \A f \in 1..4 : \A d \in DOMAIN shown[f] : shown[f][d] \in 0..9
               /\ version = [major |-> Number2(shown[1]), minor |-> Number2(shown[2]),
                             patch |-> Number2(shown[3]), build |-> Number4(shown[4])]
    <3>1. PICK v \in Versions : version = v /\ shown = Digits(APP_VERSION_NUM(v))
      BY <2>1 DEF Formatted
    <3> DEFINE n == APP_VERSION_NUM(v)
    <3>2. /\ v = [major |-> v.major, minor |-> v.minor, patch |-> v.patch, build |-> v.build]
          /\ v.major \in Nat /\ v.minor \in Nat /\ v.patch \in Nat /\ v.build \in Nat
          /\ v.major < 16 /\ v.minor < 16 /\ v.patch < 100 /\ v.build < 10000
      BY FormatAssumption
    <3>3. vMajor(n) = v.major /\ vMinor(n) = v.minor /\ vPatch(n) = v.patch
          /\ vBuild(n) = v.build
      <4>1. n = v.major * AtMajor + v.minor * AtMinor + v.patch * AtPatch + v.build
        BY DEF APP_VERSION_NUM
      <4>2. n \in Nat
        BY <3>2, <4>1 DEF AtMajor, AtMinor, AtPatch
      <4> HIDE DEF n
      <4>3. QED
        BY <3>2, <4>1, <4>2, Unpacked
    <3>4. /\ shown[1] = <<v.major \div 10, v.major % 10>>
          /\ shown[2] = <<v.minor \div 10, v.minor % 10>>
          /\ shown[3] = <<v.patch \div 10, v.patch % 10>>
          /\ shown[4] = <<v.build \div 1000, (v.build % 1000) \div 100,
                          (v.build % 100) \div 10, v.build % 10>>
      BY <3>1, <3>3 DEF Digits
    <3>5. v.major < 100 /\ v.minor < 100
      BY <3>2
    <3>6. /\ \A d \in DOMAIN shown[1] : shown[1][d] \in 0..9
          /\ Number2(shown[1]) = v.major
      BY <3>2, <3>4, <3>5, TwoDigits DEF Number2
    <3>7. /\ \A d \in DOMAIN shown[2] : shown[2][d] \in 0..9
          /\ Number2(shown[2]) = v.minor
      BY <3>2, <3>4, <3>5, TwoDigits DEF Number2
    <3>8. /\ \A d \in DOMAIN shown[3] : shown[3][d] \in 0..9
          /\ Number2(shown[3]) = v.patch
      BY <3>2, <3>4, TwoDigits DEF Number2
    <3>9. /\ \A d \in DOMAIN shown[4] : shown[4][d] \in 0..9
          /\ Number4(shown[4]) = v.build
      BY <3>2, <3>4, FourDigits DEF Number4
    <3>10. QED
      BY <3>1, <3>2, <3>6, <3>7, <3>8, <3>9
  <2>2. ASSUME key # << >> PROVE encoded.header[2] = encoded.pub_key_length - 2
    <3>1. PICK n \in KeyLengths : encoded = EncodeHeader(n)
      BY <2>2 DEF Formatted
    <3>2. n \in 0..125
      BY FormatAssumption
    <3>3. (n + 2) % 256 = 4 + n - 2
      BY <3>2
    <3>4. encoded.header[2] = (n + 2) % 256 /\ encoded.pub_key_length = 4 + n
      BY <3>1 DEF EncodeHeader
    <3>5. QED
      BY <3>2, <3>3, <3>4
  <2>3. QED
    BY <2>1, <2>2 DEF FormatsTrue
<1>4. QED
  BY <1>1, <1>2, <1>3, PTL DEF FormatSpec
=============================================================================
