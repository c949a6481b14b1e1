------------------------------- MODULE I2cInit -------------------------------
(***************************************************************************)
(* Initialisation of the I2C master: Cy_USB_I2CInit of usb_i2c.c, which    *)
(* pal_i2c_init calls, every time it is called (pal_i2c.c:127: "A de-init  *)
(* is performed on every init").  The interrupt of SCB0 comes between any  *)
(* two of its steps while it is enabled.                                   *)
(*                                                                         *)
(* The PDL is not in the repository: its initialisation of the context     *)
(* forgets the callback, and whether it finds a data rate is its choice.   *)
(***************************************************************************)
EXTENDS Naturals

CONSTANT OtherClocks   \* PERI clocks without a case, in kHz

VARIABLES step,       \* where Cy_USB_I2CInit is
          scb,        \* the block: "off", "configured" or "on"
          context,    \* I2C_context: "none", "initialised" or "callback"
          isr,        \* what the vector of SCB0 holds
          irq,        \* its interrupt is "enabled" or "disabled"
          peri,       \* PERI clock found, in kHz; 0 before
          divider,    \* of divider #3
          taken       \* the context that the last interrupt was served with

initVars == <<step, scb, context, isr, irq, peri, divider, taken>>

I2C_INCLK_TARGET_FREQ == 3200   \* kHz

\* The PERI clocks the code knows; the board's is 75 MHz.
PeriClocks == {50000, 60000, 75000, 100000}

ASSUME ClockAssumption == OtherClocks \subseteq Nat \ PeriClocks

\* The factor itself is programmed, and not one less.
Mutant_DividerIsFactor(hfClkFreq) ==
  CASE hfClkFreq = 50000  -> 14
    [] hfClkFreq = 60000  -> 18
    [] hfClkFreq = 75000  -> 23
    [] hfClkFreq = 100000 -> 31

\* Divides by one more than what is programmed.
Divider(hfClkFreq) ==
  CASE hfClkFreq = 50000  -> 15
    [] hfClkFreq = 60000  -> 19
    [] hfClkFreq = 75000  -> 24
    [] hfClkFreq = 100000 -> 32

InitInit ==
  /\ step = "return" /\ scb = "off" /\ context = "none"
  /\ isr = "none" /\ irq = "disabled"
  /\ peri = 0 /\ divider = 0 /\ taken = "nothing"

\* pal_i2c_init; pal_i2c_deinit leaves everything to the next one.
PalInit ==
  /\ step = "return" /\ step' = "deinit"
  /\ UNCHANGED <<scb, context, isr, irq, peri, divider, taken>>

\* pal_i2c_set_bitrate says SUCCESS and keeps the rate.
SetBitrate == step = "return" /\ UNCHANGED initVars

\* Cy_SCB_I2C_DeInit(SCB0): the block stops, its context is not touched.
DeInit ==
  /\ step = "deinit" /\ step' = "intr_off"
  /\ scb' = "off"
  /\ UNCHANGED <<context, isr, irq, peri, divider, taken>>

\* The vector is set, the interrupt stays as it is.
Mutant_NotDisabled ==
  /\ step = "intr_off" /\ step' = "clock"
  /\ isr' = "I2CMaster_ISR"
  /\ UNCHANGED <<scb, context, irq, peri, divider, taken>>

\* Cy_USB_AppInitIntr(NULL): the vector is set all the same.
InterruptOff ==
  /\ step = "intr_off" /\ step' = "clock"
  /\ isr' = "I2CMaster_ISR" /\ irq' = "disabled"
  /\ UNCHANGED <<scb, context, peri, divider, taken>>

\* ConfigureSCB0Clock: the divider by the clock that is found.  For a clock
\* without a case it is left as it was, at 0 since reset or as an earlier
\* initialisation set it, and enabled and assigned all the same.
ConfigureSCB0Clock ==
  /\ step = "clock" /\ step' = "scb_init"
  /\ peri' \in PeriClocks \cup OtherClocks
  /\ divider' = IF peri' \in PeriClocks THEN Divider(peri') ELSE divider
  /\ UNCHANGED <<scb, context, isr, irq, taken>>

\* The pins, then Cy_SCB_I2C_Init.
ScbInit ==
  /\ step = "scb_init" /\ step' = "rate"
  /\ scb' = "configured" /\ context' = "initialised"
  /\ UNCHANGED <<isr, irq, peri, divider, taken>>

\* Cy_SCB_I2C_SetDataRate for the target clock: if the rate is 0 or too high
\* the function stays in while (1).
SetDataRate ==
  /\ step = "rate" /\ step' \in {"callback", "stuck"}
  /\ UNCHANGED <<scb, context, isr, irq, peri, divider, taken>>

Stuck == step = "stuck" /\ UNCHANGED initVars

\* Cy_SCB_I2C_RegisterEventCallback, after the FIFOs were cleared.
RegisterCallback ==
  /\ step = "callback" /\ step' = "intr_on"
  /\ context' = "callback"
  /\ UNCHANGED <<scb, isr, irq, peri, divider, taken>>

\* Cy_USB_AppInitIntr(I2CMaster_ISR)
InterruptOn ==
  /\ step = "intr_on" /\ step' = "enable"
  /\ isr' = "I2CMaster_ISR" /\ irq' = "enabled"
  /\ UNCHANGED <<scb, context, peri, divider, taken>>

Enable ==
  /\ step = "enable" /\ step' = "return"
  /\ scb' = "on"
  /\ UNCHANGED <<context, isr, irq, peri, divider, taken>>

\* The callback: every event falls through the switch.
Scb0i2cMasterEvent == UNCHANGED <<step, scb, context, isr, irq, peri, divider>>

\* The PDL serves the interrupt from the context and calls back.  A cause that
\* is pending in the NVIC is served even if the block has stopped.
I2CMaster_ISR ==
  /\ irq = "enabled"
  /\ taken' = IF isr = "none" THEN "no vector" ELSE context
  /\ Scb0i2cMasterEvent

InitNext == \/ PalInit \/ SetBitrate \/ DeInit \/ InterruptOff
            \/ ConfigureSCB0Clock \/ ScbInit \/ SetDataRate \/ Stuck \/ RegisterCallback
            \/ InterruptOn \/ Enable \/ I2CMaster_ISR

InitSpec == InitInit /\ [][InitNext]_initVars

----------------------------------------------------------------------------
(* Correctness. *)

\* No interrupt is served without its vector, or from a context that is not
\* initialised or has no callback: also when the master is initialised again
\* with the interrupt of the earlier time still enabled (usb_i2c.c:259-260).
ServedWhole == taken \in {"nothing", "callback"}

\* When the block is on, and the PERI clock that was found has a case, the
\* clock that feeds the block is not above the one the data rate was computed
\* for, whatever clock and divider an earlier initialisation left: the bus is
\* not faster than I2C_DATARATE (usb_i2c.c:162-182, 285).
RateKept ==
  scb = "on" /\ peri \in PeriClocks
    => peri =< I2C_INCLK_TARGET_FREQ * (divider + 1)

\* usb_i2c.c:161: "Configure PERI 16 bit clock divider#3 for 3 MHz operation
\* and enable it."  Whenever the block is on, its clock is 3 MHz up to the
\* rounding of the four cases, whatever PERI clock was found.
ThreeMHz ==
  scb = "on" => /\ 3000 * (divider + 1) =< peri
                /\ peri =< I2C_INCLK_TARGET_FREQ * (divider + 1)
=============================================================================
