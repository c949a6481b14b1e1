----------------------------- MODULE PalOsTimer -----------------------------
(***************************************************************************)
(* The clocks of pal_os_timer.c and what is measured with them:            *)
(* optiga_app_performance_measurement, which Cy_Optiga_Main brackets its   *)
(* work with (optiga_app.c:320, 458).  All are unsigned words.             *)
(***************************************************************************)
EXTENDS Naturals

CONSTANTS Word,         \* the values of a uint32_t: 2^32 in the code
          MaxElapsed    \* bound of a measurement, in ticks

ASSUME TimerAssumption ==
  Word \in Nat \ {0} /\ MaxElapsed \in Nat /\ MaxElapsed < Word

VARIABLES tick,        \* xTaskGetTickCount(): one tick is 1 ms
          running,     \* a measurement has been started and not read
          time_value,  \* where it is kept
          started_us,  \* the clock in microseconds at the start
          elapsed,     \* history: the ticks since the start
          measured     \* what was read: milliseconds and microseconds

timerVars == <<tick, running, time_value, started_us, elapsed, measured>>

pal_os_timer_get_time_in_milliseconds == tick

pal_os_timer_get_time_in_microseconds ==
  (pal_os_timer_get_time_in_milliseconds * 1000) % Word

\* Unsigned subtraction of words.
Minus(a, b) == (a + Word - b) % Word

TimerInit ==
  /\ tick = 0 /\ running = "no" /\ elapsed = 0
  /\ time_value = 0 /\ started_us = 0 /\ measured = << >>

\* SysTick, every millisecond.
TickCount ==
  /\ tick' = (tick + 1) % Word
  /\ running = "yes" => elapsed < MaxElapsed
  /\ elapsed' = IF running = "yes" THEN elapsed + 1 ELSE 0
  /\ measured' = << >>
  /\ UNCHANGED <<running, time_value, started_us>>

\* START_PERFORMANCE_MEASUREMENT
StartMeasurement ==
  /\ running = "no" /\ running' = "yes"
  /\ time_value' = pal_os_timer_get_time_in_milliseconds
  /\ started_us' = pal_os_timer_get_time_in_microseconds
  /\ elapsed' = 0 /\ measured' = << >>
  /\ UNCHANGED tick

\* The larger reading minus the smaller.
Mutant_Distance(now, then) == IF now >= then THEN now - then ELSE then - now

\* *time_value = pal_os_timer_get_time_in_milliseconds() - *time_value;
Difference(now, then) == Minus(now, then)

\* READ_PERFORMANCE_MEASUREMENT; a client of the other clock does the same.
ReadMeasurement ==
  /\ running = "yes" /\ running' = "no"
  /\ measured' = <<Difference(pal_os_timer_get_time_in_milliseconds, time_value),
                   Difference(pal_os_timer_get_time_in_microseconds, started_us)>>
  /\ time_value' = 0 /\ started_us' = 0
  /\ UNCHANGED <<tick, elapsed>>

TimerNext == TickCount \/ StartMeasurement \/ ReadMeasurement

TimerSpec == TimerInit /\ [][TimerNext]_timerVars

----------------------------------------------------------------------------
(* Correctness. *)

\* A measurement gives the time that has passed, also when a clock wrapped in
\* between: the milliseconds always, the microseconds as long as the time fits
\* in a word of them, though they are computed from milliseconds that wrap a
\* thousand times later (pal_os_timer.c:63-67).
ElapsedRight ==
  measured # << >> =>
    /\ measured[1] = elapsed
    /\ elapsed * 1000 < Word => measured[2] = elapsed * 1000
=============================================================================
