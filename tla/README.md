# A verification project for the FX2G3 / OPTIGA Trust M example

The program (`src/`) runs on one Cortex-M4 under FreeRTOS. It opens the
application on an OPTIGA Trust M chip over I2C, generates an ECC key pair in
the chip, signs a digest with it, verifies the signature and closes the
application again. The protocol stack between the application and the I2C port
is Infineon's *host library*, a git submodule that is not in this repository;
it is modelled only by how `src/` uses it, and every definition that stands for
it is marked external in `PROJECT.json`.

This directory holds TLA+ modules translated from the C sources, TLC
configurations that check them, and TLAPS proofs about them. `PROJECT.json`
maps each definition to the lines it translates. Code is quoted below by file
and line of `src/`; `pal_*.c` are in `src/COMPONENT_OPTIGA_CYHAL/`.

## 1. The system

| Component | State it keeps | Operations | Interacts with |
|---|---|---|---|
| Application task (`optiga_app.c`, `main.c:178-187`) | the status word `optiga_lib_status`, `me_util_instance`, locals of `Cy_Optiga_Main` | `Cy_Optiga_Init`, `Cy_Optiga_Main`, `Cy_Optiga_Deinit`, three completion callbacks | calls the host library, which calls back from the timer daemon |
| I2C port (`pal_i2c.c`) | `g_entry_count` | `pal_i2c_write`, `pal_i2c_read`, init, deinit | called by the library; calls the I2C driver and the library's event handler |
| Lock port (`pal_os_lock.c`) | a byte per lock | create, acquire, release | called by the library from several contexts |
| Event port (`pal_os_event.c`) | one event, one one-shot timer, `timer_created` | create, register, start, stop, trigger, destroy | FreeRTOS timer commands; the daemon runs the library's callback |
| I2C driver (`usb_i2c.c`) | the PDL's `I2C_context` | `cyi2c_master_read`, `cyi2c_master_write`, initialisation | SCB0 |
| Startup and tasks (`main.c`, `FreeRTOSConfig.h`) | the tasks and their priorities | `main`, the application and print tasks, the tick | FreeRTOS scheduler, its daemon and idle task |
| Data store port (`pal_os_datastore.c`) | three length-prefixed buffers | read, write | called by the library |
| Formatting and arithmetic (`printArray16`, `PrintVersionInfo`, `optiga_app_util_encode_ecc_public_key_in_bit_string_format`, `ConfigureSCB0Clock`) | none | pure functions | |
| Timer and memory ports (`pal_os_timer.c`, `pal_os_memory.c`) | none that is read | two clocks, a delay, allocation | the tick count, the DMA buffer manager |
| GPIO, configuration, logger ports, `cm0_code.c`, linker scripts, board templates | none that a later step reads | wrappers, tables, stubs, a binary image | |

How they work together: the task calls the library, which queues the operation
and starts the *event* (a one-shot timer); the timer daemon, of a higher
priority than the task, fires it, and the library's state machine runs in the
daemon, one step per event, reading and writing the chip through the I2C port,
whose result it receives as an event from inside the call. When the operation
is complete the daemon calls the callback of the task's instance, which writes
the status word the task busy-waits on.

What is hard about it, and what would make each part correct:

* **Application task.** Completions come at any moment after the call was made,
  through one word shared by all operations, to stack buffers of the caller;
  every one of nine creations, opens and operations can fail. Correct: no
  completion is lost or taken for another one's, buffers and instances outlive
  their use, the reported status is what happened, every path cleans up, the
  operations happen in order (the key store survives a run, so signing out of
  order would succeed with an old key), and the task ends.
* **I2C port.** Calls nest by preemption and from the event handler; the lock
  word is tested and set in three accesses; there are five exits. Correct: one
  transfer at a time, the bus free at rest, one truthful answer per call.
* **Lock port.** Same, with a byte that is decremented and can wrap, and with
  holders that are not running. Correct: an atomic try-lock.
* **Event port.** A registration races with the timer's expiry, commands to the
  timer can be lost, stop does not stop, destroy leaves the handle. Correct:
  every accepted start fires exactly one callback with its own argument.
* **I2C driver.** START or ReSTART depends on what the last transfer left
  behind; an error may come at any byte. Correct: each transfer is framed by a
  START and a STOP, only the last byte is answered with NAK.
* **Startup and tasks.** Busy-waits under strict priorities. Correct: the daemon
  can always end the wait, and what could not be created is
  reported.
* **Data store, formatting, arithmetic.** Boundaries: lengths at capacity,
  remainder rows, packed version fields, 32-bit wrap.

## 2. Modules

| Module | Models | Its state and actions in the code |
|---|---|---|
| `OptigaApp` | the application task and the callbacks | `at`/`phase` are the program point; each line of `WAIT_AND_CHECK_STATUS` (`optiga_app.h:80-91`) is an action (`CheckReturn`, `Await`, `CheckStatus`, `Fail`), the two lines before it `MarkBusy` and `Accept`/`Reject`; `Complete` is a callback from the daemon. The creations, exits and destroys are one action each |
| `AuthSession` | what `Cy_Optiga_Main` promises | four operations performed in order, and a verdict that is true. `OptigaApp` implements it under the mapping `S` (performed = the main operations the chip completed, verdict = what was logged) |
| `OptigaAppProofs` | proofs about `OptigaApp` | |
| `PalI2c` | `pal_i2c.c` | a stack of calls; each access to `g_entry_count`, each transfer, report and release is an action of the call on top |
| `PalI2cProofs` | proofs about `PalI2c` | |
| `PalOsLock` | `pal_os_lock.c` | one program counter and register per context, each access to the byte a step, the scheduler as the guard `Runs` |
| `Mutex` | what callers expect of the lock | an atomic try-lock. `PalOsLock` implements it under the mapping `M`: acquire takes effect with the store of `lock++`, release with that of `lock--` |
| `MCPalOsLock` | values of the constants of `PalOsLock` | |
| `PalOsEvent` | `pal_os_event.c` with the FreeRTOS timer and its daemon | two program counters, of the task and of the daemon; each statement of start, register and destroy is an action of either (`Start` ... `PostStart`) or of the task (`PostDestroy`, `Destroyed`). `Post` is a timer command, `TakeCommand` and `Expire` are the daemon, `Trigger` is lines 75-88 |
| `OneShot` | what the library relies on in the event | a job that is armed runs once, later. `PalOsEvent` implements it under the mapping `E`: armed = the registered job while a start is queued or the timer runs |
| `PalOsEventProofs` | proofs about `PalOsEvent` | |
| `PalOsLockProofs` | proofs about `PalOsLock` | |
| `CyI2cMaster` | the transfers of `usb_i2c.c` | a stack of driver calls over `state` (`I2C_context.state`); every call of the PDL is an action (`Enter`, the choice of START or ReSTART, each byte, STOP, `Leave`) that may fail. `owner` and the fields `got`, `last` are history: what was seen on the wires |
| `CyI2cMasterProofs` | proofs about `CyI2cMaster` | |
| `I2cSystem` | `pal_i2c.c` on `usb_i2c.c` | `PalI2c` and `CyI2cMaster` together: `BeginTransfer` enters the driver, `EndTransfer` returns from it with its status. `message` is history: how often the message of each call went out whole |
| `I2cSystemProofs` | proofs about `I2cSystem` | |
| `Tasks` | `main.c` and the scheduler | `boot` is where `main` is; a step of the application task is a step of `OptigaApp` taken while the task has the processor (`Runs`), a callback comes while the daemon has it. `Tick` ends delays, `PrintStep` is the print task |
| `TasksProofs` | proofs about `Tasks` | |
| `I2cInit` | `Cy_USB_I2CInit` as called from `pal_i2c_init` | `step` is the program point; the interrupt `I2CMaster_ISR` comes between any two steps while it is enabled |
| `PalOsDatastore` | `pal_os_datastore.c` | `buffer`, the three arrays with their two length bytes; one action per identifier and direction |
| `Registers` | what the library expects of the data store | registers that do not disturb one another. `PalOsDatastore` implements it under the mapping `R` |
| `PrintArray16` | `printArray16` (`optiga_app.c`) | `line` is the line of the loop, `i`, `j` its counters, `rows` what was printed |
| `PalOsTimer` | the two clocks of `pal_os_timer.c` | the tick count, and a measurement made by subtracting two readings |
| `Formats` | version digits and DER header | pure operators, one call at a time |
| `MCPorts` | the five modules before, in one run | `subject` picks the one that is exercised |
| `PortsProofs` | proofs about `I2cInit`, `PrintArray16`, `PalOsDatastore`, `PalOsTimer`, `Formats` | |

Some modelling decisions:

* *Pointers and instances.* `ptr` is the set of pointers that are not NULL,
  `live` the set of instances the library has allocated. `crypt_me` and
  `util_me` die when `Cy_Optiga_Main` returns, in `UtilDestroy`.
* *The library.* It may refuse any call, must refuse one on a NULL instance
  (its NULL check is on, `optiga_lib_config_mtb.h:114`), answers every
  operation it accepted once, with success only if the application is open, and
  refuses to destroy an instance in use. It does not check that the operations
  come in order: `ecdsa_sign` succeeds with whatever key is in the key store.
* *`!OPTIGA_LIB_SUCCESS`.* The initial value of `return_status` is the logical
  negation of 0, which equals `OPTIGA_LIB_BUSY`; the configurations give both
  constants the same value, the proofs admit any value but SUCCESS.
* *Calls of the I2C port nest.* There is one core, priorities are strict, and a
  call only busy-waits (`Cy_SysLib_DelayUs`, PDL polling), so a call that
  preempts another returns first. Hence a stack, and steps only on top of it.
* *Transfers.* In `PalI2c` a transfer of `usb_i2c.c` begins, and ends well or
  not. `I2cSystem` replaces this by the driver.
* *The PDL.* Each function the driver calls is one step: it says NOT_READY in
  the wrong state of the context and changes nothing, or succeeds, or is not
  acknowledged, or loses the bus. It returns; one that never does is outside the
  model. Between two of them any other call may be made and returned from.
  `Cy_SCB_I2C_Init` forgets the callback; whether `Cy_SCB_I2C_SetDataRate` finds
  a rate is open, and if not the code loops (`Stuck`, `usb_i2c.c:291`).
* *The build* is the one of the Makefile, with `DEBUG_INFRA_EN` and
  `USBFS_LOGS_ENABLE` at 1. In `Tasks` time is abstract: a delay ends at any
  later tick. Every `xTaskCreate` and every step of `Cy_Optiga_HbDmaInit` may
  fail; the idle task and the daemon have static memory, so that the scheduler
  does not return. The allocator (`HasBuffers`: nothing to allocate before the
  third step of the DMA initialisation) is a library, taken as `src/` uses it. Log
  lines are left out: `Logging_Init` sets `printNow` (`main.c:158`, `164`), so that
  they do not wait for the print task, and the rest is in the logger.
* *The PERI clock* may be one of the four that `ConfigureSCB0Clock` has a case
  for, or one of `OtherClocks`, for which the divider stays as it was: 0 since
  reset, or what an earlier initialisation set.
* *The data store.* The secret is tested against its buffer, the two contexts
  are not: the library is assumed to write no context that does not fit
  (`WriteContext`). `Byte` is the number of values of a byte.
* *Clocks* count modulo `Word`, 2^32 in the code; microseconds are milliseconds
  times 1000, modulo the same word.
* *Clients of the event.* They are in the host library, so `PalOsEvent` says
  what it assumes of them: the task starts and destroys the event between its
  creation and its destruction; a callback registers one successor, or stops the
  event and may start it again. They give the port a *job*, a callback with
  its argument; the two are stored, and read, separately.
  `AtRest` says whether the event is destroyed only when it is stopped. Whether it
  has a timer is not asked, neither by the clients nor by `pal_os_event_destroy`.
* *The timer daemon.* It has a higher priority than the task
  (`FreeRTOSConfig.h:101`), so the task runs only while it is blocked. Time is
  abstracted: a started timer expires at any later moment, and a start that the
  daemon takes late runs the callback at once. A timer that could not be created
  leaves a null handle, as there is before the first creation; a timer that was
  deleted leaves a freed one. A command given to either ends the behaviour
  (`halted`): the first stops the system, as configASSERT does in a debug build,
  and what the second does is undefined.
* *Mutants.* Operators `Mutant_...` are the plausible slips used to see that
  each property can fail; no specification uses them.

## 3. Runs

| Run | Shows | Bounds |
|---|---|---|
| `app` | all invariants of `OptigaApp`; `StageOrder`; that every step brings the end nearer (`StepsRunOut`); that it implements `AuthSession` (`SessionSpec`); that the task ends (`Termination`) and closes what it opened (`SessionClosed`) | two error codes (nothing distinguishes them but identity); the state space is complete, 723 states |
| `app_opened` | *violation*: `OpenedBeforeUse` | same |
| `i2c_writes` | `OneTransfer`, `RefusedOnlyIfHeld` with writes only | three nested calls: the task, the daemon, and one from a handler; three attempts as in the code |
| `i2c_overlap` | *violation*: `OneTransfer` with reads | two nested calls are enough |
| `lock` | mutual exclusion, `ByteIsTrue`, refinement of `Mutex` | three contexts at the priorities 5, 12, 14; the byte has its width of 256 |
| `lock_held` | *violation*: `MutualExclusion` | same |
| `event` | `MarkedIsPending`, and that the event is a `OneShot`, liveness included | two jobs (a callback and its argument can be mismatched), the queue of 20 commands of `FreeRTOSConfig.h:102`; the state space is complete, 886 states |
| `i2c_driver` | of reads and writes, that the bus is free at rest (`FreeAtRest`) and each call answers once (`OneAnswer`); `NoFalseSuccess`, `WiresFreeAtRest`; of the port on its driver, that each transfer serves the call waiting for it (`SystemTypeOK`), `DeliveredOnce`, and that every step brings the running call nearer to its return (`CallsEnd`) | three nested calls, three attempts, messages of 0 bytes (only an address) and of 2 (the last byte and one that is not); 4.4 million states |
| `tasks` | that the task under the scheduler implements `OptigaApp`, its fairness included (`AppImplemented`); `DmaFailureReported` | as `app`; complete, 5134 states |
| `ports` | `RegistersSpec`, `RowsRight`, `ElapsedRight`, `ServedWhole`, `RateKept`, `FormatsTrue` | a byte of two values, so that buffers of up to 3 bytes use both length bytes; arrays of 0 to 50 bytes, every remainder with none to three full rows; a word of 4096 ms and measurements of up to 8 ms, so that both clocks wrap; the edges of each version field, majors up to 7 because TLC's integers have 32 bits; all keys whose DER length is one octet; one PERI clock without a case, between initialisations that find one. 84 thousand states, the sum of the five |
| `event_teardown` | `StartsLive`, `SilentWhenDestroyed`, `OwnArgument` when the event is destroyed in the middle of an operation | as `event`; complete, 1262 states |
| `clock` | *violation*: `ThreeMHz` | a PERI clock of 37.5 MHz |

Deadlock is checked in every run. The task ends in `while (true)`, modelled by
`Spin`.

The violations, in words:

* `app_opened`: after a failed open, `Cy_Optiga_Main` runs (`main.c:182-184`) and
  starts its first operation, though `optiga_app.c:118` calls the open a
  precondition. The operation fails and the log says so (`LoggedTruth`).
  That this is the only way is proved: operations find the chip open in every
  run that has logged no failure of `Cy_Optiga_Init` (`OpenedIfReported`).
* `i2c_overlap`: `pal_i2c_read` releases the bus on every path, also when it was
  refused (`pal_i2c.c:224`), so a third call gets the bus in the middle of the
  first one's transfer. With writes only this cannot happen, which is proved.
  For the same reason `RefusedOnlyIfHeld` is stated for writes: a refused read
  between a write's increment and its second test makes the write refuse
  itself, harmlessly (`FreeAtRest` and `OneAnswer` hold all the same).
* `lock_held`: the branch for contention of `pal_os_lock_acquire` decrements and
  then returns SUCCESS (`pal_os_lock.c:64-68`). The lock is sound only if
  whoever preempts a call gives the lock back before the call goes on, which is
  the run `lock`. The example keeps to this, because its task calls the
  library only when no operation is in flight (`NoLateCallback`).

* `clock`: for a PERI clock without a case the divider is not configured, and is
  enabled and assigned to the block all the same (`usb_i2c.c:184-194`), against the
  comment of line 161. The board's 75 MHz has a case; the clock of the run is the
  one that the change of part in `README.md:192-194` of the repository leaves until
  `CLK_PERI` is restored. For a clock with a case the divider is right whatever an
  earlier initialisation found (`RateKept`, proved).

Divergences with no run: `Cy_USB_I2CInit` asks `Cy_SCB_I2C_SetDataRate` for the
rate at the constant target clock (`usb_i2c.c:285`) and not at the clock that
`ConfigureSCB0Clock` made. For the four clocks with a case the real one is not
above it, so that the bus is not faster than asked (`RateKept`); the test of line
291 says nothing about it. `pal_os_event_destroy` gives its commands to whatever
handle there is (`pal_os_event.c:112-113`): for an event created without a callback
and never started that is a null handle, or a freed one if there was a timer
before. `PalOsEvent` takes these steps and ends there; nothing in the repository
says what such a destruction promises. What is claimed is that `timer_created`
follows the timer, so that a *start* never meets such a handle, except for the NULL
of a creation that has just failed (`StartsLive`).
And `README.md:306-308` of the repository says the
signature is made with the public key and verified with the private one; the
code signs with the private key in the key store (`optiga_app.c:402`) and
verifies with the public key it exported (`optiga_app.c:443`).

### Fairness

`Tasks` assumes that the processor executes (`BootStep`, `Processor`), that ticks
come (`Tick`: delays and timers end), and that the library answers an accepted
operation after finitely many steps of the daemon (`SF` of `DaemonAnswers`:
strong, because the daemon blocks between its steps). From these and the
priorities the run `tasks` derives the fairness of `OptigaApp`, if the task could
be created at all; its mutant gives the daemon the low priority of the FreeRTOS
demos, and the busy-wait then never ends.

`OptigaApp` assumes weak fairness of the task's steps and of each completion.
The first: only the daemon and interrupts have a higher priority than the task,
and they do not run for ever. The second: the library answers what it accepted,
and its daemon (priority 14, `FreeRTOSConfig.h:101`) preempts the busy-wait
(priority 12, `main.c:197`). `PalOsEvent` assumes weak fairness of the daemon
(it runs when it is ready, and timers expire) and of the return of callbacks
that have nothing left to do; the task needs none. The other modules state
safety only; calls that preempt without end could hold a lower call up for ever.

## 4. Proofs

All theorems hold for every value of the constants that the named assumptions
(`StatusAssumption`, `CallAssumption`, `EventAssumption`, `ContextAssumption`,
`LengthAssumption`, `StoreAssumption`, `ArrayAssumption`, `TimerAssumption`,
`ClockAssumption`, `FormatAssumption`) admit; TLC evaluates the assumptions in the runs.

**OptigaApp.** `IInv` = types + `Protocol` + `Instances` + `History` +
`LoggedTruth`. The checked invariants are not inductive: `NoLostWakeup`, for
example, says nothing of a task that has not reached its wait yet. `Protocol`
says what the status word and `return_status` mean at each point of the macro
(in flight and busy; or answered, and SUCCESS exactly if the chip did it; or
refused), `Instances` which pointers are valid at which stage, and `History`
what the chip has done and what was logged when the task is at a stage.
`StageIInv` and `OperationIInv` prove that every action keeps it, one step per
action and one per conjunct. From it follow `TypeCorrect`, `CallbackInTime`,
`WakeupNotLost`, `InstancesLive`, `LogIsTrue`, `NothingLeaks`, the action
property `OrderKept`, and `Refinement`: every step is a step of `AuthSession`
or leaves it unchanged (`MainExit` is `Conclude`, a successful `Complete` of a
main operation is `Perform`).

`TaskEnds` is about the way to the end. `Remaining` weighs the stage the task is
at (12 each), the phase of the operation (2) and the answer still to come (1);
it begins with 180, and under `IInv` every step lowers it (`TaskAdvances`,
`AnswerAdvances`): no failure leads back, and an answer changes the word only
once. So the task takes at most 180 steps, and with `WakeupNotLost` the only thing
it can wait for is an answer that the library owes it. What `Termination` adds, and
TLC checks, is that fairness takes those steps.

`Session` ties `opened` to what the chip has done: the application on the chip is
open exactly between the two operations that open and close it. Hence
`OpenedIfReported`, the counterpart of the run `app_opened`, and `LeftOpenIsReported`,
which is `SessionClosed` without its "eventually".

**PalI2c.** For every nesting depth and every number of attempts. `FrameOK`
says what one call has done at each point; `Guarded` is the argument why the
word is right: if it is set, some call holds the bus and no call above it is
past the test, so an increment that was interrupted still finds the word as it
left it. This gives `TypeCorrect`, `BusFreeAtRest` and `AnsweredOnce` for reads
and writes. `HolderAlone` adds that above a holder every call is waiting to
test, refused or done; it is inductive only if no call is a read
(`WritesOnly`), and gives `WritesExclude` and `WritesRefusedRightly`.
`StepsToReturn` bounds the steps a call has left, twice the attempts that remain and
a constant; `PortAdvances` shows that each step of the port lowers that of the running
call and touches no other.

**PalOsEvent.** For any jobs and any length of the queue. `IInv` adds to the
types what is true while a callback runs (`InCallback`: the timer is dormant and
the queue holds at most the start of the successor), while the task registers
(`InRegistration`: nothing is pending, so the two stores cannot be split by an
expiry) or destroys (`InDestruction`: past its first command there is a timer, or
the behaviour has ended), what the queue holds (`OneCommand`), what
`timer_created` means (`Handle`) and what is registered (`Registered`). It gives
`TypeCorrect`, `ArgumentsMatch`, `StartsAreLive` and `SilentAfterDestroy`. The
conjunct `Rest` says that an event destroyed only at rest has nothing to lose;
`MarksAreServed` and `Refinement` hold under `AtRest`. Without it they do not:
a destruction in the middle of an operation leaves the mark set
(`pal_os_event.c:106-120` does not clear it), and every later start is
swallowed.

**PalOsLock.** For any finite set of contexts of distinct priorities. The types
are kept in any case; `Exclusion`, `ByteTrue` and `Refinement` need that no
context holds the lock across the call of one it preempted (`~HoldAcross`), as
the run `lock_held` shows. The invariant says what each context has loaded and
holds at its points, and that the branch for contention is not reached
(`CallOK`), that at most one context has the lock in hand and the byte says
whether (`InOneHand`), and that who took it while another was between its test
and its store preempts that other one (`Preempting`). So a context that runs on
finds the byte as it tested it (`StillFree`).

**CyI2cMaster.** For every nesting depth and every length. `DriverIInv` = types
+ `XferOK` of each call (what it has moved, and what its status says, at each
point) + `Framing`: the context is idle exactly if nobody owns the frame on the
wires, its owner has not sent its STOP, and a call that moves bytes owns the
frame, or finds it ended, or taken by a call above. The last has returned, and
sent its STOP, when the call goes on, so it goes on in no frame but its own. Hence `SuccessIsTrue`
and `WiresIdleBetweenCalls`. `DriverAdvances` is the same argument as `PortAdvances`, with
the bytes left in place of the attempts.

**I2cSystem.** `PartsImplemented`: every step of the composition is one of
`PalI2c` or leaves it unchanged, and one of `CyI2cMaster` or leaves it
unchanged, so that the theorems of both hold of the composition
(`PartsCorrect`). `Messaging` adds what `message` counts at each point of a
call of the port; `Delivered` follows from it, with reads and all their overlaps.
`Working` says who works for whom: there is a map `home` from the calls of the driver
to those of the port, increasing and onto the calls that are at their transfer. A
transfer that begins extends it (`BeginTransfers`), one that ends cuts off its last
value (`EndTransfers`), and no other step of the port touches a call at its transfer
(`PortTransfers`). This gives `DriverServesPort`, and, with `WritesExclude`,
`WritesNotNested`: if there are no reads the driver is never entered while it is at
work. `CallsComeToAnEnd` puts the measures of both parts together: a step lowers
that of the running call of the port or of the driver, and the calls below stay as
they are.

**Tasks.** `TasksIInv` = the invariant of `OptigaApp` + types + `Untouched`
(before the scheduler runs, and without buffers, nothing is allocated, in flight
or done). `AppRefined` shows that every step is one of `OptigaApp` or none;
`AppCorrect` carries its invariants over, and `FirmwareSession` the refinement of
`AuthSession`, the order of the operations and the bound on their steps;
`DmaFailuresReported` uses `Untouched`.

**Ports.** `I2cInit`: while the interrupt is enabled, vector and context are
whole (`Enabled`), and a block that is on has the divider of the PERI clock that was
found, if that has a case (`Clocked`). `PrintArray16`: for every length, the rows so far are a prefix of
the array in full rows, but for the remainder. `PalOsDatastore`: for any byte
width and buffers shorter than two bytes can say, a length is recovered from its
two halves, and the bytes beyond it do not matter. `PalOsTimer`: for words of
any size, subtraction modulo the word gives the elapsed time across a wrap, also
of a clock that is a product modulo the word. `Formats`: for every version whose
fields fit the digits they get, each field comes back from the packed word
(`Unpacked`, by `Quotient`), and the digits, each below ten, add up to it (`TwoDigits`, `FourDigits`).

Only model-checked: `Termination` and `SessionClosed`, the liveness of `SessionSpec`
and `OneShotSpec` and the fairness part of `AppImplemented`. Liveness under fairness
is out of the prover's reach; the safety on which each of them rests is proved
(`TaskEnds`, `LeftOpenIsReported`, the two theorems `Refinement`, `AppRefined`). All
other properties of the passing runs are theorems.

## 5. What is left

Every component with state that a later step reads is modelled. One step would
go further:

* One module with everything. `Tasks` composes the application with the
  scheduler and the daemon, and `I2cSystem` the I2C port with its driver. What
  lies between them, the state machine that takes an operation of the application
  to events and transfers, is the host library; a module that joined the two
  would be mostly about code that is not here. That an accepted operation is
  answered is therefore an assumption (`DaemonAnswers`) and not a result.

Not modelled, and why:

* `pal_i2c.c:78-114`, callbacks for a driver with interrupts: nothing outside
  them in `src/` registers or calls them.
* The GPIO, configuration and logger ports (`pal_gpio.c`,
  `pal_ifx_i2c_config.c`, `pal_logger.c`, `pal.c`): pins, constants and stubs,
  without a state that a later step reads; the pins of the configuration are NULL.
* `pal_os_memory.c` besides the allocation, and the delay of `pal_os_timer.c`:
  one-line wrappers.
* `optiga_lib_config_mtb.h`, and most of `FreeRTOSConfig.h`: constants, of which
  the models use those that matter.
* `cm0_code.c` is the binary image of the other core; linker scripts and board
  templates are build data.
* The host library, FreeRTOS and the PDL are not in the repository and appear as
  what `src/` relies on.
