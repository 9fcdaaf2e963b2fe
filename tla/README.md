# uLoggerRTC in TLA+

Formal models of uLoggerRTC, the firmware of an STM32F407VET6 board that logs
its real-time clock over a UART, lets three push buttons set the clock, and
carries a driver for SD cards. The specifications model the code under `src/`,
TLC checks them on small instances, and TLAPS proves every safety property that
the passing runs check for all values of the constants.

Line numbers below are those of the files under `src/`.

## 1. The system

There is no operating system. `main()` starts the board and then loops; one
interrupt handler, that of the buttons, preempts it. Everything else that is
concurrent is hardware: a peripheral counts, copies, latches and times out
between any two accesses of the program.

| component | files | state | operations |
|---|---|---|---|
| buttons | `button.c`, `IRQ.c` | `button_callbacks`, EXTI `FTSR`, `IMR`, `PR` | `init_buttons`, `register_button_callback`, `EXTI15_10_IRQHandler` |
| super-loop | `main.c` | three `volatile` event flags | `init_board`, `process_button_events`, the loop |
| RTC | `RTC.c` | `is_sync_date_rtc`, `rtc_initialized`, the RTC registers | `init_rtc`, `set_datetime_rtc`, `set_time_rtc`, `set_date_rtc`, `get_datetime_rtc` |
| clock tree | `rcc.c`, `flash.h` | `CR`, `CFGR`, `PLLCFGR`, `BDCR`, `FLASH->ACR` | `setup_system_config_rcc`, `configure_rtc_clock_rcc`, `get_clock_frequencies` |
| delay timer | `timer.c` | TIM2 | `timer_init`, `delay_timer` |
| SD card | `SD.c`, `sdio.c` | `SD`, the SDIO registers, the card | `init_sd`, `init_sd_card`, single and multi block reads and writes, `write_blocks_dma`, `erase_sd` |
| UART, DMA, logger | `usart.c`, `dma.c`, `log.c` | `huart`, `dma_channels_busy`, `transfer_func` | `stm_log`, `send_data_usart`, `dma_send` |
| LED, GPIO, PWR, FPU, library stubs, start-up | the rest | – | single register writes |

How they interact:

* A falling edge latches a bit of `EXTI->PR`; the handler acknowledges it and
  calls the registered callback, which sets an event flag; `process_button_events`
  clears the flag, calls a setter of the RTC and blinks the LED. The flags are
  the only memory that the handler and the main program share.
* `init_rcc` tries three clock configurations; `timer_init` and `init_rtc` rely
  on the one that worked. The clock security system, which the code turns on,
  raises an NMI that nobody handles when the crystal fails.
* `stm_log` formats a line in a buffer on its stack and hands it to
  `usart_adapter`; the polled UART sends it before it returns, the DMA stream
  would send it afterwards.
* The RTC lives in the backup domain: a reset of the processor does not stop it.
* `SD.c` polls. `main()` never calls `sd_card_init` or a transfer; the driver is
  modelled under every sequence of calls that its interface allows.

What is hard, and where each part could be wrong:

| part | hard behaviour | what makes it correct |
|---|---|---|
| buttons | handler at any access; presses at any time; read-modify-write of `PR` | no press lost without overlap, none doubled, each served within a pass |
| RTC | shadow registers, write protection, reset in the middle of a setter | the calendar always runs again, a setter is visible when it returns, date and hour belong together |
| RTC encoding | fields that are cut or run into each other | what is set is read |
| clock tree | oscillators late or dead, attempts given up half-way | enough wait states at every instant, a clock that runs, start-up ends |
| UART, DMA, logger | transmitter and DMA stream run while the program goes on; lines longer than the buffer or than a `uint16_t` | what is formatted is what is sent, every call returns |
| the firmware as a whole | the handler preempts the RTC calls of the super-loop | a press ends in a log line that shows it |
| SD card | lost, garbled and late answers; sticky flags; stale status | success means that it was done, no wait without an end |

The full list, a line each, is `hazards` in `PROJECT.json`.

## 2. The modules

| module | models | how it is used |
|---|---|---|
| `Buttons` | buttons, handler, flags and super-loop | `Buttons.cfg`, `Buttons_lost.cfg` |
| `EventRegister` | what the buttons promise: a lossy counter of events | abstract specification of `Buttons` |
| `Rtc` | protocol of the RTC driver and its peripheral | `Rtc.cfg`, `Rtc_torn.cfg` |
| `RtcCodec`, `MCRtcCodec` | encoding of `TR` and `DR` | `RtcCodec.cfg`, `RtcCodec_date.cfg` |
| `Clock` | start-up of the clock tree, up to the super-loop | `Clock.cfg`, `Clock_dead.cfg` |
| `Sd` | SD driver, SDIO peripheral, card and line | `Sd.cfg`, `Sd_readback.cfg` |
| `Uart`, `MCUart` | logger, UART and DMA stream | `Uart.cfg` |
| `System`, `MCSystem` | composition of `Buttons` and `Rtc` | `System.cfg` |
| `ButtonsProofs`, `RtcProofs`, `RtcCodecProofs`, `ClockProofs`, `SdProofs`, `UartProofs`, `SystemProofs` | – | the proofs about the module of that name |
| `DivModLemmas` | – | quotients and remainders, for the proofs |

`map` in `PROJECT.json` names the lines that each definition stands for. A
definition with the word *Mutated* in its comment is not part of a model: it is
the same step with a plausible mistake in it, and the property that is meant to
catch the mistake does.

### Buttons

`pc` and `k` are the place of `main()`; `isr`, `pin` and `seen` that of the
handler. While `isr # "idle"` only the handler and the user move: it preempts
`main()` and returns to it. `exti_clear_pending` is two actions, `AckRead` and
`AckWrite`, because `EXTI->PR |= bit` is a read and a write of a register that
is cleared by writing ones. Setting the RTC is one action, `Update`: module
`Rtc` shows what is inside. `presses`, `updates`, `owed`, `overlap` and `age`
are history; no action is guarded by them but `presses`, which bounds the user.

* `NoPressLost`: from the edge to the update a press is always somewhere,
  unless two lines have been pending at the same time.
* `UpdatesJustified`: one press never makes two updates.
* `ServedByNextPass`: a flag waits through at most one `delay_timer(3000)`.
* `PressServed`: a press is followed by its update.
* `ImplementsRegister`: refinement of `EventRegister`, with its liveness.
* `EveryPressRepresented` (violated): the same as `NoPressLost` with no escape,
  which is what `README.md:54` promises.

### Rtc

The calendar is a number with digits in base `Base`; `TR` has the three low
digits and `DR` the three high ones. `copied` and `dr` are the shadow registers;
reading `TR` locks `DR` until it is read, as the reference manual of the
peripheral says. `WriteTR`, `WriteDR`, `ClearInit` and `ClearRsf` take effect
only if the registers are unlocked: the setters lock before `rtc_wait_sync`, and
its clear of `RSF` is lost. `Reset` strikes anywhere; `CallInit` includes the
reset of the backup domain that `configure_rtc_clock_rcc` makes.

* `IdleMeansRunning`: between calls the calendar runs, is protected, and `DR` is
  not locked, whatever a reset has interrupted.
* `SetIsVisible`: a setter that has returned is what the next read sees.
* `DayMatchesHour`, `NeverAhead`: what survives of consistency although `TR` is
  read three times.
* `CallsReturn`: no wait for `INITF` or `RSF` is for ever, given an RTC clock.
* `WholeInstant` (violated): the value that is logged was once in the calendar.

### RtcCodec

A register is a set of bits, so that fields that overlap overlap. `Times` and
`Dates` are the limits of the fields, the values that `main.c` sets, years that
the `uint8_t` wraps, and days of the week whose enumerator does not fit. The
wrap goes both ways: 2236 is accepted and read as 1980, and so is 1780, which is
read as 2036.

* `TimeReadsBack`: the time that is set is the time that is read.
* `DateReadsBack`: so are day and month, the year from 1980 to 2235 (the driver
  accepts the first hundred), and the three bits of the day of the week: what
  is read as `week` is 8 times the units of the year plus these, so that the
  `week:41` of `README.md:167` is Monday in a year that ends in 5. It leaves out
  the years that wrap, of whose reading the repository says nothing.
* `DateSetReadsBack` (violated): `set_date_rtc` writes the year without its
  offset (`RTC.c:131`), and what is read is another year: 2085 for 2025 in
  `README.md:166-167`.

### Clock

One register access per action. `crystal` and `pllWorks` are the board;
`HseStarts`, `PllLocks` and `Switch` happen late, `OscTimeout` and `PllTimeout`
at any time before. `HseFails` is the clock security system: HSE and a PLL fed
by it stop, the hardware falls back to HSI, and the program is in the endless
`Default_Handler`. The counter of `rcc.c:448-455` is kept, with -1 for
2^32 - 1, because its wrap-around decides what happens.

* `FlashKeepsUp`, `SysclkRuns`, `PllInputInRange` hold at every instant, those
  between two writes included.
* `RccSucceeds`: the fallback always ends with a clock.
* `RatesInRange`: what is derived from the clocks is right, whichever attempt
  worked: the limits of the buses (`get_clock_frequencies`), the baud rate
  (`calculate_USART_BRR`), the second of the RTC (`calculate_prescalers_rtc`)
  and the SDIO clock (`get_pll48clk_freq`, `sdio_calc_clkcr_div`). It is about
  the states after `init_rcc`.
* `StartupConcludes`: with a crystal that works, start-up ends. The endless
  default handler is one of the ends: the property says nothing against a
  crystal that stops after the security system is on.
* Violated: `FailureIsReported` (dead crystal: the wrapped counter hides the
  error).

Two deviations of the code are in no property. APB1 runs undivided at 168 MHz
between the selection of the PLL (`rcc.c:56`) and the write of the dividers
(`rcc.c:67`), above the 42 MHz of `rcc.h:323`: the model has that state, and no
property denies it. The tick of `timer_init` is not modelled, because the models
have no durations: it is a millisecond only at 16 MHz. At 84 MHz the prescaler
83999 loses its top bit (18463 is left), so that `delay_timer(10)` waits 2.2 ms
and not the "10 ms" of `SD.c:449`, and the 3 s of `main.c:126` are 0.66 s. The
protocols are checked for delays of any length.

### Sd

`pc` names the command whose response the driver waits for. `Answer` is the card
and the line together: a fault loses the command, loses the response, or
corrupts it. `Receive`, `LateReceive` and `Transmit` are the data path of the
peripheral, whose flags stay in `sta` until `clear_flags_sdio`. With DMA the
stream can be done before the data path is: `StreamEnds` sets `TCIF` when the
last word is in the FIFO, and `Drain` sends the rest and sets the end flags,
whatever the program does meanwhile. The card may send the block of a single
read before `read_single_block_sd` has turned its data path on: the block is
then missed, and the read ends with the timeout of the data.

What looks odd in the model is the code's: `SD.voltage` survives `reset_sd`,
`OnAppCmd` may go either way on an uninitialised structure, `STBITERR` is never
cleared, `write_blocks_dma` stores anything because the DMA is pointed at the
parameter, `write1` is not scaled, and the product of `Scaled` wraps at `Word`,
2^32 in the code. A `STBITERR` that an earlier read has left ends the loop of
`SD.c:935` at once. If the stream is done and the data path is not, the test of
`SD.c:940` fails, and `write_blocks_dma` returns 0 without CMD12, its data under
way and the card waiting (`EndDma`).

* `InitMeansReady`: after `sd_card_init` has returned 0, host and card agree on
  address and width of the bus.
* `ReadyAfterSuccess`: a transfer or an erase that waits for the card leaves it
  ready, the data path off, and no flag but `STBITERR`. `write_blocks_dma` does
  not wait for the card; its data path is off and its flags are cleared, except
  when a `STBITERR` has ended its loop as above.
* `SuccessMeansDone`: a return of 0 says that it was done, after any history of
  failed calls; the end flags of an abandoned transfer, which come later, end no
  other call. What `write_blocks_dma` stores is in no property.
* `ReadsBackByBlock`: reads return what was written, where all calls agree on
  the address. `ReadsBack` (violated) asks it of every card.
* `StuckNeedsFault`, `CallsReturn`: the waits without a bound end, but for two
  that a fault can make endless (`Hung`): the response of an ACMD6 that was not
  sent (`SD.c:727`) and the DMA wait (`SD.c:937`). Of these two the properties
  say only that it takes a fault.

### Uart

A byte is a pair of the number of the call and its offset, and a cell of `buff`
holds the number of the call that wrote it, or 0 for what the rest of the
program has put there. `Load`, `ShiftOut` and `DmaMove` are the transmitter and
the stream; they go on while `stm_log` runs and after it has returned. `LogBody`
keeps the two conversions that matter: `vsnprintf` returns the length that the
message would have had, and a `uint16_t` takes it. `wire` is what has left the
transmitter, `due` the texts handed to it.

`main.c:275` chooses `UART_MODE_POLLING`; `UART_MODE_DMA`, which `README.md:88-92`
describes, is modelled as the driver has it. `dma_channels_busy` is never set, so
`dma_send` stops a running transfer (`DmaStop`); `reset_flags_dma` shifts an
`int` by 54 and more, so that the flags are cleared or not (`DmaFlags`), and the
stream does not start while one is set. `DMA2_Stream7_IRQHandler` never runs:
nothing enables its interrupt. So lines may be lost or cut in that mode, and a
line may be sent from a stack that has changed (`StackReused`, `reused`).

* `WireIsLog`: what is sent is what was formatted, in order; with polling, to the
  last bit before `stm_log` returns; with DMA, for the lines whose transfer
  starts, as long as nobody writes to the stack under it. What an overlong line
  reads behind the buffer counts as part of its text, and a line whose buffer was
  given up under it is excused (`reused`): the property is about the order and
  the completeness of the bytes, and catches neither of these two by itself.
* `LogReturns`: no wait for a flag is for ever.

### System

`B == INSTANCE Buttons` and `R == INSTANCE Rtc` share no variable; the actions of
`System` join theirs. `BeginRead` and `EndRead` are the call of
`get_datetime_rtc` and its log line, the latter joined with `ReadClock` of
`Buttons`; `BeginUpdate` calls the setter of the button, and the last access of
that call is joined with `Update`. While the handler runs no access is made, but
the RTC counts and copies on. A reset of the processor is left to `Rtc`
(`MaxResets` is 0). `Wanted` are the literals of `process_button_events`;
`Written` is what the setters make of them, which for `set_date_rtc` has another
year (`RTC.c:131`). Which one is left open: `YearAs` is any function on the
years.

* `LineShowsUpdates`: each line of the log shows the calendar that the literals
  of the buttons served so far call for, each field as it was at some second
  since the reading began. It speaks of the fields that the code is to show
  (`ShownFields`): not of the week, which is read with the units of the year,
  and not of the year while `set_date_rtc` is the last to have written it
  (`README.md:166-167`; that year is the violation of `RtcCodec_date`).
* `PressReachesLog`: a press is followed by a line that was read after its
  update.
* `ImplementsButtons`: the composition implements `Buttons` with its fairness.
  There a call of `RTC.c` is one step that always comes; here that is a result.

## 3. The runs and their bounds

| run | bounds | states | result |
|---|---|---|---|
| `Buttons` | 2 buttons, 2 presses each | 28 386 | holds |
| `Buttons_lost` | 2 buttons, 1 press each | – | `EveryPressRepresented` violated, finding |
| `Rtc` | `Base` 2, 4 seconds, 1 reset, two values to set | 48 072 | holds |
| `Rtc_torn` | `Base` 2, 2 seconds | – | `WholeInstant` violated, finding |
| `RtcCodec` | 6 times, the dates of `MCRtcCodec` | 194 | holds |
| `RtcCodec_date` | the same | – | `DateSetReadsBack` violated, finding |
| `Clock` | `RtcTimeout` 2 | 491 | holds |
| `Clock_dead` | the same | – | `FailureIsReported` violated, finding |
| `Sd` | 3 kinds of card, 2 blocks, addresses modulo 8, 2 faults, 2 attempts in each loop | 618 293 | holds |
| `Uart` | buffer of 4 bytes, lengths modulo 8, 6 kinds of line, 2 calls, both modes | 99 745 | holds |
| `System` | 3 buttons, 2 presses in all, `Base` 2, 1 second, years exchanged by `set_date_rtc` | 163 266 | holds |
| `Sd_readback` | high capacity card, no fault | – | `ReadsBack` violated, finding |

Why they are enough. Two buttons are the least that overlap; for larger instances
the invariants are proved. With base 2 one carry
runs through many fields (the values to set, 7 and 31, are the last instants
before a carry into the day and into the year), and with four seconds several
carries fall between the accesses of one call. One reset is enough because
`CallInit` resets the peripheral, so that nothing of an earlier one survives. The three kinds of card
are those that the driver tells apart. Two faults are the least that make a
failed call leave something behind and a later call meet another fault; two
attempts in a loop are the least with a retry that is not the last. `RtcTimeout`
2 lets the crystal be ready before, at and after the expiry. In `Uart` the lines
of `MCUart` are one of each kind: below the level, one that fits, one that does
not, one whose length wraps to 0 and one to 1, one whose prefix does not fit; two
calls are the least in which one meets the transfer of another. In `System` two
presses are the least that are served in one pass, in either order of their
buttons, or one after the other; the second of time is enough to carry from the
last instant of a day, which button 1 sets, into the next. The literals, 7, 2
and 56, have two dates that differ in every field and two times that differ in
hour and second, and `YearAs` exchanges the two years, so that no year of button 3
is right by accident.

Deadlock is checked except in `Clock`, where start-up ends, `Uart`, where the
calls do, and `Sd`, where the driver may really hang (`Hung`).

Fairness. `MainStep`, `IsrStep` and the driver's `Step` are weakly fair: the
processor executes. The RTC is weakly fair as its clock runs. In `Clock` the
crystal and the switch are fair, the PLL is not: it may never lock. In `Sd` the
hardware is fair: the SDIO peripheral ends every command and data phase with
some flag. In `Uart` the transmitter and the stream are fair, as the baud rate
generator runs. In `System` the handler, the program as a whole and the RTC are
fair; that a call of `RTC.c` ends is not assumed.
Nothing is assumed of the user, of the caller, or of a reset.

## 4. What is proved

Each invariant of a passing run is a theorem of its specification, and so is the
safety part of the two refinements. TLC has checked each of the inductive
invariants on a small instance, that of the run or a larger one, before it was
proved; `Shows` of `SystemProofs` with two seconds, 577 982 states.

| module | for every | theorems (property) |
|---|---|---|
| `ButtonsProofs` | number of buttons and of presses | `TypeCorrect`, `NoPressIsLost` (`NoPressLost`), `UpdatesAreJustified` (`UpdatesJustified`), `FlagsAreServed` (`ServedByNextPass`), `ImplementsEventRegister` |
| `RtcProofs` | base of the calendar, set of values to set, number of seconds and resets | `TypeCorrect`, `CallsLeaveItRunning` (`IdleMeansRunning`), `SettersAreVisible` (`SetIsVisible`), `DayAndHourAreOfOneCopy` (`DayMatchesHour`), `ReadsAreNeverAhead` (`NeverAhead`) |
| `RtcCodecProofs` | time of the day, day, month, `uint16_t` year and week | `TypeCorrect`, `TimesReadBack` (`TimeReadsBack`), `DatesReadBack` (`DateReadsBack`) |
| `ClockProofs` | length of the timeout | `TypeCorrect`, `FlashIsFastEnough` (`FlashKeepsUp`), `ProcessorHasItsClock` (`SysclkRuns`), `PllIsFedInRange` (`PllInputInRange`), `RccAlwaysSucceeds` (`RccSucceeds`), `RatesAreInRange` (`RatesInRange`) |
| `SdProofs` | kind of card, block length, number of blocks, bound on the attempts, number of faults | `TypeCorrect`, `InitLeavesCardReady` (`InitMeansReady`), `SuccessLeavesCardReady` (`ReadyAfterSuccess`), `SuccessIsDone` (`SuccessMeansDone`), `BlocksReadBack` (`ReadsBackByBlock`), `HangNeedsFault` (`StuckNeedsFault`) |
| `UartProofs` | size of the buffer and width of the length, log level, lines, number of calls | `TypeCorrect`, `LinesReachTheWire` (`WireIsLog`) |
| `SystemProofs` | base, values that the buttons set, presses, seconds and resets | `ImplementsButtonsSafety`, `ImplementsEventRegister`, `ButtonsKeepTheirPromises`, `DrivesRtc`, `RtcKeepsItsPromises`, `LogShowsUpdates` (`LineShowsUpdates`) |

**Assumptions.** Only those on the constants, which the modules state and TLC
evaluates in the runs. The bounds of the environment (`MaxPresses`, `MaxTicks`,
`MaxResets`, `MaxCalls`, `MaxFaults`) are any natural numbers, and no proof uses
their values. Those that say something of the code: `Base > 1`, and the values to
set are in the calendar (`Rtc`, `System`); `YearAs` makes a year of a year
(`System`); the arguments of the RTC calls are
times and dates of the calendar, with any year a `uint16_t` holds (`RtcCodec`);
`RtcTimeout` and the bounds of the loops of `Sd` are not zero; a card has more
blocks than the application uses, and blocks, card and the range of an address
are of even length (`Sd`);
the buffer is shorter than the range of the length (`Uart`:
`BUFFER_SIZE < 2^16`).

**Arguments.** Most of the properties are not inductive. In each module `IInv` is
the type invariant and what the properties rest on:

* `Buttons`: the pin being acknowledged is still pending (`AckedIsPending`),
  without an overlap there is one pending bit to read back
  (`NoOverlapMeansOne`), the phase of `main()` (`MainInPhase`: all lines are
  armed before a callback is registered, a flag being cleared is set, loops
  start at the first button), and a flag that has waited through one delay is
  ahead of the loop (`AgedIsAhead`), from which `ServedByNextPass` follows. The
  refinement maps the hand-overs inside the handler to stutters, an
  acknowledgement that swallows another button to `Lose`, the clearing of a flag
  to `Take` and the update to `Handle`.
* `Rtc`: `Registers` says which registers are open, stopped or locked at which
  statement of which call; without it nothing says that a write takes effect.
  `Always` is what a reset in the middle of a call leaves true: the calendar
  is what the setters and the clock have made of it, and neither a set `RSF` nor
  a locked `DR` goes with a stale copy. `Reading` gives the meaning of
  what `get_datetime_rtc` has got so far: the date is of the instant of the hour,
  and the time so far, in units of its last field, is not ahead of `TR`. It is
  the only place where the arithmetic of the digits, in any base, matters
  (`DivModLemmas`).
* `RtcCodec`: the registers hold the encoding of what they were given. The rest
  are lemmas on fields: a value is the sum of the weights of its bits
  (`ValueIsSum`), a field stays within its bits (`FieldRange`), and so a field
  that no other one reaches is read back (`HeldReadsBack`, `TrHolds`,
  `DrHolds`); the week is read with bits of its neighbour, and keeps its three
  (`WeekBits`). The sum is a recursive function; it is unfolded for the widths that
  fields have.
* `Clock`: attempts are given up half-way, and the next one finds what is left.
  `Selection` says which clock each step runs from, `Pll` what the PLL can be
  when it is configured, turned on or selected, `Settings` that the wait states
  and divisors come before the clock that needs them. `RatesAreInRange` computes
  the rates of the three configurations that are left.
* `Sd`: one part for each thing that the driver takes for granted.
  `CallInPhase`: which command, and which return of `wait_card_ready`, belongs to
  which call. `Addressed`, `Voltage`: card and record agree on address and kind,
  which the first card settles. `InRange`: an address that the card has accepted
  is on it. `DataPath`: the data path goes the way of the call, an end flag that
  is set while a call waits is of its transfer, and a return of 0 leaves none but
  in the case above. `Marooned`: a card whose data `write_blocks_dma` has not
  waited for is left in its receive state, or reset to idle and not powered up
  again, because `SD.voltage` survives and ACMD41 is skipped; so no later call
  gets far enough to take the late end flags for its own. `CardWaits`: a card
  that is being written to waits for its data. `Effect`: once the data are
  through, the call has done what it was to do. `Known`: what the
  application has written is what the card holds, except where the running call
  writes. `Clean`: the initialisation, command by command, on a line without
  faults, which `StuckNeedsFault` needs. Each answer of the card is taken apart
  once (the lemmas under *What an answer does*); then each part is shown to be
  kept by each action.
* `Uart`: `Phase` keeps program, transmitter and stream in step. `Buffer`: the
  last cell is never part of a text, and what the running call has written is
  there. `Log`: what has been sent, followed by what is still to be read from the
  buffer, is what was handed over; between calls nothing is left to read.
* `System`: each of its steps is a step of `Buttons` or a stutter, and a step of
  `Rtc` or a stutter; so `Spec => B!Spec` and `Spec => R!Spec`, and what
  `ButtonsProofs` and `RtcProofs` prove holds of the firmware, with no second
  proof. What is its own is `Shows`: the call that the loop makes and the update
  that it remembers (`CallOfLoop`), the calendar that this update makes (`Made`),
  with the seconds that passed before the write counted apart
  (`CalendarIsCalled`), and each field of a running read as the calendar had it at
  some second since the read began (`ReadIsRecent`). What an update makes and what it calls for are
  whole years apart if `set_date_rtc` was the setter, and the same otherwise
  (`MadeOrCalled`); calendars whole years apart agree in every field but the year
  (`WholeYears`).

One proof has corrected a property. `DateReadsBack` used to speak of every year
below 2236; the proof failed for those before 1980 that wrap. The property now
leaves them out as it does those from 2236 on, and the run has one of each.

**Only model-checked**: liveness under fairness (`PressServed`, `CallsReturn` of
`Rtc` and of `Sd`, `StartupConcludes`, `LogReturns`, `PressReachesLog`, and the
fairness of the refinements `ImplementsRegister` and `ImplementsButtons`), which
is out of the prover's reach, as is ENABLED; and of course the violations.

## 5. What is not modelled

* `stm_log_hex` is called from nowhere, `DMA2_Stream7_IRQHandler` never runs,
  `USART1_IRQHandler` is empty and the receiver is not read.
* Contents of CID and CSD, pin configuration, LED pins: data without control that
  depends on it. `SD.max_size`, a product of 32 bits that wraps from 4 GB on, is
  only logged; the class test of `erase_sd` passes for every card, but only high
  capacity cards, which have the class, get through `init_sd`.
* Durations: the delays and the tick of the timer (see *Clock*).
* The timeout of `CmdNoRespError` (`SD.c:15-22`): the command is sent as long as
  the SDIO clock runs; without it `sd_card_init` would return an error at its
  first command. A negative result of `vsnprintf` (`log.c:29`).
* `read_blocks_dma` is empty and returns 0; `SuccessMeansDone` is not about it.
* `switch_to_hse_rcc` and the LSE and LSI branches of `configure_rtc_clock_rcc`:
  not reached by `init_board`.
* Start-up code, library stubs, linker scripts.

## 6. Plan

Done, in this order: `Buttons` with its abstract specification and proofs,
`Rtc`, `Clock`, `RtcCodec`, `Sd`, `Uart`, the derived rates of `Clock`, and
`System`; then the proofs of all of them.

Next:

1. `SdCard`: an abstract block store, whose calls either take effect or fail,
   which `Sd` implements; the proof from `Effect` and `Known`.
2. Action properties from the invariants there are: the divisors and the wait
   states only change in the order that the clock allows, a command is sent only
   when the last one has been answered.
